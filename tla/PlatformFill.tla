---------------------------- MODULE PlatformFill ----------------------------
(***************************************************************************)
(* What processOne makes of the engine's result: the platform's fill of a  *)
(* MARKET order's remainder (src/src/services/platform-fill.service.ts)    *)
(* and the persistence job (src/src/workers/trades-queue.ts).  Shared by   *)
(* OrderQueue and TradesPersistence.                                       *)
(***************************************************************************)
EXTENDS OrderBook

CONSTANTS
    DefaultPrice,       \* the "0.5" of a platform fill with no price to go by
    Platform            \* the maker of a platform trade

ASSUME DefaultPriceAssumption == DefaultPrice \in Nat
ASSUME PlatformAssumption == Platform \notin Orders

VARIABLE platformFilled     \* what each order got from the platform

FillInit == BookInit /\ platformFilled = [o \in Orders |-> 0]

\* The platform only sells, so only to a BID, and at most what its LONG row
\* held when fillMarketFromPlatform read it.
PlatformQty(o, available) ==
    IF order[o].side # "BID" THEN 0
    ELSE IF rem[o] <= available THEN rem[o] ELSE available

\* The engine's trades of the order as a taker: processOrder's own list, one
\* stretch of `trades' since nothing else runs before it returns.
BookTrades(o) ==
    LET own == {i \in DOMAIN trades : trades[i].taker = o}
    IN  IF own = {} THEN << >> ELSE SubSeq(trades, Min(own), Max(own))

\* Priced at the last book trade of the order: the hint, the best ask, is
\* undefined whenever something remains (RemainderMeansEmptySide).
PlatformPrice(o) ==
    IF BookTrades(o) = << >> THEN DefaultPrice ELSE Last(BookTrades(o)).price

PlatformTrade(o, qty) ==
    [maker |-> Platform, taker |-> o, price |-> PlatformPrice(o), qty |-> qty]

ResultTrades(o, filled) ==
    BookTrades(o) \o (IF filled > 0 THEN <<PlatformTrade(o, filled)>> ELSE << >>)

\* A result that keeps the engine's status whatever the platform did.
EngineStatus(o, filled) == status[o]

\* updatedOrder.status when the platform traded, the engine's own otherwise.
ResultStatus(o, filled) ==
    IF filled = 0 THEN status[o]
    ELSE IF rem[o] - filled <= 0 THEN "FILLED" ELSE "PARTIALLY_FILLED"

\* The job's data, as they are when the job is turned into text.
Job(o) ==
    [order |-> o,
     status |-> ResultStatus(o, platformFilled[o]),
     trades |-> ResultTrades(o, platformFilled[o])]
=============================================================================

\* Two agents, a registration, a vault, two quotes, two sockets, a market; two requests
\* at once of one mix.
CONSTANTS
    Agents = {1, 2}
    Regs = {g1}
    Users = {"u", "v"}
    Amounts = {1, 2}
    NoMoney = NoMoney
    Sockets = {s1, s2}
    Quotes = {1, 2}
    QuoteMarkets <- MarketIds
    QuoteUsers <- UserIds
    NoUser = NoUser
    Settled = {m1}
    MarketOrders = {o1}
    Values = {"first", "second"}
    MaxRequests = 2
    Traffics <- Mixes
    Begins <- Found
    Topics <- Rooms
    News <- Messages
    Tick <- PriceTick
    Verdicts <- Arrays
SPECIFICATION Spec
CHECK_DEADLOCK FALSE
INVARIANTS
    BackendTypeOK
    WalletsAgree
    LedgersAgree
    CREReportsAreKept
PROPERTIES
    NothingLingers

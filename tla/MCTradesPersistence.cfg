\* Three orders of three accounts, one fault: a job that fails, one that is run
\* twice, a second consumer beside the first, or a restart of the server.
CONSTANTS
    Orders = {o1, o2, o3}
    NoOrder = NoOrder
    Platform = Platform
    Contract = Contract
    PlatformAcct = PlatformAcct
    NoAcct = NoAcct
    Workers = {w1, w2}
    PlatformSupply = 3
    QuotePrice = 1
    DefaultPrice = 1
    MaxFaults = 1
    Parties <- MCParties
    Inputs <- MCInputs
SPECIFICATION Spec
CHECK_DEADLOCK FALSE
INVARIANTS
    DbTypeOK
    RowNeverAheadOfBook
    RowsSettle
    BooksBalance
    TradesAreCounted
    AtMostOneOpenLong
    AgentSignaturesCounted
PROPERTIES
    JobsAreDone

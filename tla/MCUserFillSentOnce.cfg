\* One worker and no fault: a signed MARKET order goes through route and worker.
CONSTANTS
    Orders = {o1, o2, o3}
    NoOrder = NoOrder
    Platform = Platform
    Contract = Contract
    PlatformAcct = PlatformAcct
    NoAcct = NoAcct
    Workers = {w1}
    PlatformSupply = 3
    QuotePrice = 1
    DefaultPrice = 1
    MaxFaults = 0
    Parties <- MCParties
    Inputs <- UserInputs
SPECIFICATION Spec
CHECK_DEADLOCK FALSE
INVARIANTS
    UserFillSentOnce

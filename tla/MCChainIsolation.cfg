\* One worker and no fault: a simulated order trades with a live one.
CONSTANTS
    Orders = {o1, o2, o3}
    NoOrder = NoOrder
    Platform = Platform
    Contract = Contract
    PlatformAcct = PlatformAcct
    NoAcct = NoAcct
    Workers = {w1}
    PlatformSupply = 3
    QuotePrice = 1
    DefaultPrice = 1
    MaxFaults = 0
    Parties <- MCParties
    Inputs <- MCInputs
SPECIFICATION Spec
CHECK_DEADLOCK FALSE
INVARIANTS
    ChainIsolation

\* The instance of MCOrderQueue, for the one promise the queue does not keep.
CONSTANTS
    Orders = {o1, o2, o3}
    NoOrder = NoOrder
    NotANumber = NotANumber
    Platform = Platform
    Parties = {"anyone"}
    PlatformSupply = 1
    DefaultPrice = 1
    Inputs <- MCInputs
    Malformed <- MCMalformed
SPECIFICATION QueueSpec
CHECK_DEADLOCK FALSE
INVARIANTS
    EveryMatchedOrderHasAJob

\* Three callers in any interleaving with the drains, awaits and failures.
CONSTANTS
    Orders = {o1, o2, o3}
    NoOrder = NoOrder
    NotANumber = NotANumber
    Platform = Platform
    Parties = {"anyone"}
    PlatformSupply = 1
    DefaultPrice = 1
    Inputs <- MCInputs
    Malformed <- MCMalformed
SPECIFICATION QueueSpec
CHECK_DEADLOCK FALSE
INVARIANTS
    QueueTypeOK
    NoLostWakeup
    ResolvedIsPublished
    PublishedInOrder
    JobIsConsistent
PROPERTIES
    ImplementsSerialQueue
    EveryoneIsAnswered

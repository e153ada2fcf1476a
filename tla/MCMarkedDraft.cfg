\* One run of the cron, polls beside a callback, nothing rare.
CONSTANTS
    Markets = {m1, m2}
    Names = {n1}
    Runs = 1
    Polls = 2
    Handlers = {h1}
    NoMarket = NoMarket
    Null = Null
    UserCondition = UserCondition
    MaxRare = 0
    PerJob = 2
    OpenWebUi = TRUE
SPECIFICATION Spec
CHECK_DEADLOCK FALSE
INVARIANTS
    MarkedIsPolled

\* One run of the cron and the drafts it asks for, two overlapping polls beside the
\* requests; one row deleted or created by a user, one fault, or one fetched question.
CONSTANTS
    Markets = {m1, m2}
    Names = {n1}
    Runs = 1
    Polls = 2
    Handlers = {h1}
    NoMarket = NoMarket
    Null = Null
    UserCondition = UserCondition
    MaxRare = 1
    PerJob = 2
    OpenWebUi = TRUE
SPECIFICATION Spec
CHECK_DEADLOCK FALSE
INVARIANTS
    TypeOK
    ConditionIsOnChain
    MarketHasItsPositions
    SeededMeansSeeded
PROPERTIES
    AnsweredIsRecorded
    LeavesRecorded

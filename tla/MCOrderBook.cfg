\* Four orders at up to three prices: a middle insertion, several makers for
\* one taker, and several takers for one maker all occur.
CONSTANTS
    Orders = {o1, o2, o3, o4}
    NoOrder = NoOrder
    Parties = {anyone}
    MaxPrice = 3
    MaxQty = 2
    Inputs <- MCInputs
SYMMETRY OrderSymmetry
SPECIFICATION BookSpec
CHECK_DEADLOCK FALSE
INVARIANTS
    TypeOK
    BookWellFormed
    Uncrossed
    StatusMeaning
    Conservation
    RemainderMeansEmptySide
PROPERTIES
    PriceTimePriority
    TerminalIsFinal

\* One agent's market comes up three times; nothing overlaps and nothing fails.
CONSTANTS
    Markets = {m1, m2}
    Sims = {s1}
    Loops = {1, 2}
    Outcomes = {0}
    Quantities = {1}
    NoRow = NoRow
    MaxRequests = 2
    Payments = 2
    MaxMinutes = 1
    FundAmount = 2
    RawUnit = 10
    Traffics <- OneMarket
    Worlds <- Patient
SPECIFICATION Spec
CHECK_DEADLOCK FALSE
INVARIANT
    SellClosesLong

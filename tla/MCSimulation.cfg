\* Two markets, one simulation, a worker of two loops, two requests at once.
CONSTANTS
    Markets = {m1, m2}
    Sims = {s1}
    Loops = {1, 2}
    Outcomes = {0}
    Quantities = {1}
    NoRow = NoRow
    MaxRequests = 2
    Payments = 2
    MaxMinutes = 1
    FundAmount = 2
    RawUnit = 10
    Traffics <- Mixes
    Worlds <- Given
SPECIFICATION Spec
CHECK_DEADLOCK FALSE
INVARIANTS
    SimulationTypeOK
    StoppedSimulationDrains
    OneOrderPerDue
    ExtensionsAddUp
    FundedOncePerWeek
PROPERTIES
    GivenMarketsAreSeen

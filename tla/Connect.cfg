CONSTANTS
    c1 = c1
    c2 = c2
    Callers = {c1, c2}
    Setups <- MCSetups
    Orders <- MCOrders
    MaxMissed = 1
    MaxRounds = 2
    MaxFaults = 1
SPECIFICATION Spec
\* Every caller is done.
CHECK_DEADLOCK FALSE
INVARIANTS
    OwnerWins
    RightService
    LocksReleased
    BondKept
PROPERTY
    AbortEnds

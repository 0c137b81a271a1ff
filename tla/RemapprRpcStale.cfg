CONSTANTS
    read = read
    other = other
    NoCall = NoCall
    Calls = {read, other}
    Offers <- LegacyOffers
    Retries <- Once
    Frags <- Single
    Sequenced <- MCSequenced
    RidMod = 8
    MaxRids = 4
    MaxFlight = 1
SPECIFICATION Spec
\* All calls settled and the device silent.
CHECK_DEADLOCK FALSE
INVARIANTS
    PlainOwnReply

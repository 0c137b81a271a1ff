CONSTANTS
    read = read
    other = other
    NoCall = NoCall
    Calls = {read, other}
    Offers <- MCOffers
    Retries <- MCRetries
    Frags <- MCFrags
    Sequenced <- MCSequenced
    RidMod = 8
    MaxRids = 4
    MaxFlight = 1
SPECIFICATION FairSpec
\* All calls settled and the device silent: the client may stop.
CHECK_DEADLOCK FALSE
INVARIANTS
    WaiterServed
    OneExchange
    UniversalOwnReply
    SequencedComplete
PROPERTIES
    ClosedSendsNothing
    ContractKept

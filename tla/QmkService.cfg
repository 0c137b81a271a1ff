CONSTANTS
    writer = writer
    loader = loader
    locker = locker
    boot = boot
    blank = blank
    k1 = k1
    Ops = {writer, loader, locker}
    Offers <- MCOffers
    Families = {"via", "vial"}
    Layouts <- MCLayouts
    Cells <- MCCells
    Macros <- MCMacros
    Actions = {boot, blank, k1}
    Boot = boot
    Blank = blank
SPECIFICATION FairSpec
\* Every operation has ended and the client is closed.
CHECK_DEADLOCK FALSE
INVARIANTS
    MirrorTrue
    LockHonest
    GuardedLands
PROPERTIES
    MacroLands
    OpsEnd

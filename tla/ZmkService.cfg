CONSTANTS
    edit = edit
    shape = shape
    other = other
    None = None
    BJob = BJob
    LJob = LJob
    KJob = KJob
    Ops = {edit, shape, other}
    Offers <- MCOffers
    Ids = {0, 1, 2}
    StartLayers <- MCLayers
    Vals = {"plain", "changed"}
    Fresh = "plain"
    Edited = "changed"
    MaxLayers = 3
    BehaviorCount = 1
    Refuses = TRUE
SPECIFICATION Spec
\* Every call has been made and has settled.
CHECK_DEADLOCK FALSE
INVARIANTS
    CacheFaithful
    FreshRead
    PendingHonest
PROPERTIES
    RemoveAimed

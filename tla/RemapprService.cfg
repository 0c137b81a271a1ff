CONSTANTS
    plain = plain
    changed = changed
    knob = knob
    save = save
    save2 = save2
    revert = revert
    None = None
    Commits = {save, save2}
    Discards = {revert}
    Vals = {plain, changed}
    Filler = plain
    Knobs = {knob}
    StartLayers <- MCLayers
    StartKnobs <- MCKnobs
    Chunks = 2
    MaxLayers = 3
    MaxEdits = 2
    LateReplies = FALSE
    Overlap = TRUE
SPECIFICATION Spec
SYMMETRY MCCommits
\* Every operation has been called and has settled.
CHECK_DEADLOCK FALSE
INVARIANTS
    TypeOK
    Truth
    LayerIdsUnique
    UnpendingIsClean
PROPERTIES
    DiscardUnstages
    PushAtomic

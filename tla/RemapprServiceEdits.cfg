CONSTANTS
    plain = plain
    changed = changed
    knob = knob
    save = save
    save2 = save2
    revert = revert
    None = None
    Commits = {save, save2}
    Discards = {}
    Vals = {plain, changed}
    Filler = plain
    Knobs = {knob}
    StartLayers <- MCLayers
    StartKnobs <- MCKnobs
    Chunks = 1
    MaxLayers = 3
    MaxEdits = 1
    LateReplies = FALSE
    Overlap = TRUE
SPECIFICATION Spec
\* Every operation has been called and has settled.
CHECK_DEADLOCK FALSE
PROPERTIES
    StagedEditsLand

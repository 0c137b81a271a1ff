SPECIFICATION Spec
CONSTANTS
    Documents <- MCDocuments
    SeedSource <- LayerDoc
    KeyChoices <- MCKeyChoices
    BoardDefs <- MCBoardDefs
    Patches <- MCPatches
    DefPatches <- MCDefPatches
    Lists <- MCLists
    Titles <- MCTitles
    Formats = {"source", "v1", "v2", "preferred"}
    MaxLayers = 3
    MaxEdits = 2
    MaxPosition = 2
    Allowance <- MCAllowance
    Unit = 2
    Sanitize <- MCSanitize
    Slug <- MCSlug
    WithoutSide <- MCWithoutSide
INVARIANTS
    SavedTyped
    KeymapWhole
    BoardWired
    BoardReadBack
    ProjectBuilds
PROPERTIES
    SavedReads
    SavedMeans
CHECK_DEADLOCK FALSE

SPECIFICATION Spec
CONSTANTS
    Keyboards <- MCKeyboards
    KeyChoices <- MCKeyChoices
    MacroEdits <- MCMacroEdits
    TapEntries <- MCTapEntries
    MorphPatches <- MCMorphPatches
    ConditionalLists <- MCConditionalLists
    Dictionaries <- MCDictionaries
    FieldPatches <- MCFieldPatches
    Titles <- MCTitles
    MaxLayers = 3
    MaxEdits = 2
    MaxSaves = 2
    MaxPosition = 2
INVARIANTS TypeOK
PROPERTIES UntouchedKept SavedAsShown

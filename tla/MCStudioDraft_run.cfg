SPECIFICATION FairSpec
CONSTANTS
    a = a
    b = b
    broken = broken
    Workflows <- MCWorkflows
    New = new
    FileOf <- MCFileOf
    Typed <- MCTyped
    Renamed = 9
    Broken = broken
    Blank = blank
    MaxEdits = 2
    MaxActs = 3
CHECK_DEADLOCK FALSE
INVARIANTS
    TypeOK
    SavedUnderItsOwnId
    ReferencesResolve
    EditsKeepFlow
PROPERTIES
    StepEditsBuildOnEachOther
    CanvasSettles

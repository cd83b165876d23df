SPECIFICATION FairSpec
CONSTANTS
    Scripts = {s1, s2}
    Texts = {starter, a}
    Starter = starter
    Bad = {}
    Known = s1
    Saved = a
    Kept = {a}
    None = none
    PollLimit = 1
    MaxRevs = 3
    MaxActs = 2
    MaxMoves = 1
CHECK_DEADLOCK FALSE
INVARIANTS
    TypeOK
    BindsWhatIsShown
    DraftSurvivesReload
    NoBlindSave
PROPERTIES
    LateAnswerIgnored
    SaveButtonReturns
    PollingEnds

SPECIFICATION FairSpec
CONSTANTS
    s1 = s1  s2 = s2  Done = Done  Invalid = Invalid  NoStep = NoStep
    Steps = {s1, s2}
    Entry = s1
    Default <- Then2
    Targets <- Straight
    MaxAttempts <- TwoThenOne
    Delayed = {s1}
    OnError <- AllFail
    Timed = {s2}
    Results = {"ok", "error"}
    Starts = 1
    MaxStops = 0
    MaxFailures = 2
    MaxCrashes = 0
    LoopBound = 0
INVARIANTS AttemptBudget FailsOnlyExhausted
PROPERTY RunEnds
CHECK_DEADLOCK FALSE

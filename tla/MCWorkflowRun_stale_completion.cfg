SPECIFICATION Spec
CONSTANTS
    s1 = s1  s2 = s2  Done = Done  Invalid = Invalid  NoStep = NoStep
    Steps = {s1, s2}
    Entry = s1
    Default <- Then2
    Targets <- Straight
    MaxAttempts <- TwoThenOne
    Delayed = {}
    OnError <- AllFail
    Timed = {s1}
    Results = {"ok", "error"}
    Starts = 1
    MaxStops = 0
    MaxFailures = 0
    MaxCrashes = 0
    LoopBound = 0
PROPERTY StaleCompletionRejected
CHECK_DEADLOCK FALSE

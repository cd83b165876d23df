SPECIFICATION Spec
CONSTANTS
    s1 = s1  s2 = s2  Done = Done  Invalid = Invalid  NoStep = NoStep
    Steps = {s1, s2}
    Entry = s1
    Default <- Then2
    Targets <- Straight
    MaxAttempts <- TwoThenOne
    Delayed = {s1}
    OnError <- SkipFirst
    Timed = {}
    Results = {"ok", "timeout"}
    Starts = 1
    MaxStops = 0
    MaxFailures = 0
    MaxCrashes = 0
    LoopBound = 0
INVARIANT ExecutorTimeoutDegrades
CHECK_DEADLOCK FALSE

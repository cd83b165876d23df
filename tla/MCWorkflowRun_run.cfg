SPECIFICATION Spec
CONSTANTS
    s1 = s1  s2 = s2  Done = Done  Invalid = Invalid  NoStep = NoStep
    Steps = {s1, s2}
    Entry = s1
    Default <- Then2
    Targets <- Branching
    MaxAttempts <- Twice
    Delayed = {s2}
    OnError <- SkipFirst
    Timed = {s1}
    Results = {"ok", "error"}
    Starts = 1
    MaxStops = 1
    MaxFailures = 0
    MaxCrashes = 1
    LoopBound = 10
INVARIANTS TypeOK CallbacksAreHeld TimeoutHitsItsAttempt OneOutcome
PROPERTIES TerminalIsFinal NoWorkAfterStop
CHECK_DEADLOCK FALSE

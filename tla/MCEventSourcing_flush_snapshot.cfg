SPECIFICATION Spec
CONSTANTS
    c1 = c1
    c2 = c2
    c3 = c3
    e1 = e1
    e2 = e2
    e3 = e3
    e4 = e4
    Activations = {a1}
    Commands = {c1, c2}
    Events = {e1, e2, e3, e4}
    Batch <- BatchOfTwo
    Absorbing = {}
    NoCommand = NoCommand
    SnapshotInterval = 2
    RetainedEvents = 0
    MaxRetries = 0
    RecoverFromDrift = FALSE
    AppendMayFail = TRUE
    ReplyMayBeLost = FALSE
    PublishMayFail = FALSE
    MaxCrashes = 0
INVARIANTS
    Recoverable

SPECIFICATION Spec
CONSTANTS
    c1 = c1
    c2 = c2
    c3 = c3
    e1 = e1
    e2 = e2
    e3 = e3
    e4 = e4
    Activations = {a1}
    Commands = {c1, c2, c3}
    Events = {e1, e2, e3, e4}
    Batch <- BatchOfThree
    Absorbing = {}
    NoCommand = NoCommand
    SnapshotInterval = 2
    RetainedEvents = 1
    MaxRetries = 1
    RecoverFromDrift = FALSE
    AppendMayFail = FALSE
    ReplyMayBeLost = FALSE
    PublishMayFail = FALSE
    MaxCrashes = 2
INVARIANTS
    Recoverable
    ReplayHomomorphism
PROPERTIES
    ImplementsJournal

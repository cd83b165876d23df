SPECIFICATION Spec
CONSTANTS
    c1 = c1
    c2 = c2
    c3 = c3
    e1 = e1
    e2 = e2
    e3 = e3
    e4 = e4
    Activations = {a1, a2}
    Commands = {c1, c2, c3}
    Events = {e1, e2, e3, e4}
    Batch <- BatchOfThree
    Absorbing = {c3}
    NoCommand = NoCommand
    SnapshotInterval = 2
    RetainedEvents = 0
    MaxRetries = 1
    RecoverFromDrift = FALSE
    AppendMayFail = FALSE
    ReplyMayBeLost = FALSE
    PublishMayFail = FALSE
    MaxCrashes = 0
INVARIANTS
    CommittedOnce
    AckedDurable
    CompactionCovered
PROPERTIES
    SnapshotMonotone

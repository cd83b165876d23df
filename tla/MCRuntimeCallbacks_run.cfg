SPECIFICATION FairSpec
CONSTANTS
    Ids = {a, b}
    MaxSchedulings = 3
    MaxFires = 3
    MaxFaults = 1
INVARIANTS TypeOK GrantedIsDurable
PROPERTIES EndedNeverFires GrantedFires
CHECK_DEADLOCK FALSE

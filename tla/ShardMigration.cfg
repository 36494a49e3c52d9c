CONSTANTS
    Shards = {A, B}
    MoveIds = {m1, m2}
    Writes = {w1}
    Parts = 1
    MaxEpoch = 3
    Unmanaged = {}
    None = None
SPECIFICATION FairSpec
INVARIANTS TypeOK ActiveIsPlaced NoLostWrite UnregisteredIsEmpty
PROPERTIES ServiceResumes MoveEnds Fenced
CHECK_DEADLOCK FALSE

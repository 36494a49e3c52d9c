CONSTANTS
    Shards = {A, B}
    MoveIds = {m1, m2, m3}
    Writes = {w1}
    Parts = 1
    MaxEpoch = 4
    Unmanaged = {}
    None = None
SPECIFICATION Spec
INVARIANT CancelledMoveIsDead
CHECK_DEADLOCK FALSE

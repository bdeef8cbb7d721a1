SPECIFICATION Spec
CONSTANTS
    Addr = {"a", "b", "c"}
    Source = {"s", "t", "u"}
    NewBucket <- MCNewBucket
    NewPos <- MCNewPos
    TriedSlot <- MCTriedSlot
    ADDRMAN_NEW_BUCKETS_PER_ADDRESS = 2
    MaxId = 3
INVARIANTS CheckOk
PROPERTIES LoadKeepsTables TriedOnlyDemoted

SPECIFICATION Spec
CONSTANTS
    Worker = {w1, w2}
    Master = m
    Check = {c1, c2, c3, c4}
    Bad = {c4}
    nBatchSize = 2
INVARIANTS TodoCountsOutstanding WaitResultCorrect IdleBetweenBlocks
PROPERTY WaitReturns

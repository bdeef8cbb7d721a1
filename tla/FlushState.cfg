SPECIFICATION FlushSpec
CONSTANTS
    b1 = b1
    b2 = b2
    b3 = b3
    b4 = b4
    Blocks = {b1, b2, b3, b4}
    Parent <- MCParent
    Path <- MCPath
    Genesis = b1
    NoBlock = NoBlock
    MaxFile = 1
    FaultKinds = {"space", "index"}
    MaxFaults = 1
SYMMETRY Branches
INVARIANTS BestBlockRecoverable UndoOfLastFileRecoverable CoinsMatchBest ViewMatchesTipUnlessFailed

SPECIFICATION FairSpec
CONSTANTS
    Blocks <- MCBlocks
    Parent <- MCParent
    Path <- MCPath
    Work <- MCWork
    Genesis = 1
    NoBlock = NoBlock
    NoThread = NoThread
    Threads = {t1, t2}
    MaybeBadConnect = {5}
    MaybeBadContext = {6}
    Refusable = {4}
    Checkpointed = {2}
    MaybeRejected = {4, 5}
    DeepReconsider = FALSE
    ReprocessDepths = {0}
    MaxOps = 2
    MaxFaults = 1
INVARIANTS IndexConsistent FailedMaskSound ActiveChainValid BestIsCandidate CandidatesExactAtRest TipIsBestAtRest
PROPERTY ActivationReturns

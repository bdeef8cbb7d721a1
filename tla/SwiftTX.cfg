SPECIFICATION FairSpec
CONSTANTS
    Tx = {"t", "u"}
    Vin <- MCVin
    LockHeight <- MCLockHeight
    Karmanode = {"k1", "k2"}
    Height = {4, 5}
    Top <- MCTop
    Self = "k2"
    SIGNATURES_REQUIRED = 2
    LOCK_TIME = 1
    NoTx = NoTx
    NoKarmanode = NoKarmanode
INVARIANTS CompleteByQuorum EmptyRequestWasRejected
PROPERTIES CompletingVoteAnnounces LockedInputsExpire
CHECK_DEADLOCK FALSE

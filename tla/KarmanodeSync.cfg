SPECIFICATION FairSyncSpec
CONSTANTS
    N = 1
    KARMANODE_SYNC_THRESHOLD = 2
    MaxSleeps = 1
INVARIANTS SyncedMeansReceived
PROPERTY SyncFinishes

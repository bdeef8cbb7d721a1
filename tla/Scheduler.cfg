SPECIFICATION FairSchedulerSpec
CONSTANTS
    ServiceThread = {t1, t2}
    Task = {k1, k2, k3}
    Repeating = {k1}
    MaxDelay = 2
INVARIANTS CounterExact TaskRunsOnce
PROPERTIES QueuedTaskRuns ThreadsLeave
CHECK_DEADLOCK FALSE

SPECIFICATION MCSpec
CONSTANTS
    c1 = c1  c2 = c2  c3 = c3
    w1 = w1  w2 = w2  w3 = w3
    t1 = t1  t2 = t2
    NoTask = NoTask
    Managers <- OneManager
    Workers <- ThreeWorkers
    Tasks <- TwoTasks
    InitLimit = 2
    MaxLimit = 3
    Spurious <- WorkersOnly
    PushWhileStarting = FALSE
    Threads <- ThreeThreads
    AllThreads <- TwoThreads
    Callers <- TwoCallers
    TimedCalls <- EveryCall
    MissingReturn <- ToldFalse
INVARIANTS MutualExclusion LockState NoGhostWriter NobodySleepsOnAFreeLock Counted ExpectationsHold
    IdlePoolIsEmpty PoolIsFull StopWaitsForTasks
PROPERTIES JoinsWaitForTheEnd EveryoneComesThrough
    PoolSpec OperationsReturn QueuedTasksAreServed

SPECIFICATION Spec
CONSTANTS
    m1 = m1  m2 = m2
    w1 = w1  w2 = w2  w3 = w3
    t1 = t1  t2 = t2
    NoTask = NoTask
    Managers <- TwoManagers
    Workers <- TwoWorkers
    Tasks <- OneTask
    InitLimit = 1
    MaxLimit = 1
    Spurious <- Nobody
    PushWhileStarting = FALSE
INVARIANT StartAssertions

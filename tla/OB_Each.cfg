SPECIFICATION MCSpec
CONSTANTS
    r1 = r1  r2 = r2  s1 = s1  s2 = s2  s3 = s3
    u1 = u1  u2 = u2  u3 = u3  u4 = u4
    Runners <- TwoRunners
    Stoppers <- ThreeStoppers
    Coincidences <- AllButEntry
    Users <- ThreeUsers
    NoUser = NoUser
    Threshold = 2
    MaxArrivals = 6
    Need = 1
    Puts = {1, 2}
    MaxValue = 2
    MaxWaiters = 4
    MaxFrame = 4
    Programs <- Pictures
    MaxTicker = 5
    Videos <- TwoVideos
    Capacity = 2
    Asked = 1
    MaxSamples = 2
    MaxMade = 2
    MaxCredits = 1
    MaxDepth = 2
    Threads <- FourUsers
    InitialCredit = 1
    Amount = 1
    Released <- MCReleased
    SetTo <- MCSetTo
    Timed = TRUE
    MaxCredit = 4
INVARIANTS
    NobodySleepsOnCredit RoundsAndNotificationsAreWhole PicturesAndSoundsAreRight
    WindowsDoesAsPthreads
PROPERTIES
    StopMeansStopped EndsForAReasonIfCalm WaitersAreServed

SPECIFICATION MCSpec
CONSTANTS
    Effects <- AllEffects
    Static <- Pictures
    Programs <- AllPrograms
    NoOne = "no one"
    Screen = "screen"
    PoolSize = 2
    MaxTicker = 2
INVARIANTS
    CollectingAndCloningAreInvisible OnlyLiveFramesAreKept
    FreshImages OncePerFrame NothingLeftBehind
PROPERTIES CloneIsSeparate EveryFrameIsShown

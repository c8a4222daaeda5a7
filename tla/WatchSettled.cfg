SPECIFICATION WatchSpec
CONSTANTS
    Dir <- MCDir
    Under <- MCUnder
    Config <- MCConfig
    Initial <- AnyStart
    Changes <- SameDirs
    Unsafe <- MCUnsafe
    Broken <- MCBroken
    IsBuild = TRUE
    EarlyEdits = FALSE
    MaxSaves = 2
    MaxErrors = 1
    MaxQueue = 2
INVARIANT NothingLost
PROPERTIES CatchesUp StopEnds Quiet
CHECK_DEADLOCK FALSE

CONSTANTS
    Main = main
    Pool = {w1, w2}
    NoThread = NoThread
    StealAttempts = 1
    MaxPushed = 2
    CanPause = FALSE
    WeakCasFails = FALSE
    DrainedBodiesWait = FALSE
SPECIFICATION FairSpec
PROPERTIES MainTasksTaken ShutdownCompletes
CHECK_DEADLOCK FALSE

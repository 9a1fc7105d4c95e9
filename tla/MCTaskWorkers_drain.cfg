CONSTANTS
    Main = main
    Pool = {w1, w2}
    NoThread = NoThread
    StealAttempts = 1
    MaxPushed = 2
    CanPause = FALSE
    WeakCasFails = FALSE
    DrainedBodiesWait = TRUE
SPECIFICATION Spec
INVARIANTS DrainedIsEmpty
CHECK_DEADLOCK FALSE

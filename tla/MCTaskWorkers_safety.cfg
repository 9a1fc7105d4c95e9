CONSTANTS
    Main = main
    Pool = {w1, w2}
    NoThread = NoThread
    StealAttempts = 1
    MaxPushed = 3
    CanPause = TRUE
    WeakCasFails = TRUE
    DrainedBodiesWait = TRUE
SPECIFICATION Spec
SYMMETRY Symmetry
INVARIANTS TypeOK ActiveCountExact IndexInRange IdsIndexWorkers
CHECK_DEADLOCK FALSE

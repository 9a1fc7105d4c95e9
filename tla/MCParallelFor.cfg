CONSTANTS
    Tasks = {1, 2, 3, 4, 5, 6, 7}
    Workers = {main, w1}
    Main = main
    NoTask = NoTask
    Last = 7
    Grain = 2
SPECIFICATION PFairSpec
INVARIANTS EveryIndexOnce ReturnsWhenAllCalled
PROPERTIES ParallelForReturns
CHECK_DEADLOCK FALSE

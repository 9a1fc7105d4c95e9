CONSTANTS
    Tasks = {t1, t2, t3}
    Workers = {main, w1}
    Main = main
    NoTask = NoTask
SPECIFICATION FairSpec
INVARIANTS IInv FinishedMeansTreeDone NoCircularWait
PROPERTIES WaitReturnsAfterTree FinishedIsFinal EveryWaitEnds EveryTaskFinishes
CHECK_DEADLOCK FALSE

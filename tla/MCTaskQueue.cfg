CONSTANTS
    Threads = {owner, thief1, thief2}
    Owner = owner
    Size = 3
    NoTask = NoTask
    MaxAllocated = 7
    PromptClear = TRUE
SPECIFICATION Spec
SYMMETRY Symmetry
INVARIANTS TypeOK ExecutedOnce RingSound
PROPERTIES ImplementsFifo
CHECK_DEADLOCK FALSE

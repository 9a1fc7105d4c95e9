CONSTANTS
    Threads = {owner, thief1, thief2}
    Owner = owner
    Size = 3
    NoTask = NoTask
    MaxAllocated = 4
    PromptClear = FALSE
SPECIFICATION Spec
SYMMETRY Symmetry
INVARIANTS ExecutedOnce
CHECK_DEADLOCK FALSE

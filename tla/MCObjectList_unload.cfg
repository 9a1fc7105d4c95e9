SPECIFICATION Spec
CONSTANTS
    o1 = o1
    o2 = o2
    o3 = o3
    Objects <- MCObjects
    None = None
    Main = 0
    Pool = {1}
    MaxFrame = 1
    MaxCalls = 4
SYMMETRY MCSymmetry
INVARIANT
    QueueLeftEmpty
CHECK_DEADLOCK FALSE

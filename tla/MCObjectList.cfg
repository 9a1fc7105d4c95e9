SPECIFICATION Spec
CONSTANTS
    o1 = o1
    o2 = o2
    o3 = o3
    Objects <- MCObjects
    None = None
    Main = 0
    Pool = {1}
    MaxFrame = 1
    MaxCalls = 4
SYMMETRY MCSymmetry
INVARIANTS
    TypeOK
    CrowListed
    ActiveIffCounted
    QueueSound
    NoDangling
    CrowsServed
PROPERTIES
    ParentFirst
CHECK_DEADLOCK FALSE

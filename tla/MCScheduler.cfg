SPECIFICATION Spec
CONSTANTS
    o1 = o1
    o2 = o2
    o3 = o3
    Objects <- MCObjects
    None = None
    Periods = {1, 2}
    CheckEvery = 2
    EraseInRTLoop = FALSE
    MaxTime = 3
    MaxCalls = 5
SYMMETRY MCSymmetry
INVARIANTS
    TypeOK
    RegistryMatchesCallers
    HeldOnce
    NeverDangling
    RTAllServed
    NoStarvation
PROPERTIES
    ImplementsRegistry
CHECK_DEADLOCK FALSE

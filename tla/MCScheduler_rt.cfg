SPECIFICATION Spec
CONSTANTS
    o1 = o1
    o2 = o2
    o3 = o3
    Objects <- MCObjects
    None = None
    Periods = {1}
    CheckEvery = 3
    EraseInRTLoop = TRUE
    MaxTime = 1
    MaxCalls = 4
PROPERTIES
    OncePerFrame
CHECK_DEADLOCK FALSE

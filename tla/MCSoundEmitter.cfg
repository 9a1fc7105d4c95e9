SPECIFICATION Spec
CONSTANTS
    e1 = e1
    e2 = e2
    Emitters <- MCEmitters
    Targets = {t1}
    None = None
    Prefill = 2
    Submit = 1
PROPERTIES
    MixerReturns
INVARIANTS
    TypeOK
    DecoderHandover
    DecodesWhilePlaying
    BlocksInOrder
    TargetMatch
CHECK_DEADLOCK FALSE

--------------------------- MODULE MCSoundEmitter ---------------------------
EXTENDS SoundEmitter, TLC

CONSTANTS e1, e2

MCEmitters == {e1, e2}
=============================================================================

---------------------------- MODULE MCObjectList ----------------------------
EXTENDS ObjectList, TLC

CONSTANTS o1, o2, o3

MCObjects == {o1, o2, o3}
MCSymmetry == Permutations(MCObjects)
=============================================================================

------------------------- MODULE MCEventLifecycle -------------------------
EXTENDS EventLifecycle, TLC
CONSTANTS b1, b2, s1, isr

MCObject == 1..2
MCSymmetry == Permutations({b1, b2})
=============================================================================

------------------------- MODULE MCSessionLifecycle -------------------------
EXTENDS SessionLifecycle, TLC

\* No property of the safety runs tells one start from another.
StartSymmetry == Permutations(Sessions)
=============================================================================

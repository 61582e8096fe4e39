---------------------------- MODULE MCRingManager ----------------------------
EXTENDS RingManager, TLC

Symm == Permutations(Fds)
==============================================================================

---------------------------- MODULE MCUserRingBuf ----------------------------
(* Two producers on a ring of 32 bytes whose positions wrap at 64; samples *)
(* take 8, 24 or (never fitting) 40 bytes.                                 *)
EXTENDS UserRingBuf, TLC

MCSizes == {0, 9}
MCSizesBig == {9, 25}
Symm == Permutations(Threads)
MCTimeouts == {-1, 1}
==============================================================================

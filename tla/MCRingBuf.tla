------------------------------ MODULE MCRingBuf ------------------------------
(* A ring of 32 bytes whose positions wrap at 64; records take 8 or 24     *)
(* bytes, so they wrap around the data area and the positions wrap.        *)
EXTENDS RingBuf

MCSize == 32
MCPosMod == 64
MCLens == {0, 9}
==============================================================================

------------------------------ MODULE MCHashMap ------------------------------
(* Keys a and b share a bucket at four buckets and part at eight. *)
EXTENDS HashMap, TLC

CONSTANTS a, b, c

MCHash == a :> 0 @@ b :> 3 @@ c :> 7
==============================================================================

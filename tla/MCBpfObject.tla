----------------------------- MODULE MCBpfObject -----------------------------
(* Map 1 is a plain map, map 2 a map-in-map with map 1 in a slot, pinned. *)
EXTENDS BpfObject, TLC

CONSTANTS P

MCPinPath == <<NoPath, P>>
MCPinPath1 == <<P>>
MCSlots == <<{}, {1}>>
MCSlots1 == <<{}>>
Symm == Permutations(Objs)
==============================================================================

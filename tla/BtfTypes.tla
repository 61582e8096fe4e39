------------------------------ MODULE BtfTypes ------------------------------
(***************************************************************************)
(* BTF type descriptors, as btf.c and btf_dump.c read them.  A type is its *)
(* kind, its name, `info` (whatever else the descriptor holds that is not  *)
(* a type id: size, layout, values, number of elements, parameter names,   *)
(* and for a FWD whether it stands for a struct, 0, or a union, 1), and    *)
(* `refs`, the ids it refers to.  Id 0 is void; "" is the name of an       *)
(* anonymous type; an enum with info 0 has no values, it is a forward one. *)
(***************************************************************************)
EXTENDS Integers, Sequences, SequencesExt, FiniteSets

Type(kind, name, info, refs) ==
    [kind |-> kind, name |-> name, info |-> info, refs |-> refs]

Void == Type("void", "", 0, <<>>)

TypeById(types, id) == IF id = 0 THEN Void ELSE types[id]

Composite == {"struct", "union"}
AnyEnum == {"enum", "enum64"}
Mods == {"const", "type_tag"}

(* Never merged with another type: they are storage, not types.            *)
SelfCanonical == {"var", "datasec", "locsec"}

(* Types that refer to no other one.                                       *)
Primitive == AnyEnum \cup {"int", "fwd", "float", "loc_param"}

btf_is_enum_fwd(t) == t.kind \in AnyEnum /\ t.info = 0

btf_fwd_kind(t) == IF t.info = 1 THEN "union" ELSE "struct"

(* Equal as far as one can tell without comparing the ids referred to.     *)
ShallowEqual(t, u) ==
    /\ t.kind = u.kind
    /\ t.name = u.name
    /\ t.info = u.info
    /\ Len(t.refs) = Len(u.refs)
=============================================================================

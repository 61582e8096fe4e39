------------------------------- MODULE MCBtf --------------------------------
EXTENDS Btf

(* A compilation unit with structs S and T that may point to each other.   *)
(* m lists the members of a struct by their place in the unit, <<0>> makes *)
(* it a forward declaration.                                               *)
Def(name, m, o) ==
    IF m = <<0>> THEN Type("fwd", name, 0, <<>>)
    ELSE Type("struct", name, 1, [k \in DOMAIN m |-> o + m[k]])

Small(s, t, o) ==
    <<Type("int", "int", 4, <<>>), Def("S", s, o), Def("T", t, o),
      Type("ptr", "", 0, <<o + 2>>), Type("ptr", "", 0, <<o + 3>>)>>

SmallDefs == {<<0>>, <<1>>, <<4, 5>>}
SmallUnits == SmallDefs \X SmallDefs

(* Three of them; with start 6 the first is the base of the others.        *)
Merged ==
    {[types |-> Small(a[1], a[2], 0) \o Small(b[1], b[2], 5) \o Small(c[1], c[2], 10),
      start |-> s] : a \in SmallUnits, b \in SmallUnits, c \in SmallUnits, s \in {1, 6}}

(* A unit with a type of every kind: a typedef of r, an array of e, an     *)
(* enum known by n, a callback, an anonymous struct, a tag and a variable. *)
Rich(s, t, r, n, o) ==
    <<Type("int", "int", 4, <<>>), Def("S", s, o), Def("T", t, o),
      Type("ptr", "", 0, <<o + 2>>), Type("ptr", "", 0, <<o + 3>>),
      Type("typedef", "t", 0, <<o + r>>), Type("ptr", "", 0, <<o + 6>>),
      Type("array", "", 3, <<o + 4, o + 1>>),
      Type(IF n = 2 THEN "enum64" ELSE "enum", "E", n, <<>>),
      Type("func_proto", "", 0, <<0, o + 4, o + 20>>), Type("ptr", "", 0, <<o + 10>>),
      Type("const", "", 0, <<o + 5>>), Type("struct", "", 2, <<o + 12, o + 20>>),
      Type("func", "f", 0, <<o + 10>>), Type("decl_tag", "tag", 0, <<o + 6>>),
      Type("var", "v", 0, <<o + 4>>), Type("datasec", "data", 0, <<o + 16>>),
      Type("enum", "", 5, <<>>), Type("union", "T", 3, <<o + 7, o + 1>>),
      Type("ptr", "", 0, <<o + 9>>)>>

RichUnits(Ss, Ts, Rs, Ns) ==
    {u \in Ss \X Ts \X Rs \X Ns : u[1] = <<3>> => u[2] # <<0>>}

Varied ==
    {[types |-> Rich(a[1], a[2], a[3], a[4], 0) \o Rich(b[1], b[2], b[3], b[4], 20),
      start |-> s] :
        a \in RichUnits({<<0>>, <<7, 8>>, <<11, 13>>, <<3>>}, {<<0>>, <<8, 20>>}, {2}, {0, 1}),
        b \in RichUnits({<<7, 8>>, <<3>>}, {<<0>>, <<8, 20>>}, {2, 13}, {0, 2}),
        s \in {1, 21}}

(* Without a base, or with a base that holds no forward declaration.       *)
MCInputs ==
    {in \in Merged \cup Varied :
        \A id \in 1 .. in.start - 1 :
            in.types[id].kind # "fwd" /\ ~btf_is_enum_fwd(in.types[id])}

(* On top of a base that knows T only by a forward declaration.            *)
SplitInputs == {in \in Merged : in.start > 1 /\ in.types[3].kind = "fwd"}
=============================================================================

------------------------------ MODULE BtfDump -------------------------------
(***************************************************************************)
(* btf_dump__dump_type() (btf_dump.c): the C definition of a type and of   *)
(* whatever it needs, printed in an order a C compiler accepts, without    *)
(* repeating what earlier calls on the same dump have printed.  The types  *)
(* are ordered first (btf_dump_order_type fills emit_queue) and printed in *)
(* that order, with forward declarations where they are enough.            *)
(*                                                                         *)
(* p is struct btf_dump; p.out is what was printed: <<"fwd", id>> for      *)
(* `struct X;`, <<"def", id>> for the definition of a struct, union or     *)
(* enum, <<"typedef", id>>.  Types are told apart by id: the ___2 suffixes *)
(* that keep equal names apart, and the text of a declaration, are left    *)
(* out.                                                                    *)
(***************************************************************************)
EXTENDS BtfTypes

VARIABLES btf,      \* the types dumped
          p,
          ret,      \* what the last call returned
          asked     \* the id it was for; 0 before the first

dumpVars == <<btf, p, ret, asked>>

NOT_ORDERED == 0
ORDERING == 1
ORDERED == 2

NOT_EMITTED == 0
EMITTING == 1
EMITTED == 2

ELOOP == -40

(* btf_dump_mark_referenced() for every type.  A function prototype's      *)
(* return type is not marked, nor what locations refer to.                 *)
Marks(t) ==
    CASE t.kind = "func_proto" -> ToSet(Tail(t.refs))
      [] t.kind \in {"loc_proto", "locsec"} -> {}
      [] OTHER -> ToSet(t.refs)

Referenced == UNION {Marks(btf[id]) : id \in DOMAIN btf}

(* btf_dump__new() and the state btf_dump_resize() sets up.                *)
NewDump(types) ==
    [order |-> [id \in 0 .. Len(types) |-> IF id = 0 THEN ORDERED ELSE NOT_ORDERED],
     emit |-> [id \in 0 .. Len(types) |-> IF id = 0 THEN EMITTED ELSE NOT_EMITTED],
     fwd_emitted |-> {},
     emit_queue |-> <<>>,
     out |-> <<>>]

---------------------------------------------------------------------------
(* Ordering.  r.err is the return value: 1 a strong link, 0 a weak one.    *)

Strong(q, id) == [p |-> [q EXCEPT !.order[id] = ORDERED], err |-> 1]

btf_dump_add_emit_queue_id(q, id) == [q EXCEPT !.emit_queue = Append(@, id)]

RECURSIVE OrderType(_, _, _), OrderMembers(_, _), OrderParams(_, _, _, _)
OrderType(q, id, through_ptr) ==
    LET t == TypeById(btf, id)
    IN IF q.order[id] = ORDERED THEN [p |-> q, err |-> 1]
       ELSE IF q.order[id] = ORDERING
         THEN [p |-> q,
               err |-> IF t.kind \in Composite /\ through_ptr /\ t.name # ""
                       THEN 0 ELSE ELOOP]
       ELSE CASE t.kind = "ptr" ->
                   LET r == OrderType(q, t.refs[1], TRUE)
                   IN [r EXCEPT !.p.order[id] = ORDERED]
              [] t.kind = "array" -> OrderType(q, t.refs[1], FALSE)
              [] t.kind \in Mods -> OrderType(q, t.refs[1], through_ptr)
              [] t.kind \in Composite ->
                   LET r == OrderMembers([q EXCEPT !.order[id] = ORDERING], t.refs)
                   IN IF through_ptr /\ t.name # "" THEN [p |-> q, err |-> 0]
                      ELSE IF r.err < 0 THEN r
                      ELSE IF t.name # ""
                        THEN Strong(btf_dump_add_emit_queue_id(r.p, id), id)
                      ELSE Strong(r.p, id)
              [] t.kind \in AnyEnum \cup {"fwd"} ->
                   IF t.name # "" \/ id \notin Referenced
                   THEN Strong(btf_dump_add_emit_queue_id(q, id), id)
                   ELSE Strong(q, id)
              [] t.kind = "typedef" ->
                   LET r == OrderType(q, t.refs[1], through_ptr)
                   IN IF r.err < 0 \/ (through_ptr /\ r.err = 0) THEN r
                      ELSE Strong(btf_dump_add_emit_queue_id(r.p, id), id)
              [] t.kind = "func_proto" -> OrderParams(q, t.refs, through_ptr, 0)
              [] OTHER -> [p |-> [q EXCEPT !.order[id] = ORDERED], err |-> 0]

(* Mutant: members are ordered as if they were reached through pointers.   *)
OrderMembers_ThroughPtr(q, refs) ==
    IF refs = <<>> THEN [p |-> q, err |-> 0]
    ELSE LET r == OrderType(q, Head(refs), TRUE)
         IN IF r.err < 0 THEN r ELSE OrderMembers(r.p, Tail(refs))

OrderMembers(q, refs) ==
    IF refs = <<>> THEN [p |-> q, err |-> 0]
    ELSE LET r == OrderType(q, Head(refs), FALSE)
         IN IF r.err < 0 THEN r ELSE OrderMembers(r.p, Tail(refs))
OrderParams(q, refs, through_ptr, is_strong) ==
    IF refs = <<>> THEN [p |-> q, err |-> is_strong]
    ELSE LET r == OrderType(q, Head(refs), through_ptr)
         IN IF r.err < 0 THEN r
            ELSE OrderParams(r.p, Tail(refs), through_ptr,
                             IF r.err > 0 THEN 1 ELSE is_strong)

---------------------------------------------------------------------------
(* Emitting.                                                               *)

Emit(q, what, id) == [q EXCEPT !.out = Append(@, <<what, id>>)]

(* A forward declaration of a struct, or the typedef itself.               *)
EmitFwd(q, id) ==
    [Emit(q, IF btf[id].kind = "typedef" THEN "typedef" ELSE "fwd", id)
        EXCEPT !.fwd_emitted = @ \cup {id}]

(* The type is being emitted further up: it may need declaring first.      *)
EmitAgain(q, id, cont_id) ==
    LET t == btf[id]
    IN IF \/ id \in q.fwd_emitted
          \/ t.kind \notin Composite \cup {"typedef"}
          \/ t.kind \in Composite /\ (id = cont_id \/ t.name = "")
       THEN q ELSE EmitFwd(q, id)

RECURSIVE EmitType(_, _, _), EmitRefs(_, _, _)
EmitType(q, id, cont_id) ==
    LET t == TypeById(btf, id)
        top_level_def == cont_id = 0
        inside == [q EXCEPT !.emit[id] = EMITTING]
    IN IF q.emit[id] = EMITTED THEN q
       ELSE IF q.emit[id] = EMITTING THEN EmitAgain(q, id, cont_id)
       ELSE CASE t.kind = "int" -> [q EXCEPT !.emit[id] = EMITTED]
              [] t.kind \in AnyEnum ->
                   LET r == [q EXCEPT !.emit[id] = EMITTED]
                   IN IF top_level_def THEN Emit(r, "def", id) ELSE r
              [] t.kind \in Mods \cup {"ptr"} -> EmitType(q, t.refs[1], cont_id)
              [] t.kind = "array" -> EmitType(q, t.refs[1], cont_id)
              [] t.kind = "fwd" ->
                   Emit([q EXCEPT !.emit[id] = EMITTED], "fwd", id)
              [] t.kind = "typedef" ->
                   LET r == EmitType(inside, t.refs[1], id)
                       s == IF id \in r.fwd_emitted THEN r
                            ELSE Emit(r, "typedef", id)
                   IN [s EXCEPT !.emit[id] = EMITTED]
              [] t.kind \in Composite ->
                   LET r == IF top_level_def \/ t.name = ""
                            THEN EmitRefs(inside, t.refs,
                                          IF t.name = "" THEN cont_id ELSE id)
                            ELSE IF id \notin q.fwd_emitted /\ id # cont_id
                            THEN EmitFwd(inside, id)
                            ELSE inside
                   IN IF top_level_def
                      THEN Emit([r EXCEPT !.emit[id] = EMITTED], "def", id)
                      ELSE [r EXCEPT !.emit[id] = NOT_EMITTED]
              [] t.kind = "func_proto" -> EmitRefs(q, t.refs, cont_id)
              [] OTHER -> q
EmitRefs(q, refs, cont_id) ==
    FoldLeft(LAMBDA r, id : EmitType(r, id, cont_id), q, refs)

---------------------------------------------------------------------------

(* Mutant: the type asked for is ordered as if reached through a pointer.  *)
DumpType_ThroughPtr(id) ==
    /\ LET r == OrderType([p EXCEPT !.emit_queue = <<>>], id, TRUE)
       IN IF r.err < 0 THEN p' = r.p /\ ret' = r.err
          ELSE /\ p' = FoldLeft(LAMBDA q, e : EmitType(q, e, 0),
                                r.p, r.p.emit_queue)
               /\ ret' = 0
    /\ asked' = id
    /\ UNCHANGED btf

(* btf_dump__dump_type().                                                  *)
DumpType(id) ==
    /\ LET r == OrderType([p EXCEPT !.emit_queue = <<>>], id, FALSE)
       IN IF r.err < 0 THEN p' = r.p /\ ret' = r.err
          ELSE /\ p' = FoldLeft(LAMBDA q, e : EmitType(q, e, 0),
                                r.p, r.p.emit_queue)
               /\ ret' = 0
    /\ asked' = id
    /\ UNCHANGED btf

---------------------------------------------------------------------------
(* The C rules a definition has to meet, given what was printed before it. *)

Printed(k) == {p.out[i] : i \in 1 .. k - 1}

(* The type whose size is known after `seen`.                              *)
RECURSIVE Complete(_, _)
Complete(id, seen) ==
    LET t == TypeById(btf, id)
    IN CASE t.kind \in Composite /\ t.name # "" -> <<"def", id>> \in seen
         [] t.kind \in Composite -> \A k \in DOMAIN t.refs : Complete(t.refs[k], seen)
         [] t.kind \in {"fwd", "void", "func_proto"} -> FALSE
         [] t.kind \in Mods \cup {"typedef", "array"} -> Complete(t.refs[1], seen)
         [] OTHER -> TRUE

(* Writing down a use of a type is correct C after `seen`, inside the      *)
(* definition of `self`: typedef names and named enums are defined, array  *)
(* elements are complete, named structs are declared, and anonymous        *)
(* structs, printed in place, have correct members.                        *)
RECURSIVE Usable(_, _, _)
Usable(id, self, seen) ==
    LET t == TypeById(btf, id)
    IN CASE t.kind = "typedef" -> <<"typedef", id>> \in seen
         [] t.kind \in AnyEnum -> t.name = "" \/ <<"def", id>> \in seen
         [] t.kind \in Composite /\ t.name # "" ->
              id = self \/ <<"def", id>> \in seen \/ <<"fwd", id>> \in seen
         [] t.kind \in Composite ->
              \A k \in DOMAIN t.refs : /\ Usable(t.refs[k], self, seen)
                                       /\ Complete(t.refs[k], seen)
         [] t.kind = "array" -> /\ Usable(t.refs[1], self, seen)
                                /\ Complete(t.refs[1], seen)
         [] t.kind \in Mods \cup {"ptr", "func_proto"} ->
              \A k \in DOMAIN t.refs : Usable(t.refs[k], self, seen)
         [] OTHER -> TRUE

CorrectAt(k) ==
    LET id == p.out[k][2]
        t == btf[id]
        seen == Printed(k)
    IN CASE p.out[k][1] = "fwd" -> TRUE
         [] p.out[k][1] = "typedef" -> Usable(t.refs[1], id, seen)
         [] p.out[k][1] = "def" ->
              \A i \in DOMAIN t.refs : /\ Usable(t.refs[i], id, seen)
                                       /\ Complete(t.refs[i], seen)

(* "Dump BTF type in a compilable C syntax, including all the necessary    *)
(* dependent types": whatever is asked for and in whatever order, each     *)
(* definition comes after the definitions and declarations it needs, and   *)
(* none is printed twice.                                                  *)
Compiles ==
    \A k \in DOMAIN p.out :
        /\ CorrectAt(k)
        /\ p.out[k][1] # "fwd" => p.out[k] \notin Printed(k)

(* A call succeeds and has printed what it was asked for (a named struct,  *)
(* union or enum, or a typedef), itself or in an earlier call.  Types that *)
(* C can express are never refused: a cycle through a pointer to a named   *)
(* struct is broken by a forward declaration, from wherever the ordering   *)
(* starts and whatever earlier calls have left behind.                     *)
AskedIsPrinted ==
    LET t == TypeById(btf, asked)
    IN /\ ret = 0
       /\ t.kind \in Composite \cup AnyEnum /\ t.name # "" =>
             <<"def", asked>> \in ToSet(p.out)
       /\ t.kind = "typedef" => <<"typedef", asked>> \in ToSet(p.out)
=============================================================================

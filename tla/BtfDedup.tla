------------------------------ MODULE BtfDedup ------------------------------
(***************************************************************************)
(* btf__dedup() (btf.c): the types of several compilation units, laid end  *)
(* to end, are merged in place until every distinct type has a single      *)
(* descriptor.  Structs may be cyclic and may be known only by a forward   *)
(* declaration in some units, so that equivalence of two structs is        *)
(* assumed while it is being checked (the hypothetical map).               *)
(*                                                                         *)
(* d is struct btf_dedup with the types of its btf; `given` remembers the  *)
(* types as they were, and `ext` is a .BTF.ext section that mentions every *)
(* type once, so that it ends up as the new id of every old type.          *)
(***************************************************************************)
EXTENDS BtfTypes

CONSTANTS Inputs,           \* [types, start]: what btf__dedup() is called on
          IdenticalDepth    \* how deep btf_dedup_identical_types() looks: 16

VARIABLES d, given, ext, pass, next

dedupVars == <<d, given, ext, pass, next>>

BTF_UNPROCESSED_ID == -1
BTF_IN_PROGRESS_ID == -2

Ids == 1 .. Len(d.types)

---------------------------------------------------------------------------
(* The dedup table.                                                        *)

(* What a type's hash takes into account: not the ids a struct or typedef  *)
(* refers to, which may not be resolved yet, and only the name of an enum, *)
(* so that a forward enum finds the full one.                              *)
Hash(t) ==
    CASE t.kind \in AnyEnum -> Type("enum", t.name, 0, <<>>)
      [] t.kind \in Composite -> [t EXCEPT !.refs = [i \in DOMAIN t.refs |-> 0]]
      [] t.kind = "typedef" -> [t EXCEPT !.refs = <<>>]
      [] OTHER -> t

(* The canonical types that share t's hash.  When `collide` holds all hash *)
(* values are the same, which the code may not rely on being impossible.   *)
Candidates(e, t) ==
    SelectSeq(e.table,
              LAMBDA id : e.collide \/ Hash(e.types[id]) = Hash(t))

(* hashmap__append() puts an entry in front of the ones with its key, and  *)
(* growing the table turns them round.                                     *)
CandidateOrders(e, t) ==
    {Candidates(e, t), Reverse(Candidates(e, t))}

btf_dedup_table_add(e, id) == [e EXCEPT !.table = Append(@, id)]

(* Mutant: a canonical struct or typedef is not entered into the table.    *)
SetCanonical_NotAdded(e, id, new_id) ==
    LET f == [e EXCEPT !.map[id] = new_id]
    IN IF new_id = id /\ e.types[id].kind \in Primitive
       THEN btf_dedup_table_add(f, id) ELSE f

(* d->map[id] = new_id, and a type that is its own canonical one becomes   *)
(* a candidate for the types after it.                                     *)
SetCanonical(e, id, new_id) ==
    LET f == [e EXCEPT !.map[id] = new_id]
    IN IF new_id = id THEN btf_dedup_table_add(f, id) ELSE f

is_type_mapped(e, id) == e.map[id] >= 0

(* The while loop of resolve_type_id(); a map with a loop would keep it    *)
(* going for ever, which NoMapLoop rules out.                              *)
RECURSIVE Follow(_, _, _)
Follow(e, id, steps) ==
    IF steps = 0 \/ ~is_type_mapped(e, id) \/ e.map[id] = id THEN id
    ELSE Follow(e, e.map[id], steps - 1)

resolve_type_id(e, id) == Follow(e, id, Len(e.types))

resolve_fwd_id(e, id) ==
    LET to == resolve_type_id(e, id)
    IN IF /\ TypeById(e.types, id).kind = "fwd"
          /\ TypeById(e.types, to).kind # "fwd"
       THEN to ELSE id

---------------------------------------------------------------------------
(* Primitive types.                                                        *)

btf_compat_enum(t, u) ==
    IF ~btf_is_enum_fwd(t) /\ ~btf_is_enum_fwd(u) THEN t = u
    ELSE t.name = u.name /\ t.kind \in AnyEnum /\ u.kind \in AnyEnum

(* One candidate of btf_dedup_prim_type(): s.id is new_id, s.found says    *)
(* that the loop was left.                                                 *)
PrimCandidate(s, id, cand_id) ==
    LET t == s.e.types[id]
        cand == s.e.types[cand_id]
    IN IF s.found THEN s
       ELSE IF t = cand \/ (btf_is_enum_fwd(t) /\ btf_compat_enum(t, cand))
         THEN [s EXCEPT !.id = cand_id, !.found = TRUE]
       ELSE IF t.kind \in AnyEnum /\ btf_compat_enum(t, cand)
         THEN [s EXCEPT !.e.map[cand_id] = id]
       ELSE s

btf_dedup_prim_type(e, id, cands) ==
    LET s == FoldLeft(LAMBDA acc, c : PrimCandidate(acc, id, c),
                      [e |-> e, id |-> id, found |-> FALSE], cands)
    IN SetCanonical(s.e, id, s.id)

---------------------------------------------------------------------------
(* Structs, unions and typedefs.                                           *)

(* btf_dedup_identical_types(): the same structure, down to a depth.       *)
RECURSIVE Identical(_, _, _, _)
Identical(e, id1, id2, depth) ==
    LET t1 == TypeById(e.types, id1)
        t2 == TypeById(e.types, id2)
        Same(k) == Identical(e, t1.refs[k], t2.refs[k],
                             IF t1.kind \in Composite
                                    \cup {"array", "func_proto"}
                             THEN depth - 1 ELSE depth)
    IN /\ depth > 0
       /\ t1.kind = t2.kind
       /\ CASE t1.kind = "void" -> TRUE
            [] t1.kind \in AnyEnum -> btf_compat_enum(t1, t2)
            [] t1.kind \in {"int", "fwd", "float"} -> t1 = t2
            [] t1.kind \in Mods \cup {"ptr", "typedef", "func"} ->
                 ShallowEqual(t1, t2) /\ Same(1)
            [] t1.kind \in Composite \cup {"array", "func_proto"} ->
                 /\ ShallowEqual(t1, t2)
                 /\ \A k \in DOMAIN t1.refs :
                       t1.refs[k] # t2.refs[k] => Same(k)
            [] OTHER -> FALSE

(* FWD <--> STRUCT/UNION: equivalent if the forward declaration is of that *)
(* kind; if it is the base's, the base would have to change.               *)
FwdEquiv(e, cand, canon, canon_id) ==
    LET candFwd == cand.kind = "fwd"
        eq == IF candFwd THEN btf_fwd_kind(cand) = canon.kind
              ELSE btf_fwd_kind(canon) = cand.kind
    IN [eq |-> eq,
        e |-> IF eq /\ ~candFwd /\ canon_id < e.start
              THEN [e EXCEPT !.hypot_adjust_canon = TRUE] ELSE e]

(* btf_dedup_is_equiv(): e comes back with the hypothetical map extended.  *)
(* An array's index type is compared before its element type.              *)
RECURSIVE Equiv(_, _, _), EquivRefs(_, _, _)
Equiv(e, cand_id, canon_id_) ==
    LET canon_id == resolve_fwd_id(e, canon_id_)
        hypot_type_id == e.hypot_map[canon_id]
        cand == TypeById(e.types, cand_id)
        canon == TypeById(e.types, canon_id)
        f == [e EXCEPT !.hypot_map[canon_id] = cand_id,
                       !.hypot_list = Append(@, canon_id)]
    IN IF resolve_type_id(e, cand_id) = resolve_type_id(e, canon_id_)
         THEN [eq |-> TRUE, e |-> e]
       ELSE IF hypot_type_id >= 0
         THEN [eq |-> \/ hypot_type_id = cand_id
                      \/ Identical(e, hypot_type_id, cand_id, IdenticalDepth),
               e |-> e]
       ELSE IF cand.name # canon.name THEN [eq |-> FALSE, e |-> f]
       ELSE IF cand.kind # canon.kind /\ "fwd" \in {cand.kind, canon.kind}
         THEN FwdEquiv(f, cand, canon, canon_id)
       ELSE IF cand.kind \in AnyEnum
         THEN [eq |-> cand.kind = canon.kind /\ btf_compat_enum(cand, canon),
               e |-> f]
       ELSE IF ~ShallowEqual(cand, canon) \/ cand.kind \in {"loc_proto", "locsec"}
         THEN [eq |-> FALSE, e |-> f]
       ELSE IF cand.kind = "array"
         THEN EquivRefs(f, Reverse(cand.refs), Reverse(canon.refs))
       ELSE EquivRefs(f, cand.refs, canon.refs)
(* Mutant: the loop over the members returns from its first round.         *)
EquivRefs_FirstOnly(e, refs, canonRefs) ==
    IF refs = <<>> THEN [eq |-> TRUE, e |-> e]
    ELSE Equiv(e, Head(refs), Head(canonRefs))

EquivRefs(e, refs, canonRefs) ==
    IF refs = <<>> THEN [eq |-> TRUE, e |-> e]
    ELSE LET r == Equiv(e, Head(refs), Head(canonRefs))
         IN IF r.eq THEN EquivRefs(r.e, Tail(refs), Tail(canonRefs)) ELSE r

btf_dedup_clear_hypot_map(e) ==
    [e EXCEPT !.hypot_map = [id \in DOMAIN @ |-> BTF_UNPROCESSED_ID],
              !.hypot_list = <<>>,
              !.hypot_adjust_canon = FALSE]

(* One pair of the hypothetical map is made part of the canonical map: a   *)
(* forward declaration on either side, or a struct not mapped yet whose    *)
(* counterpart is.                                                         *)
MergePair(e, canon_type_id) ==
    LET t_id == resolve_type_id(e, e.hypot_map[canon_type_id])
        c_id == resolve_type_id(e, canon_type_id)
        t_fwd == TypeById(e.types, t_id).kind = "fwd"
        c_fwd == TypeById(e.types, c_id).kind = "fwd"
        forward == ~t_fwd /\ c_fwd
        f == IF forward THEN [e EXCEPT !.map[c_id] = t_id] ELSE e
        backward ==
            /\ ~e.hypot_adjust_canon
            /\ ~c_fwd
            /\ \/ t_fwd
               \/ /\ TypeById(e.types, t_id).kind \in Composite
                  /\ is_type_mapped(e, c_id)
                  /\ ~is_type_mapped(e, t_id)
    IN IF backward THEN [f EXCEPT !.map[t_id] = c_id] ELSE f

btf_dedup_merge_hypot_map(e) == FoldLeft(MergePair, e, e.hypot_list)

(* Mutant: without the check that keeps forward declarations out.          *)
StructCandidate_NoGuard(s, id, cand_id) ==
    LET r == Equiv(btf_dedup_clear_hypot_map(s.e), id, cand_id)
        merged == btf_dedup_merge_hypot_map(r.e)
    IN IF s.found THEN s
       ELSE IF ~r.eq THEN [s EXCEPT !.e = r.e]
       ELSE IF merged.hypot_adjust_canon THEN [s EXCEPT !.e = merged]
       ELSE [e |-> merged, id |-> cand_id, found |-> TRUE]

(* One candidate of btf_dedup_struct_type().                               *)
StructCandidate(s, id, cand_id) ==
    LET r == Equiv(btf_dedup_clear_hypot_map(s.e), id, cand_id)
        merged == btf_dedup_merge_hypot_map(r.e)
    IN IF s.found \/ ~ShallowEqual(s.e.types[id], s.e.types[cand_id]) THEN s
       ELSE IF ~r.eq THEN [s EXCEPT !.e = r.e]
       ELSE IF merged.hypot_adjust_canon THEN [s EXCEPT !.e = merged]
       ELSE [e |-> merged, id |-> cand_id, found |-> TRUE]

btf_dedup_struct_type(e, id, cands) ==
    LET s == FoldLeft(LAMBDA acc, c : StructCandidate(acc, id, c),
                      [e |-> e, id |-> id, found |-> FALSE], cands)
    IN SetCanonical(btf_dedup_clear_hypot_map(s.e), id, s.id)

---------------------------------------------------------------------------
(* Forward declarations no graph comparison has met.                       *)

(* The canonical structs and unions of a name, in base and split.          *)
Named(e, name) ==
    {id \in 1 .. Len(e.types) : /\ e.types[id].kind \in Composite
                                /\ e.map[id] = id
                                /\ e.types[id].name = name}

btf_dedup_resolve_fwd(e, id) ==
    LET t == e.types[id]
        found == {c \in Named(e, t.name) : e.types[c].kind = btf_fwd_kind(t)}
    IN IF /\ t.kind = "fwd"
          /\ e.map[id] = id
          /\ Cardinality(Named(e, t.name)) = 1
          /\ found # {}
       THEN [e EXCEPT !.map[id] = CHOOSE c \in found : TRUE]
       ELSE e

---------------------------------------------------------------------------
(* Reference types.                                                        *)

(* btf_dedup_ref_type(): the types referred to come first and the          *)
(* descriptor is made to refer to the canonical ones; then it can be       *)
(* compared exactly.  id < 0 stands for the error of a loop.               *)
RECURSIVE Ref(_, _), RefRefs(_, _, _)
Ref(e, id) ==
    IF e.map[id] = BTF_IN_PROGRESS_ID THEN [e |-> e, id |-> -1]
    ELSE IF is_type_mapped(e, id) THEN [e |-> e, id |-> resolve_type_id(e, id)]
    ELSE LET r == RefRefs([e EXCEPT !.map[id] = BTF_IN_PROGRESS_ID], id, 1)
             t == r.e.types[id]
             same == SelectSeq(Candidates(r.e, t), LAMBDA c : r.e.types[c] = t)
             new_id == IF same = <<>> THEN id ELSE same[1]
         IN IF r.id < 0 THEN r
            ELSE [e |-> SetCanonical(r.e, id, new_id), id |-> new_id]
RefRefs(e, id, k) ==
    IF k > Len(e.types[id].refs) THEN [e |-> e, id |-> id]
    ELSE LET r == Ref(e, e.types[id].refs[k])
         IN IF r.id < 0 THEN r
            ELSE RefRefs([r.e EXCEPT !.types[id].refs[k] = r.id], id, k + 1)

---------------------------------------------------------------------------
(* What is left.                                                           *)

(* btf_dedup_compact_types(): the new id of every canonical type; the base *)
(* keeps its ids.                                                          *)
Compacted(e) ==
    LET kept(id) == {i \in e.start .. id : e.map[i] = i}
    IN [id \in 0 .. Len(e.types) |->
            CASE id < e.start -> id
              [] id >= e.start /\ e.map[id] = id ->
                   e.start - 1 + Cardinality(kept(id))
              [] OTHER -> BTF_UNPROCESSED_ID]

NewId(e, id) == e.hypot_map[resolve_type_id(e, id)]

---------------------------------------------------------------------------

(* btf_dedup_new() on one of the inputs.                                   *)
DedupInit ==
    \E in \in Inputs, collide \in BOOLEAN :
        LET n == Len(in.types)
        IN /\ given = in.types
           /\ ext = [id \in 1 .. n |-> id]
           /\ pass = "prep"
           /\ next = in.start
           /\ d = [types |-> in.types,
                   start |-> in.start,
                   collide |-> collide,
                   table |-> <<>>,
                   map |-> [id \in 0 .. n |->
                              IF \/ id = 0
                                 \/ TypeById(in.types, id).kind \in SelfCanonical
                              THEN id ELSE BTF_UNPROCESSED_ID],
                   hypot_map |-> [id \in 0 .. n |-> BTF_UNPROCESSED_ID],
                   hypot_list |-> <<>>,
                   hypot_adjust_canon |-> FALSE]

(* Base types are canonical and candidates for the split ones.             *)
Prep ==
    /\ pass = "prep"
    /\ d' = [d EXCEPT
               !.map = [id \in DOMAIN @ |-> IF id < d.start THEN id ELSE @[id]],
               !.table = SelectSeq([id \in 1 .. d.start - 1 |-> id],
                           LAMBDA id : d.types[id].kind \notin SelfCanonical)]
    /\ pass' = "prim"
    /\ UNCHANGED <<given, ext, next>>

(* A loop over the split types, one type at a time.                        *)
At(p) == pass = p /\ next <= Len(d.types)

Step ==
    /\ next' = next + 1
    /\ UNCHANGED <<given, ext, pass>>

LoopDone(p, q) ==
    /\ pass = p
    /\ next > Len(d.types)
    /\ pass' = q
    /\ next' = d.start
    /\ UNCHANGED <<d, given, ext>>

PrimType ==
    /\ At("prim")
    /\ LET t == d.types[next]
       IN IF t.kind \in Primitive
          THEN \E cands \in CandidateOrders(d, t) :
                  d' = btf_dedup_prim_type(d, next, cands)
          ELSE d' = d
    /\ Step

StructType ==
    /\ At("struct")
    /\ LET t == d.types[next]
       IN IF /\ ~is_type_mapped(d, next)
             /\ t.kind \in Composite \cup {"typedef"}
          THEN \E cands \in CandidateOrders(d, t) :
                  d' = btf_dedup_struct_type(d, next, cands)
          ELSE d' = d
    /\ Step

ResolveFwd ==
    /\ At("fwds")
    /\ d' = btf_dedup_resolve_fwd(d, next)
    /\ Step

(* A loop of reference types is an error.                                  *)
RefType ==
    /\ At("ref")
    /\ LET r == Ref(d, next)
       IN /\ d' = r.e
          /\ pass' = IF r.id < 0 THEN "failed" ELSE pass
          /\ next' = next + 1
          /\ UNCHANGED <<given, ext>>

Compact ==
    /\ pass = "compact"
    /\ d' = [d EXCEPT !.hypot_map = Compacted(d), !.table = <<>>]
    /\ pass' = "remap"
    /\ UNCHANGED <<given, ext, next>>

(* btf_dedup_remap_types(): the types that stay, and the ids in .BTF.ext.  *)
(* An id whose canonical type was not kept is an error.                    *)
Remap ==
    /\ pass = "remap"
    /\ LET kept == SelectSeq([id \in Ids |-> id],
                             LAMBDA id : id < d.start \/ d.map[id] = id)
           renewed(id) ==
               [d.types[id] EXCEPT !.refs = [k \in DOMAIN @ |-> NewId(d, @[k])]]
           ids == (UNION {ToSet(d.types[id].refs) :
                            id \in {i \in ToSet(kept) : i >= d.start}}) \cup Ids
       IN IF \A id \in ids : NewId(d, id) >= 0
          THEN /\ d' = [d EXCEPT !.types =
                          [i \in DOMAIN kept |->
                             IF kept[i] < d.start THEN d.types[kept[i]]
                             ELSE renewed(kept[i])]]
               /\ ext' = [id \in Ids |-> NewId(d, id)]
               /\ pass' = "done"
          ELSE pass' = "failed" /\ UNCHANGED <<d, ext>>
    /\ UNCHANGED <<given, next>>

Dedup ==
    \/ Prep
    \/ PrimType
    \/ LoopDone("prim", "struct")
    \/ StructType
    \/ LoopDone("struct", "fwds")
    \/ ResolveFwd
    \/ LoopDone("fwds", "ref")
    \/ RefType
    \/ LoopDone("ref", "compact")
    \/ Compact
    \/ Remap

---------------------------------------------------------------------------
(* Following the map always ends: resolve_type_id() loops until it meets a *)
(* type mapped to itself or not mapped at all, and would not return if     *)
(* resolving a forward declaration to a struct could meet a struct         *)
(* resolved to that forward declaration.                                   *)
NoMapLoop ==
    pass \notin {"done", "failed"} =>
        \A id \in Ids :
            LET to == resolve_type_id(d, id)
            IN ~is_type_mapped(d, to) \/ d.map[to] = to

(* What a given type may have become: itself, or what its forward          *)
(* declaration stands for.                                                 *)
Stands(g, t) ==
    \/ ShallowEqual(g, t)
    \/ g.kind = "fwd" /\ t.kind = btf_fwd_kind(g) /\ t.name = g.name
    \/ btf_is_enum_fwd(g) /\ t.kind \in AnyEnum /\ t.name = g.name

(* t refers, place by place, to what the types g refers to have become.    *)
RefersAlike(g, t) ==
    \A k \in DOMAIN g.refs :
        t.refs[k] = (IF g.refs[k] = 0 THEN 0 ELSE ext[g.refs[k]])

(* Nothing is lost: btf__dedup() succeeds, every type it was given still   *)
(* has a descriptor, one that says the same or resolves its forward        *)
(* declaration, and that descriptor refers to what the given type's        *)
(* references have become.  (Merging two structs is right only if all that *)
(* is reachable from them was merged too.)                                 *)
Faithful ==
    /\ pass # "failed"
    /\ pass = "done" =>
         \A id \in DOMAIN given :
             LET t == d.types[ext[id]]
             IN /\ Stands(given[id], t)
                /\ ShallowEqual(given[id], t) => RefersAlike(given[id], t)

(* "candidate type would still be considered as different, because base    *)
(* BTF is considered to be immutable" (struct btf_dedup): a split type is  *)
(* merged with a base type only if the base type already refers to what    *)
(* the split type refers to.                                               *)
BaseKeptApart ==
    pass = "done" =>
        \A id \in d.start .. Len(given) :
            ext[id] < d.start /\ ShallowEqual(given[id], d.types[ext[id]]) =>
                RefersAlike(given[id], d.types[ext[id]])

(* The greatest relation between types of the same shape that refer,       *)
(* position by position, to related types: what "the same type" means.     *)
RECURSIVE Bisimilar(_, _)
Bisimilar(types, R) ==
    LET S == {p \in R :
                \A k \in DOMAIN types[p[1]].refs :
                    LET a == types[p[1]].refs[k]
                        b == types[p[2]].refs[k]
                    IN a = b \/ <<a, b>> \in R}
    IN IF S = R THEN R ELSE Bisimilar(types, S)

SameTypes(types) ==
    Bisimilar(types, {p \in (DOMAIN types) \X (DOMAIN types) :
                        /\ p[1] < p[2]
                        /\ types[p[1]].kind \notin SelfCanonical
                        /\ ShallowEqual(types[p[1]], types[p[2]])})

(* "each unique type is represented by single BTF type descriptor": no two *)
(* descriptors of the result are the same type.                            *)
NoDuplicates == pass = "done" => SameTypes(d.types) = {}
=============================================================================

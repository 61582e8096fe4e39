-------------------------------- MODULE Btf ---------------------------------
(***************************************************************************)
(* BTF from a linker or pahole to a C header: the types of the compilation *)
(* units are deduplicated and the result is dumped as C, one type at a     *)
(* time and in any order.                                                  *)
(***************************************************************************)
EXTENDS BtfDedup, BtfDump

CONSTANT MaxCalls       \* calls of btf_dump__dump_type()

VARIABLE calls

vars == <<dedupVars, dumpVars, calls>>

Init ==
    /\ DedupInit
    /\ btf = <<>>
    /\ p = NewDump(<<>>)
    /\ ret = 0
    /\ asked = 0
    /\ calls = 0

Deduplicate == Dedup /\ UNCHANGED <<dumpVars, calls>>

(* btf_dedup_free() at the end of btf__dedup(), and btf_dump__new() on its *)
(* result.                                                                 *)
Open ==
    /\ pass = "done"
    /\ btf' = d.types
    /\ p' = NewDump(d.types)
    /\ pass' = "freed"
    /\ d' = [d EXCEPT !.types = <<>>, !.start = 1, !.map = <<>>,
                      !.hypot_map = <<>>, !.collide = FALSE]
    /\ given' = <<>>
    /\ ext' = <<>>
    /\ next' = 1
    /\ UNCHANGED <<ret, asked, calls>>

Dump ==
    /\ pass = "freed"
    /\ calls < MaxCalls
    /\ \E id \in DOMAIN btf : DumpType(id)
    /\ calls' = calls + 1
    /\ UNCHANGED dedupVars

Next == Deduplicate \/ Open \/ Dump

Spec == Init /\ [][Next]_vars
=============================================================================

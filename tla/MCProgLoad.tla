----------------------------- MODULE MCProgLoad -----------------------------
(***************************************************************************)
(* Two threads.  An old kernel, without names and memcg accounting and     *)
(* with a log limit that the doubled buffer exceeds, and a recent one.     *)
(* Five bits stand for the 32 of a __u32: libbpf's buffer takes the sizes  *)
(* 3, 6, 12 and 24, and logs end up below, between and above them.         *)
(***************************************************************************)
EXTENDS ProgLoad, TLC

CONSTANTS t1, t2

MCKernels == {[name |-> FALSE, memcg |-> FALSE, max |-> 7],
              [name |-> TRUE, memcg |-> TRUE, max |-> 31]}

Load(how, verdict, need, custom, level, recs) ==
    [how |-> how, verdict |-> verdict, need |-> need, custom |-> custom,
     level |-> level, recs |-> recs]

Programs ==
    {Load("obj", "", 2, 0, 0, {"func", "line"}), Load("obj", "E2BIG", 10, -1, 0, {}),
     Load("obj", "EACCES", 30, -1, 0, {}), Load("obj", "EACCES", 10, 8, 1, {}),
     Load("raw", "EACCES", 10, 20, 0, {}), Load("raw", "E2BIG", 10, -1, 0, {"func"})}

Btfs ==
    {Load("btf", "EBADF", 30, -1, 0, {}), Load("btf", "EBADF", 8, 5, 1, {})}

(* The first thread loads one of these; the second loads BTF that is good, *)
(* or, beside the first kind of program, a good program.                   *)
MCLoads ==
    LET btf == Load("btf", "", 2, -1, 0, {})
        prog == Load("obj", "", 2, -1, 0, {})
    IN {t1 :> l @@ t2 :> btf : l \in Programs \cup Btfs} \cup {t1 :> prog @@ t2 :> prog}
=============================================================================

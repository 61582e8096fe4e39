------------------------------ MODULE ProgLoad ------------------------------
(***************************************************************************)
(* Loading programs and BTF into the kernel: the retries of                *)
(* bpf_object_load_prog() (libbpf.c), bpf_prog_load() and bpf_btf_load()   *)
(* (bpf.c) and btf_load_into_kernel() (btf.c), the feature cache they      *)
(* consult (features.c) and the bump of RLIMIT_MEMLOCK (bpf.c).  Threads   *)
(* load at the same time: the cache and memlock_bumped are shared by all   *)
(* objects of the process, and there is no lock.                           *)
(*                                                                         *)
(* A load is first tried without a log.  When it fails it is repeated with *)
(* one, in the caller's buffer or in a buffer of libbpf's own, doubled     *)
(* while the kernel finds it too small (ENOSPC).  Within one call of       *)
(* bpf_prog_load() a kernel that was interrupted (EAGAIN) is asked again a *)
(* number of times, and func or line info records that are longer than the *)
(* kernel's (E2BIG) are replaced by cleared copies.                        *)
(***************************************************************************)
EXTENDS Integers, FiniteSets

CONSTANTS Threads,
          Kernels,      \* [name, memcg, max]: what a kernel supports
          Loads,        \* what the threads may be asked to load
          Attempts,     \* PROG_LOAD_ATTEMPTS
          U32,          \* 2^32
          LogBufSize    \* BPF_LOG_BUF_SIZE

KernelRec == [name : BOOLEAN, memcg : BOOLEAN, max : Nat]

Errnos ==
    {"", "EAGAIN", "EPERM", "EINVAL", "E2BIG", "ENOSPC", "ENOMEM"} \cup
    {l[t].verdict : l \in Loads, t \in Threads}

(* The caller's buffer has a __u32 for its size in bpf_prog_load(); that   *)
(* of an object or a program is refused beyond it when it is set.          *)
LoadRec ==
    [how : {"obj", "raw", "btf"}, verdict : Errnos, need : Nat,
     custom : -1 .. U32 - 1, level : Nat, recs : SUBSET {"func", "line"}]

ASSUME LoadAssumption ==
    /\ Kernels \subseteq KernelRec
    /\ \A l \in Loads, t \in Threads : l[t] \in LoadRec
    /\ Attempts \in Nat \ {0}
    /\ U32 \in Nat \ {0}
    /\ LogBufSize \in 1 .. U32 - 1

UINT_MAX == U32 - 1

VARIABLES kern, load,             \* the kernel, and what each thread loads
          cache,                  \* feature_cache
          memlock_bumped,
          memlock_rlim,           \* "none" if the caller has set it to 0
          limit,                  \* RLIMIT_MEMLOCK: low, high, or denied when
                                  \* it could not be or was not to be raised
          th                      \* the threads

vars == <<kern, load, cache, memlock_bumped, memlock_rlim, limit, th>>

Shared == <<cache, memlock_bumped, memlock_rlim, limit>>

---------------------------------------------------------------------------
(* load[t]: how is "obj" for a program of an object, "raw" for a direct    *)
(* bpf_prog_load(), "btf" for BTF; verdict is "" or the errno the verifier *)
(* refuses it with; need is the size of its whole log; custom the size of  *)
(* the caller's buffer, -1 if there is none; level the log level asked     *)
(* for; recs the info records that are longer than the kernel's.           *)

OwnBuffer(l) == l.how # "raw" /\ l.custom = -1

Own(t) == OwnBuffer(load[t])

Good(t) == load[t].verdict = ""

(* th[t]: pc; then, where feat_supported() or bump_rlimit_memlock()        *)
(* returns to; feat, the feature asked about, and probed, its probe's      *)
(* result; prog_name, if a name is handed to bpf_prog_load(), and name, if *)
(* it is passed on; log_level; size of the log buffer; tries left; fixed,  *)
(* the records replaced; errno.  Two fields record the past: why holds the *)
(* passing reasons for which a call of this load failed, unraised that one *)
(* found the limit low although no thread had tried, nor was about, to     *)
(* raise it.                                                               *)
NewThread(l) ==
    [pc |-> "start", then |-> "", feat |-> "memcg", probed |-> FALSE,
     prog_name |-> FALSE, name |-> FALSE, log_level |-> l.level, size |-> 0,
     tries |-> 0, fixed |-> {}, errno |-> "", why |-> {}, unraised |-> FALSE]

At(t, pc) == th[t].pc = pc

Set(t, r) == th' = [th EXCEPT ![t] = r]

Goto(t, pc) == Set(t, [th[t] EXCEPT !.pc = pc])

(* A load that returns forgets how it got there.                           *)
Done(r, errno) ==
    [r EXCEPT !.pc = "done", !.errno = errno, !.then = "", !.feat = "memcg",
              !.prog_name = FALSE, !.name = FALSE, !.tries = 0]

---------------------------------------------------------------------------
(* The kernel.                                                             *)

LimitTooLow == ~kern.memcg /\ limit # "high"

(* The log size of the system call, a __u32.                               *)
LogSize(t) == th[t].size % U32

Unfixed(t) == load[t].recs \ th[t].fixed

(* The first reason to refuse the load, "" if there is none.               *)
Verdict(t) ==
    LET logs == th[t].log_level > 0
    IN IF LimitTooLow THEN "EPERM"
       ELSE IF th[t].name /\ ~kern.name THEN "ENAME"
       ELSE IF logs /\ LogSize(t) \notin 1 .. kern.max THEN "EINVAL"
       ELSE IF Unfixed(t) # {} THEN "E2BIG"
       ELSE IF logs /\ LogSize(t) < load[t].need THEN "ENOSPC"
       ELSE load[t].verdict

(* The verification of a program can be interrupted.                       *)
Verdicts(t) ==
    {Verdict(t)} \cup (IF load[t].how = "btf" THEN {} ELSE {"EAGAIN"})

Unraised == limit = "low" /\ \A u \in Threads : ~At(u, "setrlimit")

---------------------------------------------------------------------------
(* feat_supported(): the cache is read, written and read without a lock.   *)

AskFeature(t, feat, then) ==
    Set(t, [th[t] EXCEPT !.pc = "feat", !.feat = feat, !.then = then])

FeatRead(t) ==
    /\ At(t, "feat")
    /\ Goto(t, IF cache[th[t].feat] = "unknown" THEN "probe" ELSE "answer")
    /\ UNCHANGED Shared

(* A probe says yes only if the kernel has the feature; it may also fail   *)
(* for another reason (an interrupt, the limit), and then says no.         *)
FeatProbe(t) ==
    /\ At(t, "probe")
    /\ \E yes \in {kern[th[t].feat] /\ ~LimitTooLow, FALSE} :
          Set(t, [th[t] EXCEPT !.pc = "write", !.probed = yes])
    /\ UNCHANGED Shared

FeatWrite(t) ==
    /\ At(t, "write")
    /\ cache' = [cache EXCEPT ![th[t].feat] =
                    IF th[t].probed THEN "supported" ELSE "missing"]
    /\ Set(t, [th[t] EXCEPT !.pc = "answer", !.probed = FALSE])
    /\ UNCHANGED <<memlock_bumped, memlock_rlim, limit>>

FeatAnswer(t) ==
    /\ At(t, "answer")
    /\ LET yes == cache[th[t].feat] = "supported"
           r == [th[t] EXCEPT !.pc = th[t].then]
       IN Set(t, IF th[t].feat = "memcg"
                   THEN IF yes THEN r ELSE [r EXCEPT !.pc = "bump"]
                 ELSE IF r.pc = "setup" THEN [r EXCEPT !.prog_name = yes]
                 ELSE [r EXCEPT !.name = yes])
    /\ UNCHANGED Shared

---------------------------------------------------------------------------
(* bump_rlimit_memlock(), which goes on at pc then.                        *)

CallBump(t, then) ==
    IF memlock_bumped THEN Goto(t, then) ELSE AskFeature(t, "memcg", then)

SetBumped(t) ==
    /\ At(t, "bump")
    /\ memlock_bumped' = TRUE
    /\ Goto(t, "setrlimit")
    /\ UNCHANGED <<cache, memlock_rlim, limit>>

(* Raising the limit takes a privilege.                                    *)
Setrlimit(t) ==
    /\ At(t, "setrlimit")
    /\ \/ memlock_rlim # "none" /\ limit' = "high"
       \/ limit' = IF limit = "low" THEN "denied" ELSE limit
    /\ Goto(t, th[t].then)
    /\ UNCHANGED <<cache, memlock_bumped, memlock_rlim>>

libbpf_set_memlock_rlim ==
    /\ ~memlock_bumped
    /\ memlock_rlim # "none"
    /\ memlock_rlim' = "none"
    /\ UNCHANGED <<kern, load, cache, memlock_bumped, limit, th>>

---------------------------------------------------------------------------
(* What precedes the load.                                                 *)

(* Loading an object begins with bpf_object__probe_loading(); BTF, or a    *)
(* program its caller names, can also be loaded without an object.         *)
Start(t) ==
    /\ At(t, "start")
    /\ IF load[t].how = "obj" THEN CallBump(t, "trivial")
       ELSE Set(t, [th[t] EXCEPT !.pc = "setup", !.prog_name = load[t].how = "raw"])
    /\ UNCHANGED Shared

(* A trivial program is loaded, first as one type, then as another.        *)
Trivial(t) ==
    /\ At(t, "trivial")
    /\ CallBump(t, "trivial_sys")
    /\ UNCHANGED Shared

TrivialSys(t) ==
    /\ At(t, "trivial_sys")
    /\ \E e \in {IF LimitTooLow THEN "EPERM" ELSE "", "EAGAIN"} :
          IF e = ""
          THEN AskFeature(t, "name", "setup")
          ELSE Set(t, [th[t] EXCEPT
                          !.pc = IF th[t].tries = 0 THEN "trivial" ELSE "done",
                          !.tries = 1, !.errno = e, !.why = @ \cup {e},
                          !.unraised = @ \/ (e = "EPERM" /\ Unraised)])
    /\ UNCHANGED Shared

---------------------------------------------------------------------------
(* The load.                                                               *)

(* buf_sz of btf_load_into_kernel() is a __u32, log_buf_size of            *)
(* bpf_object_load_prog() a size_t.                                        *)
GrownSize(t) ==
    LET twice == IF load[t].how = "btf" THEN (2 * th[t].size) % U32
                 ELSE 2 * th[t].size
    IN IF twice > LogBufSize THEN twice ELSE LogBufSize

(* retry_load: the log buffer is chosen.  A caller of bpf_prog_load()      *)
(* passes its buffer whatever the level, an object only to get a log.      *)
Setup(t) ==
    /\ At(t, "setup")
    /\ LET r == [th[t] EXCEPT !.pc = "enter", !.fixed = {}, !.name = FALSE]
       IN \/ Set(t, IF load[t].custom # -1 /\ (r.log_level > 0 \/ load[t].how = "raw")
                      THEN [r EXCEPT !.size = load[t].custom]
                    ELSE IF r.log_level > 0 /\ Own(t)
                      THEN [r EXCEPT !.size = GrownSize(t)]
                    ELSE r)
          \/ /\ r.log_level > 0
             /\ Own(t)
             /\ Set(t, Done(r, "ENOMEM"))
    /\ UNCHANGED Shared

(* bpf_prog_load() and bpf_btf_load() begin with bump_rlimit_memlock().    *)
Enter(t) ==
    /\ At(t, "enter")
    /\ CallBump(t, "check")
    /\ UNCHANGED Shared

(* bpf_prog_load() asks again if the kernel takes a name, and then wants a *)
(* buffer and a size, or neither.                                          *)
Check(t) ==
    /\ At(t, "check")
    /\ LET buffer == load[t].custom # -1 /\ (th[t].log_level > 0 \/ load[t].how = "raw")
           bad == load[t].how # "btf" /\ buffer /\ LogSize(t) = 0
           next == IF bad THEN "again" ELSE "sys"
           r == [th[t] EXCEPT !.pc = next, !.tries = Attempts,
                              !.errno = IF bad THEN "EINVAL" ELSE @]
       IN Set(t, IF r.prog_name
                   THEN [r EXCEPT !.pc = "feat", !.feat = "name", !.then = next]
                 ELSE r)
    /\ UNCHANGED Shared

(* The load fails with e: for good, or the caller may still retry.         *)
Refused(r, e) ==
    [r EXCEPT !.pc = "failed", !.errno = e,
              !.why = @ \cup ({e} \cap {"EAGAIN", "EPERM"}),
              !.unraised = @ \/ (e = "EPERM" /\ Unraised)]

(* Mutant: EAGAIN does not count against the attempts.                     *)
Sys_Forever(t) ==
    /\ At(t, "sys")
    /\ \E e \in Verdicts(t) :
          Set(t, IF e = "" THEN Done(th[t], "")
                 ELSE IF e = "EAGAIN" THEN [th[t] EXCEPT !.tries = (@ % Attempts) + 1]
                 ELSE Refused(th[t], e))
    /\ UNCHANGED Shared

(* sys_bpf_prog_load(), one system call at a time, or BPF_BTF_LOAD.        *)
Sys(t) ==
    /\ At(t, "sys")
    /\ \E e \in Verdicts(t) :
          Set(t, IF e = "" THEN Done(th[t], "")
                 ELSE IF e = "EAGAIN" /\ th[t].tries > 1
                   THEN [th[t] EXCEPT !.tries = @ - 1]
                 ELSE Refused(th[t], e))
    /\ UNCHANGED Shared

(* The kernel says which records are too long, function records first.     *)
TooLong(t) == IF "func" \in Unfixed(t) THEN "func" ELSE "line"

(* The last try of bpf_prog_load(), with the log the caller may want.      *)
LastTry(t) == load[t].how = "raw" /\ th[t].log_level # load[t].level

(* Mutant: line info is never corrected.                                   *)
Corrects_FuncOnly(t) ==
    /\ th[t].errno = "E2BIG"
    /\ "func" \in Unfixed(t)
    /\ ~LastTry(t)

(* E2BIG with a hint is answered by corrected records; without one it is   *)
(* the verifier's last word.                                               *)
Corrects(t) ==
    /\ th[t].errno = "E2BIG"
    /\ Unfixed(t) # {}
    /\ ~LastTry(t)

Correct(t) ==
    /\ At(t, "failed")
    /\ Corrects(t)
    /\ \/ Set(t, [th[t] EXCEPT !.pc = "sys", !.tries = Attempts,
                               !.fixed = @ \cup {TooLong(t)}])
       \/ Set(t, [th[t] EXCEPT !.pc = "again", !.why = @ \cup {"nomem"}])
    /\ UNCHANGED Shared

(* bpf_prog_load() itself repeats a load without a log when it was given a *)
(* buffer.                                                                 *)
LogToo(t) ==
    /\ At(t, "failed")
    /\ ~Corrects(t)
    /\ Set(t, IF load[t].how = "raw" /\ th[t].log_level = 0 /\ th[t].size > 0
              THEN [th[t] EXCEPT !.pc = "sys", !.log_level = 1, !.tries = Attempts]
              ELSE [th[t] EXCEPT !.pc = "again"])
    /\ UNCHANGED Shared

(* Mutant: the buffer is doubled past 32 bits.                             *)
Again_Unbounded(t) ==
    /\ At(t, "again")
    /\ Set(t, IF load[t].how = "raw" THEN Done(th[t], th[t].errno)
              ELSE IF th[t].log_level = 0
                THEN [th[t] EXCEPT !.log_level = 1, !.pc = "setup"]
              ELSE IF Own(t) /\ th[t].errno = "ENOSPC"
                THEN [th[t] EXCEPT !.pc = "setup"]
              ELSE Done(th[t], th[t].errno))
    /\ UNCHANGED Shared

(* bpf_object_load_prog() and btf_load_into_kernel() decide on a retry.    *)
Again(t) ==
    /\ At(t, "again")
    /\ Set(t, IF load[t].how = "raw" THEN Done(th[t], th[t].errno)
              ELSE IF th[t].log_level = 0
                THEN [th[t] EXCEPT !.log_level = 1, !.pc = "setup"]
              ELSE IF Own(t) /\ th[t].errno = "ENOSPC" /\ th[t].size <= UINT_MAX \div 2
                THEN [th[t] EXCEPT !.pc = "setup"]
              ELSE Done(th[t], th[t].errno))
    /\ UNCHANGED Shared

---------------------------------------------------------------------------

Init ==
    /\ kern \in Kernels
    /\ load \in Loads
    /\ cache = [f \in {"name", "memcg"} |-> "unknown"]
    /\ memlock_bumped = FALSE
    /\ memlock_rlim = "infinity"
    /\ limit = "low"
    /\ th = [t \in Threads |-> NewThread(load[t])]

Step(t) ==
    /\ \/ Start(t)
       \/ Trivial(t)
       \/ TrivialSys(t)
       \/ FeatRead(t)
       \/ FeatProbe(t)
       \/ FeatWrite(t)
       \/ FeatAnswer(t)
       \/ SetBumped(t)
       \/ Setrlimit(t)
       \/ Setup(t)
       \/ Enter(t)
       \/ Check(t)
       \/ Sys(t)
       \/ Correct(t)
       \/ LogToo(t)
       \/ Again(t)
    /\ UNCHANGED <<kern, load>>

Next == libbpf_set_memlock_rlim \/ \E t \in Threads : Step(t)

(* Threads run and their system calls return.                              *)
Fairness == \A t \in Threads : WF_vars(Step(t))

Spec == Init /\ [][Next]_vars /\ Fairness

---------------------------------------------------------------------------
(* Properties.                                                             *)

Failed(t) == At(t, "done") /\ th[t].errno # ""

(* The caller gets the log: libbpf always has a place for it, unless it is *)
(* called directly and given none.                                         *)
WantsLog(t) == load[t].how # "raw" \/ load[t].custom # -1

(* A failed load is reported for what it is.  The verifier's verdict       *)
(* (bpf_object_load_prog, btf_load_into_kernel, bpf_prog_load) is returned *)
(* only for a program it refuses, and with its whole log; ENOSPC only when *)
(* the buffer is the caller's or cannot be doubled within 32 bits; EINVAL  *)
(* only if the buffer exceeds what the kernel takes, or is empty; a        *)
(* correctable E2BIG only if memory ran out, or the first try failed for a *)
(* passing reason and the last met the records.  A buffer of libbpf's own  *)
(* never exceeds what a __u32 holds, nor is a name passed to a kernel that *)
(* would refuse it.                                                        *)
FailureExplained ==
    \A t \in Threads :
        /\ Own(t) => th[t].size <= UINT_MAX
        /\ Failed(t) =>
              LET e == th[t].errno
              IN \/ e \in {"EAGAIN", "EPERM"} /\ e \in th[t].why
                 \/ e = "ENOMEM" /\ Own(t)
                 \/ e = "EINVAL" /\ LogSize(t) \notin 1 .. kern.max
                 \/ e = "ENOSPC" /\ LogSize(t) < load[t].need
                                 /\ (Own(t) => 2 * th[t].size > UINT_MAX)
                 \/ e = "E2BIG" /\ th[t].why # {}
                 \/ /\ e = load[t].verdict
                    /\ WantsLog(t) => /\ th[t].log_level > 0
                                      /\ LogSize(t) >= load[t].need

(* bpf_prog_load() refuses a buffer without a size.                        *)
EmptyBuffer(l) == l.how = "raw" /\ l.custom # -1 /\ l.custom % U32 = 0

(* A program the kernel accepts, for which no log was asked, is loaded:    *)
(* whatever records are too long for the kernel and whatever buffer was    *)
(* given, only an interrupted verification, a shortage of memory or the    *)
(* memory limit can have made it fail; and the limit only if raising it    *)
(* was refused or disabled, or another thread had set memlock_bumped and   *)
(* not yet called setrlimit() (bump_rlimit_memlock).                       *)
GoodProgramLoads ==
    \A t \in Threads :
        Failed(t) /\ Good(t) /\ load[t].level = 0 /\ ~EmptyBuffer(load[t]) =>
            /\ th[t].why # {}
            /\ ~th[t].unraised

(* Every load returns, whatever the kernel answers: the doubling of the    *)
(* buffer, the attempts of sys_bpf_prog_load() and the corrections of the  *)
(* records all end.                                                        *)
LoadReturns == \A t \in Threads : <>At(t, "done")

---------------------------------------------------------------------------
(* The inductive invariant behind FailureExplained and GoodProgramLoads.   *)

(* The places inside feat_supported() and bump_rlimit_memlock().           *)
SubCalls == {"feat", "probe", "write", "answer", "bump", "setrlimit"}

PCs == {"start", "trivial", "trivial_sys", "setup", "enter", "check", "sys", "failed",
        "again", "done"} \cup SubCalls

ThreadRec ==
    [pc : PCs, then : PCs \cup {""}, feat : {"name", "memcg"}, probed : BOOLEAN,
     prog_name : BOOLEAN, name : BOOLEAN, log_level : Nat, size : Nat, tries : Nat,
     fixed : SUBSET {"func", "line"}, errno : Errnos,
     why : SUBSET {"EAGAIN", "EPERM", "nomem"}, unraised : BOOLEAN]

TypeOK ==
    /\ kern \in Kernels
    /\ load \in Loads
    /\ cache \in [{"name", "memcg"} -> {"unknown", "supported", "missing"}]
    /\ memlock_bumped \in BOOLEAN
    /\ memlock_rlim \in {"infinity", "none"}
    /\ limit \in {"low", "high", "denied"}
    /\ th \in [Threads -> ThreadRec]

(* What holds of a thread r that loads l on a kernel k; b is the flag      *)
(* memlock_bumped.                                                         *)

(* Where the load stands: a call to another function comes back to then.   *)
Place(r) == IF r.pc \in SubCalls THEN r.then ELSE r.pc

CallsOK(r) ==
    r.pc \in SubCalls =>
        IF r.feat = "memcg" THEN r.then \in {"trivial", "trivial_sys", "check"}
        ELSE /\ r.then \in {"setup", "sys", "again"}
             /\ r.pc \notin {"bump", "setrlimit"}

(* Who has come past bump_rlimit_memlock() finds the flag set, or has      *)
(* found out that the limit does not matter.                               *)
BumpOK(r, k, b) ==
    Place(r) \in {"sys", "failed"} \/ r.pc \in {"trivial_sys", "check", "setrlimit"} =>
        b \/ k.memcg

(* Only what the kernel has is reported, and a name handed on only then.   *)
FeatureOK(r, k) ==
    /\ r.pc = "write" /\ r.probed => k[r.feat]
    /\ r.name => k.name

(* The size of libbpf's own buffer, and that of a caller of bpf_prog_load. *)
SizeOK(r, l) ==
    /\ OwnBuffer(l) =>
          /\ r.log_level = 0 \/ Place(r) \in {"start", "trivial", "trivial_sys"} =>
                r.size = 0
          /\ Place(r) = "setup" => 2 * r.size <= UINT_MAX
          /\ r.size <= UINT_MAX
    /\ l.how = "raw" /\ l.custom # -1 =>
          /\ Place(r) \in {"enter", "check"} => r.size = l.custom
          /\ Place(r) \in {"sys", "failed"} => r.size > 0

Passing(r) == r.errno \in {"EAGAIN", "EPERM"} /\ r.errno \in r.why

BadSize(r, k) == r.errno = "EINVAL" /\ r.size % U32 \notin 1 .. k.max

NoSpace(r, l) ==
    r.errno = "ENOSPC" /\ r.log_level > 0 /\ r.size % U32 < l.need

ItsVerdict(r, l) ==
    r.errno = l.verdict /\ (r.log_level > 0 => r.size % U32 >= l.need)

(* What the errno of the last system call says while it is handled.        *)
ErrnoOK(r, l, k) ==
    /\ r.pc = "failed" =>
          \/ Passing(r)
          \/ BadSize(r, k) /\ r.log_level > 0
          \/ NoSpace(r, l) /\ l.recs \subseteq r.fixed
          \/ r.errno = "E2BIG" /\ ~(l.recs \subseteq r.fixed)
          \/ ItsVerdict(r, l) /\ l.recs \subseteq r.fixed
    /\ Place(r) = "again" =>
          \/ Passing(r)
          \/ BadSize(r, k)
          \/ NoSpace(r, l)
          \/ r.errno = "E2BIG" /\ r.why # {}
          \/ ItsVerdict(r, l) /\ (l.how = "raw" /\ l.custom # -1 => r.log_level > 0)

(* A direct load gets a log level it was not given only for its last try,  *)
(* which still has long records only if the first failed for another       *)
(* reason.                                                                 *)
LastTryOK(r, l) ==
    l.how = "raw" =>
        /\ Place(r) \in {"start", "trivial", "trivial_sys", "setup"} =>
              r.log_level = l.level
        /\ r.log_level # l.level /\ ~(l.recs \subseteq r.fixed) => r.why # {}

(* A good program that has met no passing failure has only long records.   *)
GoodOK(r, l) ==
    l.verdict = "" =>
        /\ ~r.unraised
        /\ l.level = 0 /\ ~EmptyBuffer(l) /\ r.why = {} =>
              /\ r.log_level = 0
              /\ Place(r) # "again"
              /\ r.pc = "failed" => r.errno = "E2BIG" /\ ~(l.recs \subseteq r.fixed)
              /\ r.pc = "done" => r.errno = ""

(* FailureExplained, of the thread.                                        *)
Explained(r, l, k) ==
    r.pc = "done" /\ r.errno # "" =>
        \/ Passing(r)
        \/ r.errno = "ENOMEM" /\ OwnBuffer(l)
        \/ BadSize(r, k)
        \/ /\ r.errno = "ENOSPC" /\ r.size % U32 < l.need
           /\ OwnBuffer(l) => 2 * r.size > UINT_MAX
        \/ r.errno = "E2BIG" /\ r.why # {}
        \/ /\ r.errno = l.verdict
           /\ l.how # "raw" \/ l.custom # -1 =>
                r.log_level > 0 /\ r.size % U32 >= l.need

ThreadOK(r, l, k, b) ==
    /\ CallsOK(r) /\ BumpOK(r, k, b) /\ FeatureOK(r, k) /\ SizeOK(r, l)
    /\ ErrnoOK(r, l, k) /\ LastTryOK(r, l) /\ GoodOK(r, l) /\ Explained(r, l, k)

(* The cache claims no more than the kernel has, and the flag is set only  *)
(* by a thread that raises the limit next.                                 *)
SharedOK ==
    /\ \A f \in {"name", "memcg"} : cache[f] = "supported" => kern[f]
    /\ memlock_bumped => limit # "low" \/ \E t \in Threads : At(t, "setrlimit")

LoadInv ==
    TypeOK /\ SharedOK /\ \A t \in Threads : ThreadOK(th[t], load[t], kern, memlock_bumped)
=============================================================================

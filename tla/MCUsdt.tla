-------------------------------- MODULE MCUsdt --------------------------------
EXTENDS Usdt, TLC

Seg(start, end, offset, exec) ==
  [start |-> start, end |-> end, offset |-> offset, exec |-> exec]

N(name, args, loc, base, sema, combo) ==
  [name |-> name, args |-> args, loc |-> loc, base |-> base, sema |-> sema,
   combo |-> combo]

\* Two places of u1 with the same arguments, and a place of u2, which has a
\* semaphore, at the address of one of them.
Notes(base) ==
  << N("u1", "a", 101, base, 0, TRUE), N("u2", "b", 101, base, 121, TRUE),
     N("u1", "a", 103, base, 0, FALSE) >>

\* An executable, and a library that prelink moved by 10 after linking and
\* that the loader mapped at 500.
MCBinaries ==
  { [dyn |-> FALSE, base |-> 0, vmas |-> {}, notes |-> Notes(0),
     segs |-> {Seg(100, 110, 10, TRUE), Seg(120, 125, 30, FALSE)}],
    [dyn |-> TRUE, base |-> 310, notes |-> Notes(300),
     segs |-> {Seg(110, 120, 10, TRUE), Seg(120, 125, 30, FALSE)},
     vmas |-> {Seg(500, 510, 10, TRUE), Seg(520, 525, 30, FALSE)}] }

\* In the order the kernel gained the features.
Kernel(age) ==
  [has_sema_refcnt |-> age >= 1, has_bpf_cookie |-> age >= 2,
   has_uprobe_multi |-> age >= 3, has_uprobe_syscall |-> age >= 4]

MCKernels == {Kernel(age) : age \in 0 .. 4}

Symm == Permutations(Links)
==============================================================================

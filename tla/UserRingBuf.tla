----------------------------- MODULE UserRingBuf -----------------------------
(***************************************************************************)
(* One BPF_MAP_TYPE_USER_RINGBUF ring: the user-space producers of         *)
(* ringbuf.c (user_ring_buffer__reserve, __reserve_blocking, __submit and  *)
(* __discard) running against bpf_user_ringbuf_drain() in the kernel.      *)
(*                                                                         *)
(* Callers serialise the reserve functions between themselves, as their    *)
(* documentation demands (the variable lock is that caller's lock), while  *)
(* submit and discard run concurrently with everything.  log, rd, released *)
(* and drained are history variables in positions that do not wrap.        *)
(***************************************************************************)
EXTENDS Integers, Sequences

CONSTANTS
  Threads,     \* producer threads
  NoThread,
  Size,        \* mask + 1
  PosMod,      \* 2^(bits of an unsigned long)
  U32Mod,      \* 2^32, the width of avail_size
  Sizes,       \* sample sizes asked for
  Timeouts,    \* timeout_ms of the blocking calls, -1 for no limit
  MaxRecs      \* bound: records reserved in a behaviour

BPF_RINGBUF_HDR_SZ == 8

ASSUME UserSizeAssumption == Size \in Nat /\ Size >= BPF_RINGBUF_HDR_SZ
ASSUME UserModAssumption ==
  /\ PosMod \in Nat \ {0} /\ PosMod % Size = 0
  /\ U32Mod \in Nat /\ PosMod % U32Mod = 0 /\ U32Mod > Size
ASSUME UserBoundsAssumption ==
  /\ Sizes \subseteq Nat /\ MaxRecs \in Nat
  /\ \A t \in Timeouts : t = -1 \/ t \in Nat
  /\ NoThread \notin Threads

VARIABLES
  mem, consumer_pos, producer_pos,   \* the shared pages
  kpc,           \* "idle", or "cb" while the kernel's callback has a sample
  lock,          \* the thread inside a reserve function
  pc,            \* where each thread is
  sample,        \* offset of the sample each thread holds
  own,           \* history: the record each thread holds
  cons_pos, size, blocking, last,    \* locals of the reserve functions
  timeout_ms, ms_remaining, elapsed,
  ret,           \* what each thread's last reserve call returned
  log, rd, released, drained

kernelVars == <<consumer_pos, kpc, rd, released, drained>>
callVars == <<size, blocking, timeout_ms>>
waitVars == <<last, ms_remaining, elapsed>>
vars == <<mem, producer_pos, log, kernelVars, lock, pc, sample, own, ret,
          cons_pos, callVars, waitVars>>

------------------------------------------------------------------------------
RoundTotal(len) == ((len + BPF_RINGBUF_HDR_SZ + 7) \div 8) * 8

HdrCell(i, len) ==
  [rec |-> i, hdr |-> TRUE, len |-> len, busy |-> TRUE, discard |-> FALSE]
DataCell(i) ==
  [rec |-> i, hdr |-> FALSE, len |-> 0, busy |-> FALSE, discard |-> FALSE]

End(i) == IF i = 0 THEN 0 ELSE log[i].start + RoundTotal(log[i].len)
Tail_ == End(Len(log))
Dist(o, p) == (o - p) % Size

------------------------------------------------------------------------------
(* user_ring_buffer__reserve and user_ring_buffer__reserve_blocking *)

\* A thread calls user_ring_buffer__reserve(size).
CallReserve(t) ==
  /\ pc[t] = "idle" /\ lock = NoThread /\ Len(log) < MaxRecs
  /\ lock' = t
  /\ size' \in Sizes
  /\ blocking' = FALSE /\ last' = TRUE /\ timeout_ms' = 0
  /\ pc' = [pc EXCEPT ![t] = "load_cons"]
  /\ UNCHANGED <<mem, producer_pos, log, kernelVars, sample, own, ret,
                 cons_pos, ms_remaining, elapsed>>

\* A thread calls user_ring_buffer__reserve_blocking(size, timeout_ms).
CallReserveBlocking(t) ==
  /\ pc[t] = "idle" /\ lock = NoThread /\ Len(log) < MaxRecs
  /\ lock' = t
  /\ size' \in Sizes
  /\ blocking' = TRUE /\ last' = FALSE
  /\ timeout_ms' \in Timeouts
  /\ ms_remaining' = timeout_ms'
  /\ elapsed' = 0
  /\ pc' = [pc EXCEPT ![t] = "load_cons"]
  /\ UNCHANGED <<mem, producer_pos, log, kernelVars, sample, own, ret, cons_pos>>

\* cons_pos = smp_load_acquire(rb->consumer_pos)
LoadCons(t) ==
  /\ pc[t] = "load_cons"
  /\ cons_pos' = consumer_pos
  /\ pc' = [pc EXCEPT ![t] = "check"]
  /\ UNCHANGED <<mem, producer_pos, log, kernelVars, lock, sample, own, ret,
                 callVars, waitVars>>

\* Mutant: avail_size is one header too generous.
avail_size_Generous ==
  (Size + BPF_RINGBUF_HDR_SZ - (producer_pos - cons_pos)) % U32Mod

\* avail_size = max_size - (prod_pos - cons_pos), truncated to 32 bits
avail_size == (Size - (producer_pos - cons_pos)) % U32Mod

\* A reserve call gives up: E2BIG always, ENOSPC unless it blocks and has
\* not made its last attempt.
ReserveFails(t) ==
  /\ pc[t] = "check"
  /\ \/ RoundTotal(size) > Size /\ ret' = [ret EXCEPT ![t] = "E2BIG"]
     \/ /\ RoundTotal(size) <= Size
        /\ avail_size < RoundTotal(size)
        /\ ~blocking \/ last
        /\ ret' = [ret EXCEPT ![t] = "ENOSPC"]
  /\ pc' = [pc EXCEPT ![t] = "idle"]
  /\ lock' = NoThread
  /\ UNCHANGED <<mem, producer_pos, log, kernelVars, sample, own, cons_pos,
                 callVars, waitVars>>

\* ENOSPC inside reserve_blocking: wait in epoll_wait.
MustWait(t) ==
  /\ pc[t] = "check"
  /\ RoundTotal(size) <= Size
  /\ avail_size < RoundTotal(size)
  /\ blocking /\ ~last
  /\ pc' = [pc EXCEPT ![t] = "epoll_wait"]
  /\ UNCHANGED <<mem, producer_pos, log, kernelVars, lock, sample, own, ret,
                 cons_pos, callVars, waitVars>>

\* Mutant: the header is written without the busy bit.
WriteHdr_NotBusy(t) ==
  /\ pc[t] = "check"
  /\ RoundTotal(size) <= Size
  /\ avail_size >= RoundTotal(size)
  /\ mem' = [o \in 0..(Size - 1) |->
               IF Dist(o, producer_pos) = 0 THEN [HdrCell(Len(log) + 1, size) EXCEPT !.busy = FALSE]
               ELSE IF Dist(o, producer_pos) < RoundTotal(size)
                 THEN DataCell(Len(log) + 1)
               ELSE mem[o]]
  /\ pc' = [pc EXCEPT ![t] = "store_prod"]
  /\ UNCHANGED <<producer_pos, log, kernelVars, lock, sample, own, ret,
                 cons_pos, callVars, waitVars>>

\* There is room: the busy header is written first.
WriteHdr(t) ==
  /\ pc[t] = "check"
  /\ RoundTotal(size) <= Size
  /\ avail_size >= RoundTotal(size)
  /\ mem' = [o \in 0..(Size - 1) |->
               IF Dist(o, producer_pos) = 0 THEN HdrCell(Len(log) + 1, size)
               ELSE IF Dist(o, producer_pos) < RoundTotal(size)
                 THEN DataCell(Len(log) + 1)
               ELSE mem[o]]
  /\ pc' = [pc EXCEPT ![t] = "store_prod"]
  /\ UNCHANGED <<producer_pos, log, kernelVars, lock, sample, own, ret,
                 cons_pos, callVars, waitVars>>

\* smp_store_release(rb->producer_pos, ...) and return of the sample pointer.
StoreProd(t) ==
  /\ pc[t] = "store_prod"
  /\ producer_pos' = (producer_pos + RoundTotal(size)) % PosMod
  /\ sample' = [sample EXCEPT ![t] = (producer_pos + BPF_RINGBUF_HDR_SZ) % Size]
  /\ own' = [own EXCEPT ![t] = Len(log) + 1]
  /\ log' = Append(log, [start |-> Tail_, len |-> size, st |-> "busy"])
  /\ ret' = [ret EXCEPT ![t] = "ok"]
  /\ pc' = [pc EXCEPT ![t] = "owner"]
  /\ lock' = NoThread
  /\ UNCHANGED <<mem, kernelVars, cons_pos, callVars, waitVars>>

\* EPOLLOUT is level triggered: ready while the ring is not full.
EpollReady == (producer_pos - consumer_pos) % PosMod < Size

\* Mutant: the loop is left as soon as an event was seen.
EpollReturn_GiveUp(t) ==
  /\ pc[t] = "epoll_wait"
  /\ \/ /\ EpollReady
        /\ elapsed' \in IF timeout_ms = -1 THEN {0} ELSE elapsed..(timeout_ms + 1)
     \/ /\ ms_remaining # -1
        /\ elapsed' \in timeout_ms..(timeout_ms + 1)
  /\ ms_remaining' = IF timeout_ms = -1 THEN -1 ELSE timeout_ms - elapsed'
  /\ last' = TRUE
  /\ pc' = [pc EXCEPT ![t] = "load_cons"]
  /\ UNCHANGED <<mem, producer_pos, log, kernelVars, lock, sample, own, ret,
                 cons_pos, callVars>>

\* Mutant: the retry reuses the consumer position read before the wait.
EpollReturn_StaleCons(t) ==
  /\ pc[t] = "epoll_wait"
  /\ \/ /\ EpollReady
        /\ elapsed' \in IF timeout_ms = -1 THEN {0} ELSE elapsed..(timeout_ms + 1)
     \/ /\ ms_remaining # -1
        /\ elapsed' \in timeout_ms..(timeout_ms + 1)
  /\ ms_remaining' = IF timeout_ms = -1 THEN -1 ELSE timeout_ms - elapsed'
  /\ last' = (timeout_ms # -1 /\ ms_remaining' <= 0)
  /\ pc' = [pc EXCEPT ![t] = "check"]
  /\ UNCHANGED <<mem, producer_pos, log, kernelVars, lock, sample, own, ret,
                 cons_pos, callVars>>

\* epoll_wait returns, with an event or because ms_remaining have passed; the
\* clock is read and the loop goes round, or falls through to a last attempt.
\* The clock may read up to 1 ms past the timeout.
EpollReturn(t) ==
  /\ pc[t] = "epoll_wait"
  /\ \/ /\ EpollReady
        /\ elapsed' \in IF timeout_ms = -1 THEN {0} ELSE elapsed..(timeout_ms + 1)
     \/ /\ ms_remaining # -1
        /\ elapsed' \in timeout_ms..(timeout_ms + 1)
  /\ ms_remaining' = IF timeout_ms = -1 THEN -1 ELSE timeout_ms - elapsed'
  /\ last' = (timeout_ms # -1 /\ ms_remaining' <= 0)
  /\ pc' = [pc EXCEPT ![t] = "load_cons"]
  /\ UNCHANGED <<mem, producer_pos, log, kernelVars, lock, sample, own, ret,
                 cons_pos, callVars>>

\* epoll_wait fails (a signal): the call returns NULL.
EpollError(t) ==
  /\ pc[t] = "epoll_wait"
  /\ ret' = [ret EXCEPT ![t] = "EINTR"]
  /\ pc' = [pc EXCEPT ![t] = "idle"]
  /\ lock' = NoThread
  /\ UNCHANGED <<mem, producer_pos, log, kernelVars, sample, own, cons_pos,
                 callVars, waitVars>>

------------------------------------------------------------------------------
(* user_ring_buffer__submit and user_ring_buffer__discard *)

\* Mutant: the header is looked for where the sample starts.
HdrOffset_NoHeader(t) == (Size + sample[t]) % Size

\* The header word lies before the sample, possibly across the end.
HdrOffset(t) == (Size + sample[t] - BPF_RINGBUF_HDR_SZ) % Size

\* user_ringbuf_commit: busy is cleared, discard set or not, in one exchange.
Commit(t, disc) ==
  /\ pc[t] = "owner"
  /\ mem' = [mem EXCEPT ![HdrOffset(t)] =
               [@ EXCEPT !.busy = FALSE, !.discard = disc]]
  /\ log' = [log EXCEPT ![own[t]] =
               [@ EXCEPT !.st = IF disc THEN "discarded" ELSE "committed"]]
  /\ pc' = [pc EXCEPT ![t] = "idle"]
  /\ UNCHANGED <<producer_pos, kernelVars, lock, sample, own, ret, cons_pos,
                 callVars, waitVars>>

Submit(t) == Commit(t, FALSE)
Discard(t) == Commit(t, TRUE)

------------------------------------------------------------------------------
(* bpf_user_ringbuf_drain, external *)

CurHdr == mem[consumer_pos % Size]

\* The next sample is resolved: a discarded one is skipped at once, the
\* callback is given a submitted one.
KernelPeek ==
  /\ kpc = "idle"
  /\ consumer_pos # producer_pos
  /\ ~CurHdr.busy
  /\ rd' = rd + 1
  /\ IF CurHdr.discard
       THEN /\ consumer_pos' = (consumer_pos + RoundTotal(CurHdr.len)) % PosMod
            /\ released' = rd'
            /\ UNCHANGED <<kpc, drained>>
       ELSE /\ kpc' = "cb"
            /\ drained' = Append(drained, CurHdr.rec)
            /\ UNCHANGED <<consumer_pos, released>>
  /\ UNCHANGED <<mem, producer_pos, log, lock, pc, sample, own, ret, cons_pos,
                 callVars, waitVars>>

\* The callback is done with the sample; its space is released.
KernelRelease ==
  /\ kpc = "cb"
  /\ consumer_pos' = (consumer_pos + RoundTotal(CurHdr.len)) % PosMod
  /\ released' = rd
  /\ kpc' = "idle"
  /\ UNCHANGED <<mem, producer_pos, log, lock, pc, sample, own, ret, cons_pos,
                 callVars, waitVars, rd, drained>>

------------------------------------------------------------------------------
Init ==
  /\ mem = [o \in 0..(Size - 1) |-> DataCell(0)]
  /\ consumer_pos = 0 /\ producer_pos = 0
  /\ kpc = "idle" /\ lock = NoThread
  /\ pc = [t \in Threads |-> "idle"]
  /\ sample = [t \in Threads |-> 0]
  /\ own = [t \in Threads |-> 0]
  /\ ret = [t \in Threads |-> "none"]
  /\ cons_pos = 0 /\ size = 0 /\ blocking = FALSE /\ last = FALSE
  /\ timeout_ms = 0 /\ ms_remaining = 0 /\ elapsed = 0
  /\ log = <<>> /\ rd = 0 /\ released = 0 /\ drained = <<>>

\* What a thread does inside a call it has made.
Reserving(t) ==
  \/ LoadCons(t) \/ ReserveFails(t) \/ MustWait(t) \/ WriteHdr(t)
  \/ StoreProd(t) \/ EpollReturn(t)

Kernel == KernelPeek \/ KernelRelease

Next ==
  \/ \E t \in Threads : \/ CallReserve(t) \/ CallReserveBlocking(t)
                        \/ Reserving(t) \/ EpollError(t)
                        \/ Submit(t) \/ Discard(t)
  \/ Kernel

Spec == Init /\ [][Next]_vars

\* Calls in progress go on, owners resolve their samples, the kernel drains.
FairSpec ==
  /\ Spec
  /\ \A t \in Threads : WF_vars(Reserving(t)) /\ WF_vars(Submit(t) \/ Discard(t))
  /\ WF_vars(Kernel)

------------------------------------------------------------------------------
(* Properties *)

Record == [start : Nat, len : Nat, st : {"busy", "committed", "discarded"}]
Cell == [rec : Nat, hdr : BOOLEAN, len : Nat, busy : BOOLEAN, discard : BOOLEAN]

TypeOK ==
  /\ mem \in [0..(Size - 1) -> Cell]
  /\ consumer_pos \in 0..(PosMod - 1) /\ producer_pos \in 0..(PosMod - 1)
  /\ kpc \in {"idle", "cb"}
  /\ lock \in Threads \cup {NoThread}
  /\ pc \in [Threads -> {"idle", "load_cons", "check", "store_prod",
                         "epoll_wait", "owner"}]
  /\ sample \in [Threads -> 0..(Size - 1)]
  /\ own \in [Threads -> Nat]
  /\ ret \in [Threads -> {"none", "ok", "E2BIG", "ENOSPC", "EINTR"}]
  /\ size \in Nat /\ blocking \in BOOLEAN /\ last \in BOOLEAN
  /\ timeout_ms \in Int /\ ms_remaining \in Int /\ elapsed \in Int
  /\ log \in Seq(Record) /\ drained \in Seq(Nat)
  /\ rd \in 0..Len(log) /\ released \in 0..rd

\* Bytes of record i are as its reservation left them, but for the flags.
Intact(i) ==
  \A o \in 0..(Size - 1) :
    LET d == Dist(o, log[i].start)
    IN d < RoundTotal(log[i].len) => mem[o].rec = i /\ (mem[o].hdr <=> d = 0)

\* No reservation overwrites a sample that its owner is still filling, that
\* waits to be drained or that the kernel's callback is reading, however
\* stale the consumer position the reservation was based on.
NeverOverwrites ==
  \A i \in (released + 1)..Len(log) : Intact(i)

\* Submit and discard change the header word of the record their thread
\* reserved, also when the sample starts just after the end of the ring.
CommitHitsOwnHeader ==
  \A t \in Threads : pc[t] = "owner" =>
    LET c == mem[HdrOffset(t)]
    IN c.hdr /\ c.rec = own[t] /\ c.busy

\* The kernel's callback sees exactly the submitted samples, in the order of
\* their reservation whatever the order of the submits.
DrainedInOrder ==
  /\ \A a, b \in 1..Len(drained) : a < b => drained[a] < drained[b]
  /\ {drained[a] : a \in 1..Len(drained)}
       = {i \in 1..rd : log[i].st = "committed"}

\* A blocking reserve reports ENOSPC only after its timeout has passed, and
\* never when it has no timeout.
NoEarlyTimeout ==
  [][\A t \in Threads :
       pc[t] = "check" /\ blocking /\ ret'[t] = "ENOSPC" /\ pc'[t] = "idle"
         => timeout_ms # -1 /\ elapsed >= timeout_ms]_vars

\* A blocking reserve without timeout comes back when the kernel drains and
\* the other producers resolve what they hold: no wakeup is missed.
BlockedReturns ==
  \A t \in Threads : pc[t] = "epoll_wait" ~> pc[t] \in {"owner", "idle"}

------------------------------------------------------------------------------
(* The inductive invariant behind the safety properties. *)

\* The header word that record i has in the data area.
HdrOf(i) ==
  [rec |-> i, hdr |-> TRUE, len |-> log[i].len,
   busy |-> (log[i].st = "busy"), discard |-> (log[i].st = "discarded")]

\* Records follow each other without gap.
LogContiguous ==
  /\ \A i \in 1..Len(log) : log[i].start = End(i - 1)
  /\ \A i, j \in 1..Len(log) : i < j => End(i) <= log[j].start

\* The wrapped positions stand for record boundaries of the log, also the
\* consumer position a reserve call has read, however long ago, and a record
\* whose header is written fits into what was free then.
PositionsInv ==
  /\ consumer_pos = End(released) % PosMod
  /\ producer_pos = Tail_ % PosMod
  /\ Tail_ - End(released) <= Size
  /\ \A t \in Threads : pc[t] = "check" =>
       \E c \in 0..released :
         cons_pos = End(c) % PosMod /\ Tail_ - End(c) <= Size
  /\ \A t \in Threads : pc[t] = "store_prod" =>
       Tail_ + RoundTotal(size) - End(released) <= Size

\* Every record not yet released is in the data area as it was written, and
\* so is one that producer_pos does not cover yet.
MemoryInv ==
  /\ \A i \in (released + 1)..Len(log), o \in 0..(Size - 1) :
       Dist(o, log[i].start) < RoundTotal(log[i].len) =>
         mem[o] = IF Dist(o, log[i].start) = 0 THEN HdrOf(i) ELSE DataCell(i)
  /\ \A t \in Threads, o \in 0..(Size - 1) :
       pc[t] = "store_prod" /\ Dist(o, Tail_) < RoundTotal(size) =>
         mem[o] = IF Dist(o, Tail_) = 0 THEN HdrCell(Len(log) + 1, size)
                  ELSE DataCell(Len(log) + 1)

\* The lock serialises the reserve functions; a sample has one owner, and is
\* busy as long as it has one.
ThreadsInv ==
  /\ \A t \in Threads :
       pc[t] \in {"load_cons", "check", "store_prod", "epoll_wait"}
         <=> lock = t
  /\ \A t \in Threads : pc[t] = "owner" =>
       /\ own[t] \in 1..Len(log)
       /\ log[own[t]].st = "busy"
       /\ sample[t] = (log[own[t]].start + BPF_RINGBUF_HDR_SZ) % Size
  /\ \A t, u \in Threads :
       pc[t] = "owner" /\ pc[u] = "owner" /\ own[t] = own[u] => t = u

\* The kernel holds at most one sample and has passed only resolved ones.
KernelInv ==
  /\ released = IF kpc = "cb" THEN rd - 1 ELSE rd
  /\ \A i \in 1..rd : log[i].st # "busy"

\* A blocking call makes its last attempt only when its time is over.
WaitInv ==
  lock # NoThread /\ blocking /\ last =>
    timeout_ms # -1 /\ elapsed >= timeout_ms

\* Inductive: every step preserves it.  It implies NeverOverwrites,
\* CommitHitsOwnHeader and DrainedInOrder, and in its states every step
\* satisfies NoEarlyTimeout.
UserInv ==
  /\ TypeOK
  /\ LogContiguous
  /\ PositionsInv
  /\ MemoryInv
  /\ ThreadsInv
  /\ KernelInv
  /\ WaitInv
  /\ DrainedInOrder
=============================================================================

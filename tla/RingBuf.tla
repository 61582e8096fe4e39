------------------------------- MODULE RingBuf -------------------------------
(***************************************************************************)
(* One BPF_MAP_TYPE_RINGBUF ring: the user-space consumer of ringbuf.c     *)
(* (ringbuf_process_ring) running against the producers in the kernel.     *)
(*                                                                         *)
(* Shared memory is what both sides map: consumer_pos (written by libbpf), *)
(* producer_pos and the data pages (written by the kernel).  Positions are *)
(* unsigned longs and wrap at PosMod; a byte of the data area is found at  *)
(* position & mask, which is % Size for the power-of-two sizes in use.     *)
(*                                                                         *)
(* log, rd, released, delivered and backlog are history variables: they record      *)
(* which records were reserved and where, without wrap-around, and no      *)
(* guard of the consumer reads them.                                       *)
(***************************************************************************)
EXTENDS Integers, Sequences

CONSTANTS
  Size,      \* mask + 1: bytes in the data area
  PosMod,    \* 2^(bits of an unsigned long)
  Lens,      \* payload lengths the producers reserve
  Ns,        \* values of n that ringbuf_process_ring is called with
  MaxRecs    \* bound: records reserved in a behaviour

BPF_RINGBUF_HDR_SZ == 8

ASSUME SizeAssumption == Size \in Nat /\ Size >= BPF_RINGBUF_HDR_SZ
ASSUME PosModAssumption ==
  PosMod \in Nat /\ PosMod % Size = 0 /\ PosMod >= 2 * Size
ASSUME BoundsAssumption ==
  /\ Lens \subseteq Nat
  /\ Ns \subseteq Nat
  /\ MaxRecs \in Nat

VARIABLES
  mem,            \* the data area, one cell per byte
  consumer_pos, producer_pos,
  pc,             \* where the consumer is in ringbuf_process_ring
  cons_pos, prod_pos, got_new_data, cnt, n,   \* its locals
  ret,            \* its last return value
  log,            \* history: every record reserved so far, in order
  rd,             \* history: records the consumer has looked at
  released,       \* history: records below consumer_pos
  delivered,      \* history: records handed to sample_cb, in order
  backlog         \* history: records resolved when the call began

kernelVars == <<mem, producer_pos, log>>
localVars == <<pc, cons_pos, prod_pos, got_new_data, cnt, n, ret>>
vars == <<mem, consumer_pos, producer_pos, pc, cons_pos, prod_pos,
          got_new_data, cnt, n, ret, log, rd, released, delivered, backlog>>

------------------------------------------------------------------------------
(* Layout *)

\* What the kernel takes out of the ring for a payload of len bytes.
KernelTotal(len) == ((len + BPF_RINGBUF_HDR_SZ + 7) \div 8) * 8

\* Mutant: the length is not rounded up to 8 bytes.
roundup_len_NoRounding(len) == len + BPF_RINGBUF_HDR_SZ

\* The flag bits are fields of their own, so the shifts that clear them out
\* of the length have nothing left to do.
roundup_len(len) == ((len + BPF_RINGBUF_HDR_SZ + 7) \div 8) * 8

\* A cell is a byte of record rec; the first one of a record stands for the
\* header word.  Every other byte reads as a length of 0 without flags.
HdrCell(i, len) ==
  [rec |-> i, hdr |-> TRUE, len |-> len, busy |-> TRUE, discard |-> FALSE]
DataCell(i) ==
  [rec |-> i, hdr |-> FALSE, len |-> 0, busy |-> FALSE, discard |-> FALSE]

Cell == [rec : Nat, hdr : BOOLEAN, len : Nat, busy : BOOLEAN, discard : BOOLEAN]

Record == [start : Nat, len : Nat,
           st : {"busy", "committed", "discarded"}]

\* Position (not wrapped) just after the i-th record; 0 before the first.
End(i) == IF i = 0 THEN 0 ELSE log[i].start + KernelTotal(log[i].len)
Tail_ == End(Len(log))

\* Distance from position p forward to the byte at offset o of the data area.
Dist(o, p) == (o - p) % Size

\* A pointer difference of two unsigned longs.
Sub(a, b) == (a - b) % PosMod

------------------------------------------------------------------------------
(* The kernel's side, external: bpf_ringbuf_reserve, _submit and _discard. *)

\* A producer gets space only if everything not yet released still fits.
KernelReserve ==
  /\ Len(log) < MaxRecs
  /\ \E len \in Lens :
       LET total == KernelTotal(len)
           i == Len(log) + 1
       IN /\ Sub(producer_pos, consumer_pos) + total <= Size
          /\ mem' = [o \in 0..(Size - 1) |->
                       IF Dist(o, producer_pos) = 0 THEN HdrCell(i, len)
                       ELSE IF Dist(o, producer_pos) < total THEN DataCell(i)
                       ELSE mem[o]]
          /\ producer_pos' = (producer_pos + total) % PosMod
          /\ log' = Append(log, [start |-> Tail_, len |-> len, st |-> "busy"])
  /\ UNCHANGED <<consumer_pos, localVars, rd, released, delivered, backlog>>

\* A record is resolved once, in any order: the busy bit is cleared and the
\* discard bit set or not, in one exchange of the header word.
KernelCommit ==
  /\ \E i \in 1..Len(log), disc \in BOOLEAN :
       /\ log[i].st = "busy"
       /\ mem' = [mem EXCEPT ![log[i].start % Size] =
                    [@ EXCEPT !.busy = FALSE, !.discard = disc]]
       /\ log' = [log EXCEPT ![i] =
                    [@ EXCEPT !.st = IF disc THEN "discarded" ELSE "committed"]]
  /\ UNCHANGED <<consumer_pos, producer_pos, localVars, rd, released, delivered, backlog>>

------------------------------------------------------------------------------
(* ringbuf_process_ring *)

\* The records a call finds resolved with nothing unresolved before them.
ResolvedPrefix ==
  {i \in 0..Len(log) : \A j \in 1..i : log[j].st # "busy"}

\* smp_load_acquire(r->consumer_pos)
Start ==
  /\ pc = "idle"
  /\ backlog' \in {i \in ResolvedPrefix : \A j \in ResolvedPrefix : j <= i}
  /\ n' \in Ns
  /\ cnt' = 0
  /\ cons_pos' = consumer_pos
  /\ pc' = "load_prod"
  /\ UNCHANGED <<kernelVars, consumer_pos, prod_pos, got_new_data, ret,
                 rd, released, delivered>>

\* Top of the do loop: smp_load_acquire(r->producer_pos)
LoadProd ==
  /\ pc = "load_prod"
  /\ got_new_data' = FALSE
  /\ prod_pos' = producer_pos
  /\ pc' = "loop"
  /\ UNCHANGED <<kernelVars, consumer_pos, cons_pos, cnt, n, ret,
                 rd, released, delivered, backlog>>

Pending == Sub(prod_pos, cons_pos) > 0

\* The header word the inner loop reads.
CurHdr == mem[cons_pos % Size]

\* Mutant: any flag bit is taken for the busy bit.
LoadHdrBusy_AnyFlag ==
  /\ pc = "loop" /\ Pending
  /\ CurHdr.busy \/ CurHdr.discard
  /\ ret' = cnt
  /\ pc' = "idle"
  /\ UNCHANGED <<kernelVars, consumer_pos, cons_pos, prod_pos, got_new_data,
                 cnt, n, rd, released, delivered, backlog>>

\* The record is still busy: goto done.
LoadHdrBusy ==
  /\ pc = "loop" /\ Pending
  /\ CurHdr.busy
  /\ ret' = cnt
  /\ pc' = "idle"
  /\ UNCHANGED <<kernelVars, consumer_pos, cons_pos, prod_pos, got_new_data,
                 cnt, n, rd, released, delivered, backlog>>

\* Mutant: the discard bit is ignored.
LoadHdr_IgnoreDiscard ==
  /\ pc = "loop" /\ Pending
  /\ ~CurHdr.busy
  /\ got_new_data' = TRUE
  /\ cons_pos' = (cons_pos + roundup_len(CurHdr.len)) % PosMod
  /\ rd' = rd + 1
  /\ pc' = "sample_cb" /\ delivered' = Append(delivered, CurHdr.rec)
  /\ UNCHANGED <<kernelVars, consumer_pos, prod_pos, cnt, n, ret, released,
                 backlog>>

\* Mutant: consumer_pos is published before the callback runs.
LoadHdr_StoreEarly ==
  /\ pc = "loop" /\ Pending
  /\ ~CurHdr.busy
  /\ got_new_data' = TRUE
  /\ cons_pos' = (cons_pos + roundup_len(CurHdr.len)) % PosMod
  /\ rd' = rd + 1
  /\ IF CurHdr.discard
       THEN pc' = "store" /\ UNCHANGED delivered
       ELSE pc' = "sample_cb" /\ delivered' = Append(delivered, CurHdr.rec)
  /\ consumer_pos' = cons_pos' /\ released' = rd'
  /\ UNCHANGED <<kernelVars, prod_pos, cnt, n, ret, backlog>>

\* A discarded record is stepped over, a committed one goes to the callback.
LoadHdr ==
  /\ pc = "loop" /\ Pending
  /\ ~CurHdr.busy
  /\ got_new_data' = TRUE
  /\ cons_pos' = (cons_pos + roundup_len(CurHdr.len)) % PosMod
  /\ rd' = rd + 1
  /\ IF CurHdr.discard
       THEN pc' = "store" /\ UNCHANGED delivered
       ELSE pc' = "sample_cb" /\ delivered' = Append(delivered, CurHdr.rec)
  /\ UNCHANGED <<kernelVars, consumer_pos, prod_pos, cnt, n, ret, released,
                 backlog>>

\* sample_cb returned a value >= 0
CallbackOk ==
  /\ pc = "sample_cb"
  /\ cnt' = cnt + 1
  /\ pc' = "store"
  /\ UNCHANGED <<kernelVars, consumer_pos, cons_pos, prod_pos, got_new_data,
                 n, ret, rd, released, delivered, backlog>>

\* sample_cb returned an error
CallbackErr ==
  /\ pc = "sample_cb"
  /\ pc' = "store_err"
  /\ UNCHANGED <<kernelVars, consumer_pos, cons_pos, prod_pos, got_new_data,
                 cnt, n, ret, rd, released, delivered, backlog>>

\* smp_store_release(r->consumer_pos, cons_pos), then the test of cnt
Store ==
  /\ pc = "store"
  /\ consumer_pos' = cons_pos
  /\ released' = rd
  /\ IF cnt >= n THEN pc' = "idle" /\ ret' = cnt
                 ELSE pc' = "loop" /\ UNCHANGED ret
  /\ UNCHANGED <<kernelVars, cons_pos, prod_pos, got_new_data, cnt, n,
                 rd, delivered, backlog>>

\* Mutant: the error path returns without storing consumer_pos.
StoreErr_Forgets ==
  /\ pc = "store_err"
  /\ ret' = -1
  /\ pc' = "idle"
  /\ UNCHANGED <<kernelVars, consumer_pos, cons_pos, prod_pos, got_new_data,
                 cnt, n, rd, released, delivered, backlog>>

\* The same store on the error path; the record counts as consumed.
StoreErr ==
  /\ pc = "store_err"
  /\ consumer_pos' = cons_pos
  /\ released' = rd
  /\ ret' = -1
  /\ pc' = "idle"
  /\ UNCHANGED <<kernelVars, cons_pos, prod_pos, got_new_data, cnt, n,
                 rd, delivered, backlog>>

\* The inner loop ran dry: once more around if it found anything.
LoopEnd ==
  /\ pc = "loop" /\ ~Pending
  /\ IF got_new_data THEN pc' = "load_prod" /\ UNCHANGED ret
                     ELSE pc' = "idle" /\ ret' = cnt
  /\ UNCHANGED <<kernelVars, consumer_pos, cons_pos, prod_pos, got_new_data,
                 cnt, n, rd, released, delivered, backlog>>

------------------------------------------------------------------------------
Init ==
  /\ mem = [o \in 0..(Size - 1) |-> DataCell(0)]
  /\ consumer_pos = 0 /\ producer_pos = 0
  /\ pc = "idle"
  /\ cons_pos = 0 /\ prod_pos = 0 /\ got_new_data = FALSE
  /\ cnt = 0 /\ n \in Ns /\ ret = 0
  /\ log = <<>> /\ rd = 0 /\ released = 0 /\ delivered = <<>> /\ backlog = 0

Kernel == KernelReserve \/ KernelCommit

\* Everything ringbuf_process_ring does once it is running.
Consumer ==
  \/ LoadProd \/ LoadHdrBusy \/ LoadHdr \/ CallbackOk \/ CallbackErr
  \/ Store \/ StoreErr \/ LoopEnd

Next == Kernel \/ Start \/ Consumer

Spec == Init /\ [][Next]_vars

\* The application keeps calling the consumer and its callback returns;
\* nothing is assumed of the producers.
FairSpec == Spec /\ WF_vars(Start) /\ WF_vars(Consumer)
------------------------------------------------------------------------------
(* Properties *)

TypeOK ==
  /\ mem \in [0..(Size - 1) -> Cell]
  /\ consumer_pos \in 0..(PosMod - 1)
  /\ producer_pos \in 0..(PosMod - 1)
  /\ pc \in {"idle", "load_prod", "loop", "sample_cb", "store", "store_err"}
  /\ cons_pos \in 0..(PosMod - 1)
  /\ prod_pos \in 0..(PosMod - 1)
  /\ got_new_data \in BOOLEAN
  /\ cnt \in Nat
  /\ n \in Ns
  /\ ret \in Int
  /\ log \in Seq(Record)
  /\ rd \in 0..Len(log)
  /\ released \in 0..rd
  /\ delivered \in Seq(Nat)
  /\ backlog \in Nat

\* The bytes of record i, header included, are in the data area and nothing
\* else has been written over them.
Intact(i) ==
  \A o \in 0..(Size - 1) :
    LET d == Dist(o, log[i].start)
    IN d < KernelTotal(log[i].len) => mem[o].rec = i /\ (mem[o].hdr <=> d = 0)

\* The callback was handed exactly the committed records among those the
\* consumer has moved past, once each and in reservation order: the header
\* words read through wrapped positions always were the right ones.
InOrderExactlyOnce ==
  /\ \A a, b \in 1..Len(delivered) : a < b => delivered[a] < delivered[b]
  /\ {delivered[a] : a \in 1..Len(delivered)}
       = {i \in 1..rd : log[i].st = "committed"}

\* While sample_cb runs, no byte of its sample is overwritten: the space is
\* released to the producers only by the store that follows the callback.
NoTornSample ==
  pc \in {"sample_cb", "store", "store_err"} => Intact(rd)

\* Whenever the inner loop reads a length word, it is the header of the first
\* record not looked at yet: cons_pos is never inside or past a record.
DecodesHeader ==
  pc = "loop" /\ Pending =>
    /\ rd < Len(log)
    /\ CurHdr.hdr /\ CurHdr.rec = rd + 1 /\ CurHdr.len = log[rd + 1].len

\* consumer_pos trails producer_pos by exactly the bytes of the records not
\* yet released, never by more than the ring, also when both have wrapped.
PositionsAgree ==
  /\ Sub(producer_pos, consumer_pos) = Tail_ - End(released)
  /\ Sub(producer_pos, consumer_pos) <= Size

\* No call hands more than n records to the callback (n >= 1).
NeverMoreThanN == n >= 1 => cnt <= n

\* A call that returns without an error and below its limit has consumed
\* every record that was resolved, with nothing unresolved before it, when
\* the call began: neither a discarded record nor a wrap stops it early.
DrainsBacklog ==
  pc = "idle" /\ ret >= 0 /\ cnt < n => released >= backlog

\* The ring implements the queue of records.
Queue == INSTANCE RingQueue WITH
  recs <- [i \in 1..Len(log) |-> log[i].st], taken <- rd
QueueSpec == Queue!QueueSpec

\* Every record that is resolved, and whose predecessors are, is consumed in
\* the end, whatever the producers do afterwards and whatever the callbacks
\* return.
EventuallyConsumed ==
  \A i \in 1..MaxRecs : i \in ResolvedPrefix ~> released >= i
------------------------------------------------------------------------------
(* The inductive invariant behind the safety properties. *)

\* The header word of record i as its producer last wrote it.
HdrOf(i) ==
  [rec |-> i, hdr |-> TRUE, len |-> log[i].len,
   busy |-> log[i].st = "busy", discard |-> log[i].st = "discarded"]

\* Records follow each other without gaps, in reservation order.
LogContiguous ==
  /\ \A i \in 1..Len(log) : log[i].start = End(i - 1)
  /\ \A i, j \in 1..Len(log) : i < j => End(i) <= log[j].start

\* The wrapped positions stand for record boundaries of the log.
PositionsInv ==
  /\ consumer_pos = End(released) % PosMod
  /\ producer_pos = Tail_ % PosMod
  /\ Tail_ - End(released) <= Size
  /\ pc # "idle" => cons_pos = End(rd) % PosMod
  /\ pc \in {"loop", "sample_cb", "store", "store_err"} =>
       \E p \in rd..Len(log) : p >= backlog /\ prod_pos = End(p) % PosMod

\* Every record not yet released is in the data area as it was written.
MemoryInv ==
  \A i \in (released + 1)..Len(log), o \in 0..(Size - 1) :
    Dist(o, log[i].start) < KernelTotal(log[i].len) =>
      mem[o] = IF Dist(o, log[i].start) = 0 THEN HdrOf(i) ELSE DataCell(i)

\* The consumer holds at most one record, and has passed only resolved ones.
ConsumerInv ==
  /\ pc \in {"idle", "load_prod", "loop"} => released = rd
  /\ pc \in {"sample_cb", "store", "store_err"} => released = rd - 1
  /\ \A i \in 1..rd : log[i].st # "busy"
  /\ pc \in {"load_prod", "loop", "sample_cb"} /\ n >= 1 => cnt < n
  /\ n >= 1 => cnt <= n
  /\ backlog \in 0..Len(log)
  /\ \A i \in 1..backlog : log[i].st # "busy"

\* Inductive: every step preserves it, and it implies NoTornSample,
\* DecodesHeader, PositionsAgree and NeverMoreThanN.
RingInv ==
  /\ TypeOK
  /\ LogContiguous
  /\ PositionsInv
  /\ MemoryInv
  /\ ConsumerInv
  /\ InOrderExactlyOnce
  /\ DrainsBacklog
=============================================================================

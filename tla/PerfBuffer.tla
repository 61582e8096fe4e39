------------------------------ MODULE PerfBuffer ------------------------------
(***************************************************************************)
(* perf_buffer: one perf ring per CPU behind a PERF_EVENT_ARRAY map, opened *)
(* CPU by CPU with its error paths, read by polling or by consuming, and   *)
(* freed, while BPF programs keep writing records.                         *)
(*                                                                         *)
(* A ring holds Size units of eight bytes; a record takes some units, may  *)
(* cross the end of the ring and is then put together in a copy.  The      *)
(* 64-bit positions only grow.  A cell holds the number of the record it   *)
(* belongs to and its offset in the record.                                *)
(***************************************************************************)
EXTENDS Integers, Sequences, FiniteSets, SequencesExt

CONSTANTS
  CPUs,        \* possible CPUs, numbered from 0
  MaxEntries,  \* max_entries of the map
  Explicit,    \* cpus and map_keys of perf_buffer__new_raw(), or <<>>
  Size,        \* pb->mmap_size
  Sizes,       \* sizes of the records programs write
  Types,       \* their types: "sample", or "other" for one libbpf does not know
  LostSize,    \* size of a PERF_RECORD_LOST
  MaxRecs      \* bound: records written or lost in a behaviour

ASSUME PerfAssumption ==
  /\ CPUs = 0 .. (Cardinality(CPUs) - 1)
  /\ Size \in Nat \ {0} /\ Sizes \subseteq 1 .. Size /\ LostSize \in 1 .. Size

VARIABLES
  online,     \* the CPUs that are online
  raw,        \* is there an event_cb?
  pc,         \* where the library stands
  i,          \* CPU slots perf_buffer__new() has dealt with
  cpu_bufs,   \* pb->cpu_bufs up to the last one allocated: cpu, key, copy buffer
  cpu_cnt,    \* those that are complete
  map,        \* the map: key -> CPU whose perf event is there
  epoll,      \* CPUs whose perf event is in the epoll set
  ring,       \* CPU -> its perf event's ring; <<>> while there is no event
  todo,       \* indexes of cpu_bufs still to be read by the call
  rd,         \* perf_event_read_simple(): data_head, data_tail
  written,    \* history: CPU -> types of the records put in its ring so far
  seen,       \* history: CPU -> number of each record its callback got
  behind,     \* history: CPUs whose records a call left unread on the way out
  budget      \* records still to be written

setupVars == <<online, raw, i, cpu_bufs, cpu_cnt, map, epoll>>
histVars == <<written, seen, behind>>
vars == <<setupVars, pc, ring, todo, rd, histVars, budget>>

\* Not a cell of any record: what fresh memory holds.
Blank == [rec |-> 0, off |-> 0, size |-> 0, type |-> "none"]

NewRing == [head |-> 0, tail |-> 0, cells |-> [x \in 0 .. (Size - 1) |-> Blank],
            lost |-> 0, wake |-> FALSE, poll |-> FALSE]

NoRead == [head |-> 0, tail |-> 0, ret |-> "cont"]

HasEvent(c) == ring[c] # <<>>

------------------------------------------------------------------------------
(* The kernel, external: bpf_perf_event_output() and perf_poll() *)

\* Record number rec, of the given size and type, at position pos.
Stored(cells, pos, rec, size, type) ==
  [x \in DOMAIN cells |->
     LET off == (x - pos) % Size
     IN  IF off < size THEN [rec |-> rec, off |-> off, size |-> size, type |-> type]
         ELSE cells[x]]

\* A record goes in only if the reader has left more room than it takes; the
\* record after some that were lost brings a PERF_RECORD_LOST with it.
KernelOutput(key, size, type) ==
  /\ key \in DOMAIN map /\ budget > 0
  /\ LET c == map[key]
         r == ring[c]
         n == Len(written[c])
         lead == IF r.lost > 0 THEN LostSize ELSE 0
         room == Size - (r.head - r.tail)
     IN  IF lead + size < room
         THEN IF lead = 0
              THEN /\ ring' = [ring EXCEPT ![c].head = @ + size, ![c].wake = TRUE,
                                 ![c].cells = Stored(@, r.head, n + 1, size, type)]
                   /\ written' = [written EXCEPT ![c] = Append(@, type)]
              ELSE /\ ring' = [ring EXCEPT ![c].head = @ + lead + size,
                                 ![c].wake = TRUE, ![c].lost = 0,
                                 ![c].cells = Stored(Stored(@, r.head, n + 1, lead, "lost"),
                                                     r.head + lead, n + 2, size, type)]
                   /\ written' = [written EXCEPT ![c] = @ \o <<"lost", type>>]
         ELSE /\ ring' = [ring EXCEPT ![c].lost = @ + 1]
              /\ UNCHANGED written
  /\ budget' = budget - 1
  /\ UNCHANGED <<setupVars, pc, todo, rd, seen, behind>>

\* The wakeup of a record comes after data_head is published.
KernelWake(c) ==
  /\ HasEvent(c) /\ ring[c].wake
  /\ ring' = [ring EXCEPT ![c].wake = FALSE, ![c].poll = TRUE]
  /\ UNCHANGED <<setupVars, pc, todo, rd, histVars, budget>>

------------------------------------------------------------------------------
(* __perf_buffer__new() and perf_buffer__free() *)

Slots ==
  IF Explicit # <<>> THEN Explicit
  ELSE [x \in 1 .. (IF MaxEntries < Cardinality(CPUs) THEN MaxEntries
                    ELSE Cardinality(CPUs)) |-> [cpu |-> x - 1, key |-> x - 1]]

New ==
  /\ pc = "none"
  /\ pc' = "open"
  /\ UNCHANGED <<setupVars, ring, todo, rd, histVars, budget>>

SkipOffline ==
  /\ pc = "open" /\ i < Len(Slots)
  /\ Explicit = <<>> /\ Slots[i + 1].cpu \notin online
  /\ i' = i + 1
  /\ UNCHANGED <<online, raw, pc, cpu_bufs, cpu_cnt, map, epoll, ring, todo, rd,
                 histVars, budget>>

Opening == pc = "open" /\ i < Len(Slots)
           /\ (Explicit # <<>> \/ Slots[i + 1].cpu \in online)

\* perf_buffer__open_cpu_buf(): the event is open, mapped and enabled.
OpenCpuBuf ==
  /\ Opening
  /\ LET s == Slots[i + 1]
     IN  /\ cpu_bufs' = Append(cpu_bufs, [cpu |-> s.cpu, key |-> s.key, buf |-> <<>>])
         /\ ring' = [ring EXCEPT ![s.cpu] = NewRing]
  /\ pc' = "map"
  /\ UNCHANGED <<online, raw, i, cpu_cnt, map, epoll, todo, rd, histVars, budget>>

MapUpdate ==
  /\ pc = "map"
  /\ LET b == Last(cpu_bufs)
     IN  map' = [k \in DOMAIN map \cup {b.key} |-> IF k = b.key THEN b.cpu ELSE map[k]]
  /\ pc' = "epoll"
  /\ UNCHANGED <<online, raw, i, cpu_bufs, cpu_cnt, epoll, ring, todo, rd,
                 histVars, budget>>

EpollAdd ==
  /\ pc = "epoll"
  /\ epoll' = epoll \cup {Last(cpu_bufs).cpu}
  /\ cpu_cnt' = cpu_cnt + 1 /\ i' = i + 1
  /\ pc' = "open"
  /\ UNCHANGED <<online, raw, cpu_bufs, map, ring, todo, rd, histVars, budget>>

NewDone ==
  /\ pc = "open" /\ i = Len(Slots)
  /\ pc' = "idle"
  /\ UNCHANGED <<setupVars, ring, todo, rd, histVars, budget>>

\* Mutant: only the complete buffers are freed.
NewFails_Counted ==
  /\ Opening \/ pc \in {"map", "epoll"}
  /\ pc' = "free"
  /\ cpu_bufs' = SubSeq(cpu_bufs, 1, cpu_cnt)
  /\ UNCHANGED <<online, raw, i, cpu_cnt, map, epoll, ring, todo, rd, histVars, budget>>

\* Any of the calls fails.  What open_cpu_buf() had done it has undone itself;
\* the buffers in cpu_bufs are left to perf_buffer__free(), which goes through
\* all the slots, cpu_cnt not having been lowered yet.
NewFails ==
  /\ Opening \/ pc \in {"map", "epoll"}
  /\ pc' = "free"
  /\ UNCHANGED <<setupVars, ring, todo, rd, histVars, budget>>

Free ==
  /\ pc = "idle"
  /\ pc' = "free"
  /\ UNCHANGED <<setupVars, ring, todo, rd, histVars, budget>>

\* The key goes from the map before the event is closed.
FreeUnmap ==
  /\ pc = "free" /\ cpu_bufs # <<>>
  /\ map' = [k \in DOMAIN map \ {Head(cpu_bufs).key} |-> map[k]]
  /\ pc' = "free_buf"
  /\ UNCHANGED <<online, raw, i, cpu_bufs, cpu_cnt, epoll, ring, todo, rd,
                 histVars, budget>>

FreeCpuBuf ==
  /\ pc = "free_buf"
  /\ LET c == Head(cpu_bufs).cpu
     IN  /\ ring' = [ring EXCEPT ![c] = <<>>]
         /\ epoll' = epoll \ {c}
         /\ written' = [written EXCEPT ![c] = <<>>]
         /\ seen' = [seen EXCEPT ![c] = <<>>]
         /\ behind' = behind \ {c}
  /\ cpu_bufs' = Tail(cpu_bufs)
  /\ pc' = "free"
  /\ UNCHANGED <<online, raw, i, cpu_cnt, map, todo, rd, budget>>

FreeDone ==
  /\ pc = "free" /\ cpu_bufs = <<>>
  /\ pc' = "none" /\ cpu_cnt' = 0 /\ i' = 0
  /\ UNCHANGED <<online, raw, cpu_bufs, map, epoll, ring, todo, rd, histVars,
                 budget>>

------------------------------------------------------------------------------
(* perf_buffer__poll(), perf_buffer__consume(), perf_buffer__consume_buffer() *)

\* epoll_wait() asks each event for its state, which perf_poll() answers by
\* clearing rb->poll; several events may be ready, in any order.
Poll ==
  /\ pc = "idle"
  /\ LET ready == {c \in epoll : ring[c].poll}
     IN  /\ ring' = [c \in CPUs |-> IF c \in ready THEN [ring[c] EXCEPT !.poll = FALSE]
                                    ELSE ring[c]]
         /\ todo' \in SetToSeqs({k \in DOMAIN cpu_bufs : cpu_bufs[k].cpu \in ready})
  /\ pc' = "read"
  /\ UNCHANGED <<setupVars, rd, histVars, budget>>

Consume ==
  /\ pc = "idle"
  /\ todo' = [k \in 1 .. cpu_cnt |-> k]
  /\ pc' = "read"
  /\ UNCHANGED <<setupVars, ring, rd, histVars, budget>>

ConsumeBuffer(k) ==
  /\ pc = "idle" /\ k <= cpu_cnt
  /\ todo' = <<k>>
  /\ pc' = "read"
  /\ UNCHANGED <<setupVars, ring, rd, histVars, budget>>

Cur == cpu_bufs[Head(todo)]

ReadHead ==
  /\ pc = "read" /\ todo # <<>>
  /\ rd' = [head |-> ring[Cur.cpu].head, tail |-> ring[Cur.cpu].tail, ret |-> "cont"]
  /\ pc' = "loop"
  /\ UNCHANGED <<setupVars, ring, todo, histVars, budget>>

Off == rd.tail % Size
Ehdr == ring[Cur.cpu].cells[Off]
Crosses == Off + Ehdr.size > Size

\* The record crosses the end of the ring: it is put together in cpu_buf->buf,
\* which grows if it has to.
Copy ==
  /\ pc = "loop" /\ rd.head # rd.tail /\ Crosses
  /\ cpu_bufs' = [cpu_bufs EXCEPT ![Head(todo)].buf =
       [x \in 1 .. (IF Len(@) < Ehdr.size THEN Ehdr.size ELSE Len(@)) |->
          IF x <= Ehdr.size THEN ring[Cur.cpu].cells[(Off + x - 1) % Size] ELSE @[x]]]
  /\ pc' = "copied"
  /\ UNCHANGED <<online, raw, i, cpu_cnt, map, epoll, ring, todo, rd, histVars,
                 budget>>

\* Mutant: the record that could not be copied is skipped.
CopyFails_Skips ==
  /\ pc = "loop" /\ rd.head # rd.tail /\ Crosses /\ Len(Cur.buf) < Ehdr.size
  /\ cpu_bufs' = [cpu_bufs EXCEPT ![Head(todo)].buf = <<>>]
  /\ rd' = [rd EXCEPT !.tail = @ + Ehdr.size, !.ret = "error"]
  /\ pc' = "stop"
  /\ UNCHANGED <<online, raw, i, cpu_cnt, map, epoll, ring, todo, histVars, budget>>

\* It cannot grow: the old buffer is gone and the record stays unread.
CopyFails ==
  /\ pc = "loop" /\ rd.head # rd.tail /\ Crosses /\ Len(Cur.buf) < Ehdr.size
  /\ cpu_bufs' = [cpu_bufs EXCEPT ![Head(todo)].buf = <<>>]
  /\ rd' = [rd EXCEPT !.ret = "error"]
  /\ pc' = "stop"
  /\ UNCHANGED <<online, raw, i, cpu_cnt, map, epoll, ring, todo, histVars, budget>>

\* The bytes the callback gets to see.
Record == IF pc = "copied" THEN Cur.buf
          ELSE [x \in 1 .. Ehdr.size |-> ring[Cur.cpu].cells[Off + x - 1]]

\* The record they are, 0 if they are not all of one record.
Whole(bytes) ==
  IF \A x \in 1 .. bytes[1].size :
       bytes[x] = [bytes[1] EXCEPT !.off = x - 1]
  THEN bytes[1].rec ELSE 0

\* perf_buffer__process_record(): what it returns.
ProcessRecord(type) ==
  IF raw THEN {"cont", "done", "error"}
  ELSE IF type \in {"sample", "lost"} THEN {"cont"} ELSE {"error"}

\* Mutant: the loop ends after one record.
Callback_One ==
  /\ (pc = "loop" /\ rd.head # rd.tail /\ ~Crosses) \/ pc = "copied"
  /\ seen' = [seen EXCEPT ![Cur.cpu] = Append(@, Whole(Record))]
  /\ \E ret \in ProcessRecord(Record[1].type) :
       rd' = [rd EXCEPT !.tail = @ + Record[1].size, !.ret = ret]
  /\ pc' = "stop"
  /\ UNCHANGED <<setupVars, ring, todo, written, behind, budget>>

Callback ==
  /\ (pc = "loop" /\ rd.head # rd.tail /\ ~Crosses) \/ pc = "copied"
  /\ seen' = [seen EXCEPT ![Cur.cpu] = Append(@, Whole(Record))]
  /\ \E ret \in ProcessRecord(Record[1].type) :
       /\ rd' = [rd EXCEPT !.tail = @ + Record[1].size, !.ret = ret]
       /\ pc' = IF ret = "cont" THEN "loop" ELSE "stop"
  /\ UNCHANGED <<setupVars, ring, todo, written, behind, budget>>

\* ring_buffer_write_tail(), and back to the caller: an error ends the call,
\* with the remaining buffers unread.
WriteTail ==
  /\ (pc = "loop" /\ rd.head = rd.tail) \/ pc = "stop"
  /\ ring' = [ring EXCEPT ![Cur.cpu].tail = rd.tail]
  /\ todo' = IF rd.ret = "error" THEN <<>> ELSE Tail(todo)
  /\ behind' = IF rd.ret = "error" THEN behind \cup {cpu_bufs[k].cpu : k \in ToSet(todo)}
               ELSE IF rd.ret = "done" THEN behind \cup {Cur.cpu}
               ELSE behind \ {Cur.cpu}
  /\ pc' = "read" /\ rd' = NoRead
  /\ UNCHANGED <<setupVars, written, seen, budget>>

Return ==
  /\ pc = "read" /\ todo = <<>>
  /\ pc' = "idle"
  /\ UNCHANGED <<setupVars, ring, todo, rd, histVars, budget>>

------------------------------------------------------------------------------

Init ==
  /\ online \in SUBSET CPUs /\ raw \in BOOLEAN
  /\ pc = "none" /\ i = 0 /\ cpu_bufs = <<>> /\ cpu_cnt = 0
  /\ map = [k \in {} |-> 0] /\ epoll = {}
  /\ ring = [c \in CPUs |-> <<>>]
  /\ todo = <<>> /\ rd = NoRead
  /\ written = [c \in CPUs |-> <<>>] /\ seen = [c \in CPUs |-> <<>>]
  /\ behind = {} /\ budget = MaxRecs

Next ==
  \/ \E key \in DOMAIN map, size \in Sizes, type \in Types : KernelOutput(key, size, type)
  \/ \E c \in CPUs : KernelWake(c)
  \/ New \/ SkipOffline \/ OpenCpuBuf \/ MapUpdate \/ EpollAdd \/ NewDone \/ NewFails
  \/ Free \/ FreeUnmap \/ FreeCpuBuf \/ FreeDone
  \/ Poll \/ Consume \/ (\E k \in 1 .. Cardinality(CPUs) : ConsumeBuffer(k))
  \/ ReadHead \/ Copy \/ CopyFails \/ Callback \/ WriteTail \/ Return

Spec == Init /\ [][Next]_vars

------------------------------------------------------------------------------

\* The callback of a CPU has got the records of that CPU's ring, each of them
\* whole, once and in order, also when a record crosses the end, a copy could
\* not be allocated, a callback stopped the loop or the ring overflowed.
WholeInOrder ==
  \A c \in CPUs : /\ Len(seen[c]) <= Len(written[c])
                  /\ \A k \in DOMAIN seen[c] : seen[c][k] = k

\* Between calls, records that nothing will signal any more were left behind
\* by a call that stopped early: perf_poll() says only once that there are
\* records.
NoMissedWakeup ==
  pc = "idle" =>
    \A c \in epoll : ring[c].head # ring[c].tail =>
      ring[c].wake \/ ring[c].poll \/ c \in behind

\* Programs only ever write into the ring of a buffer the application has, and
\* without a perf_buffer there is no entry in the map and no open event: also
\* when creating one failed half way.
NothingLeft ==
  LET owned == {cpu_bufs[k].cpu : k \in DOMAIN cpu_bufs}
  IN  /\ \A k \in DOMAIN map : \E b \in ToSet(cpu_bufs) : b.key = k /\ b.cpu = map[k]
      /\ {c \in CPUs : HasEvent(c)} = owned
      /\ pc = "none" => cpu_bufs = <<>>
==============================================================================

----------------------------- MODULE RingManager -----------------------------
(***************************************************************************)
(* struct ring_buffer, the manager of several BPF ring buffers: adding a   *)
(* ring step by step with its error paths, freeing, consuming from all     *)
(* rings with and without a limit, and polling through epoll while kernel  *)
(* producers reserve and commit.                                           *)
(*                                                                         *)
(* A ring is the sequence of its records between the consumer and the      *)
(* producer position, "busy" or "done".  One ringbuf_process_ring() is one *)
(* step here: module RingBuf is about what happens inside it.  A size_t    *)
(* wraps at SizeMod.                                                       *)
(***************************************************************************)
EXTENDS Integers, Sequences, FiniteSets, SequencesExt

CONSTANTS
  Fds,       \* file descriptors of BPF_MAP_TYPE_RINGBUF maps
  SizeMod,   \* 2^(bits of a size_t)
  Ns,        \* arguments of ring_buffer__consume_n()
  MaxRecs    \* bound: records reserved in a behaviour

INT_MAX == SizeMod \div 2 - 1

ASSUME ManagerAssumption ==
  /\ SizeMod \in Nat /\ SizeMod >= 2 /\ Ns \subseteq 0 .. (SizeMod - 1)
  /\ MaxRecs \in Nat

VARIABLES
  pc,          \* "none" while there is no manager, "idle", "add", "consume_n",
               \* "consume" or "poll"
  rings,       \* rb->rings[0 .. ring_cnt - 1]: map_fd and mapped pages
  new,         \* the ring ring_buffer__add() is at work on, or <<>>
  mappings,    \* pages the process has mapped
  event,       \* epoll: descriptor -> data.fd of its event, -1 if not added
  ready,       \* epoll: the ready list
  queue,       \* descriptor -> the records between the two positions
  todo,        \* indexes of the rings the call still has to process
  n, left, res,  \* the argument n, n as counted down, and res
  ret,         \* what the last consume or poll returned, -1 for an error
  reserved     \* records reserved so far

setupVars == <<rings, new, mappings, event>>
callVars == <<todo, n, left, res, ret>>
vars == <<pc, setupVars, ready, queue, callVars, reserved>>

ring_cnt == Len(rings)

------------------------------------------------------------------------------
(* The kernel side, external: producers and epoll's ready list *)

KernelReserve(f) ==
  /\ reserved < MaxRecs
  /\ queue' = [queue EXCEPT ![f] = Append(@, "busy")]
  /\ reserved' = reserved + 1
  /\ UNCHANGED <<pc, setupVars, ready, callVars>>

\* A commit wakes waiters only if the consumer has caught up to the record.
KernelCommit(f) ==
  \E i \in DOMAIN queue[f] :
    /\ queue[f][i] = "busy"
    /\ queue' = [queue EXCEPT ![f][i] = "done"]
    /\ ready' = IF i = 1 /\ event[f] # -1 THEN ready \cup {f} ELSE ready
    /\ UNCHANGED <<pc, setupVars, callVars, reserved>>

\* epoll asks a ring on its ready list whether it really has data.
HasData(f) == queue[f] # <<>>

------------------------------------------------------------------------------
(* ring_buffer__new, ring_buffer__add and ring_buffer__free *)

\* ring_buffer__new() makes an epoll instance and adds the first ring;
\* ring_buffer__add() called later adds another.  What is refused before a
\* struct ring is allocated changes nothing.
Add(f) ==
  /\ pc \in {"none", "idle"} /\ new = <<>>
  /\ new' = <<[map_fd |-> f, pages |-> {}]>>
  /\ pc' = "add"
  /\ UNCHANGED <<rings, mappings, event, ready, queue, callVars, reserved>>

\* The consumer page is mapped first, then producer and data pages.
MapPages ==
  /\ pc = "add" /\ new[1].pages # {"cons", "prod"}
  /\ new' = [new EXCEPT ![1].pages =
               @ \cup {IF @ = {} THEN "cons" ELSE "prod"}]
  /\ mappings' = mappings + 1
  /\ UNCHANGED <<pc, rings, event, ready, queue, callVars, reserved>>

\* e->data.fd = rb->ring_cnt
EventId == ring_cnt

\* epoll accepts the descriptor, and the ring becomes part of the manager.
Register ==
  /\ pc = "add" /\ new[1].pages = {"cons", "prod"}
  /\ event[new[1].map_fd] = -1
  /\ event' = [event EXCEPT ![new[1].map_fd] = EventId]
  /\ ready' = IF HasData(new[1].map_fd) THEN ready \cup {new[1].map_fd} ELSE ready
  /\ rings' = Append(rings, new[1])
  /\ new' = <<>> /\ pc' = "idle"
  /\ UNCHANGED <<mappings, queue, callVars, reserved>>

\* Mutant: only the consumer page is unmapped.
ringbuf_free_ring_Cons(r) == Cardinality(r.pages \cap {"cons"})

\* ringbuf_free_ring(): the mappings it gives back.
ringbuf_free_ring(r) == Cardinality(r.pages)

\* A step of add fails: the ring is freed, and by ring_buffer__new() the
\* manager too.
AddFails ==
  /\ pc = "add"
  /\ mappings' = mappings - ringbuf_free_ring(new[1])
  /\ new' = <<>>
  /\ pc' = IF rings = <<>> THEN "none" ELSE "idle"
  /\ UNCHANGED <<rings, event, ready, queue, callVars, reserved>>

\* ring_buffer__free(): closing epoll_fd forgets every registration.
Free ==
  /\ pc = "idle"
  /\ mappings' = mappings - FoldSeq(LAMBDA r, sum : sum + ringbuf_free_ring(r),
                                    0, rings)
  /\ rings' = <<>>
  /\ event' = [f \in Fds |-> -1] /\ ready' = {}
  /\ pc' = "none"
  /\ UNCHANGED <<new, queue, callVars, reserved>>

------------------------------------------------------------------------------
(* Consuming *)

\* How many records ringbuf_process_ring() can consume: those before the
\* first busy one, and no more than limit, but one even if limit is 0.
Resolved(f) ==
  CHOOSE k \in 0 .. Len(queue[f]) :
    /\ \A i \in 1 .. k : queue[f][i] = "done"
    /\ k < Len(queue[f]) => queue[f][k + 1] = "busy"

Consumable(f, limit) ==
  LET k == Resolved(f) IN
  IF k <= limit THEN k ELSE IF limit = 0 THEN 1 ELSE limit

CallOverRings(call, limit) ==
  /\ pc = "idle"
  /\ n' = limit /\ left' = limit /\ res' = 0
  /\ todo' = [i \in 1 .. ring_cnt |-> i]
  /\ pc' = call
  /\ UNCHANGED <<setupVars, ready, queue, ret, reserved>>

\* Calls of ring_buffer__consume_n() and of ring_buffer__consume().
ConsumeN(limit) == CallOverRings("consume_n", limit)
Consume == CallOverRings("consume", INT_MAX)

\* Mutant: the limit is not counted down from ring to ring.
CountDown_Not(l, k) == l

\* n -= err, as a size_t
CountDown(l, k) == (l - k) % SizeMod

\* ring_buffer__consume_n() processes the next ring without an error.
ConsumeNRing ==
  /\ pc = "consume_n" /\ todo # <<>>
  /\ LET f == rings[Head(todo)].map_fd
         k == Consumable(f, left) IN
     /\ queue' = [queue EXCEPT ![f] = SubSeq(@, k + 1, Len(@))]
     /\ res' = res + k
     /\ left' = CountDown(left, k)
     /\ todo' = IF left' = 0 THEN <<>> ELSE Tail(todo)
  /\ UNCHANGED <<pc, setupVars, ready, n, ret, reserved>>

\* Mutant: rings are watched with EPOLLET.
PollWait_EdgeTriggered ==
  /\ pc = "idle"
  /\ ready' = {}
  /\ \E order \in SetToSeqs({f \in ready : HasData(f)}) :
       todo' = [i \in DOMAIN order |-> event[order[i]] + 1]
  /\ n' = INT_MAX /\ left' = INT_MAX /\ res' = 0
  /\ pc' = "poll"
  /\ UNCHANGED <<setupVars, queue, ret, reserved>>

\* epoll_wait() returns those of the ready rings that have data, and leaves
\* them on the list; with a timeout it may return none.
PollWait ==
  /\ pc = "idle"
  /\ LET found == {f \in ready : HasData(f)} IN
     /\ ready' = found
     /\ \E order \in SetToSeqs(found) :
          todo' = [i \in DOMAIN order |-> event[order[i]] + 1]
  /\ n' = INT_MAX /\ left' = INT_MAX /\ res' = 0
  /\ pc' = "poll"
  /\ UNCHANGED <<setupVars, queue, ret, reserved>>

\* ring_buffer__poll() and ring_buffer__consume() process the next ring; the
\* second stops once it has counted past INT_MAX.
ProcessRing ==
  /\ pc \in {"poll", "consume"} /\ todo # <<>>
  /\ LET f == rings[Head(todo)].map_fd
         k == Consumable(f, INT_MAX) IN
     /\ queue' = [queue EXCEPT ![f] = SubSeq(@, k + 1, Len(@))]
     /\ res' = res + k
  /\ todo' = IF pc = "consume" /\ res' > INT_MAX THEN <<>> ELSE Tail(todo)
  /\ UNCHANGED <<pc, setupVars, ready, n, left, ret, reserved>>

\* A callback fails: its record and those before it are consumed and the call
\* returns the error, leaving the remaining rings alone.
CallbackFails ==
  /\ pc \in {"consume_n", "consume", "poll"} /\ todo # <<>>
  /\ LET f == rings[Head(todo)].map_fd IN
     \E k \in 1 .. Consumable(f, left) :
       queue' = [queue EXCEPT ![f] = SubSeq(@, k + 1, Len(@))]
  /\ ret' = -1 /\ todo' = <<>> /\ pc' = "idle"
  /\ UNCHANGED <<setupVars, ready, n, left, res, reserved>>

Return ==
  /\ pc \in {"consume_n", "consume", "poll"} /\ todo = <<>>
  /\ ret' = IF res > INT_MAX THEN INT_MAX ELSE res
  /\ pc' = "idle"
  /\ UNCHANGED <<setupVars, ready, queue, todo, n, left, res, reserved>>

------------------------------------------------------------------------------
Init ==
  /\ pc = "none" /\ rings = <<>> /\ new = <<>> /\ mappings = 0
  /\ event = [f \in Fds |-> -1] /\ ready = {}
  /\ queue = [f \in Fds |-> <<>>]
  /\ todo = <<>> /\ n = 0 /\ left = 0 /\ res = 0 /\ ret = 0
  /\ reserved = 0

Commits == \E f \in Fds : KernelCommit(f)
Setup == (\E f \in Fds : Add(f)) \/ MapPages \/ Register \/ AddFails \/ Free
Serving == ConsumeNRing \/ ProcessRing \/ CallbackFails \/ Return

Next ==
  \/ (\E f \in Fds : KernelReserve(f)) \/ Commits
  \/ Setup
  \/ (\E limit \in Ns : ConsumeN(limit)) \/ Consume \/ PollWait
  \/ Serving

Spec == Init /\ [][Next]_vars

\* Calls in progress end, reserved records are committed, and the application
\* keeps calling ring_buffer__poll().
FairSpec ==
  /\ Spec
  /\ WF_vars(Commits) /\ WF_vars(Serving)
  /\ WF_vars(MapPages \/ Register \/ AddFails)
  /\ SF_vars(PollWait)

------------------------------------------------------------------------------
(* Properties *)

TypeOK ==
  /\ pc \in {"none", "idle", "add", "consume_n", "consume", "poll"}
  /\ (new = <<>>) = (pc # "add")
  /\ ready \subseteq {f \in Fds : event[f] # -1}
  /\ \A f \in Fds : event[f] \in -1 .. (ring_cnt - 1)
  /\ \A i \in DOMAIN todo : todo[i] \in 1 .. ring_cnt
  /\ left \in 0 .. (SizeMod - 1)
  /\ ret \in -1 .. INT_MAX

\* The pages the process has mapped are those of the rings it holds and of
\* the one it is adding: no error path and no free forgets one or unmaps one
\* twice.
NoStrayMapping ==
  mappings = FoldSeq(LAMBDA r, sum : sum + Cardinality(r.pages), 0, rings \o new)

\* ring_buffer__consume_n() consumes "up to n records" over all rings.
ConsumeUpToN == pc = "consume_n" => res <= n

\* A ring that epoll would not report has no record ready to be consumed,
\* although a commit wakes only when the consumer had caught up and records
\* may be left by errors and limits.
NoMissedWakeup ==
  \A f \in Fds : event[f] # -1 /\ f \notin ready => Resolved(f) = 0

\* An application that keeps polling drains every ring it has added.
EveryRingDrained ==
  \A f \in Fds : event[f] # -1 /\ HasData(f) ~> ~HasData(f) \/ event[f] = -1
==============================================================================

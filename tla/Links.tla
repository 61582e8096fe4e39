-------------------------------- MODULE Links --------------------------------
(***************************************************************************)
(* Links: attaching the programs and struct_ops maps of a loaded skeleton, *)
(* one by one and all together, and taking them down again, while other    *)
(* threads of the process open and close descriptors of their own.         *)
(*                                                                         *)
(* Every system call is a step.  Descriptors are numbers the kernel gives  *)
(* out again as soon as they are closed, lowest first, so a descriptor     *)
(* closed twice, or used after its close, is someone else's.               *)
(***************************************************************************)
EXTENDS Integers, Sequences, FiniteSets

CONSTANTS
  Skeletons,  \* skeletons: per slot, programs before maps, how it attaches
  MaxFd,      \* bound: descriptors are 0..MaxFd
  MaxApp,     \* bound: descriptors other threads hold
  MaxAttach,  \* bound: attachments tried in a behaviour
  MaxExtra    \* bound: links disconnected, pinned or opened, requests refused

\* "probe": k(ret)probe, u(ret)probe, tracepoint: a perf event;
\* "link": tracing, LSM, cgroup, XDP, raw tracepoint, ...: one link descriptor;
\* "bare": a section that names no target, so it is not attached automatically;
\* "ops", "ops_link": a struct_ops map without and with BPF_F_LINK.
Handle == 0      \* a link that is not in the skeleton, from bpf_link__open()
Fds == 0..MaxFd

ASSUME LinksAssumption ==
  /\ Skeletons \subseteq Seq({"probe", "link", "bare", "ops", "ops_link"})
  /\ \A k \in Skeletons : Len(k) <= MaxFd + 1   \* the object's descriptors fit
  /\ MaxFd \in Nat /\ MaxApp \in Nat /\ MaxAttach \in Nat /\ MaxExtra \in Nat

VARIABLES
  Kinds,      \* the skeleton
  kernel,     \* pmu: is there a kprobe/uprobe PMU?  perf_link: FEAT_PERF_LINK
  fds,        \* descriptor -> the file it is open on
  link,       \* holder -> its struct bpf_link
  tracefs,    \* legacy probes in kprobe_events and uprobe_events
  ops,        \* slots whose struct_ops value is set in the kernel
  pinned,     \* the file pinned at the one path used
  op,         \* the call in progress
  obj,        \* is the object of the skeleton open?
  index,      \* attachments tried: numbers probe names, events and links
  extra,      \* counts up to MaxExtra
  left,       \* history: descriptors given up with bpf_link__disconnect()
  stuck,      \* history: probes and struct_ops the kernel would not take down
  stray       \* history: did the library use a descriptor that was not its own?

vars == <<Kinds, kernel, fds, link, tracefs, ops, pinned, op, obj, index, extra,
          left, stuck, stray>>

Slots == DOMAIN Kinds
Holders == Slots \cup {Handle}

NoFile == <<"none", 0>>
App == <<"app", 0>>
ObjFile(s) == <<"obj", s>>    \* the program or map of slot s; its descriptor is s - 1
Event(k) == <<"event", k>>
BpfLink(k) == <<"link", k>>

NullLink == [kind |-> "null", fd |-> -1, pfd |-> -1, id |-> 0, file |-> NoFile,
             legacy |-> FALSE, disconnected |-> FALSE, pin_path |-> FALSE]

\* A call that begins, or goes on, at pc with the slot or handle s.
At(call, s, pc) == [call |-> call, s |-> s, pc |-> pc, mode |-> "none", legacy |-> FALSE,
                    id |-> 0, pfd |-> -1, fd |-> -1]

Idle == At("idle", 0, "none")

Null(h) == link[h].kind = "null"

------------------------------------------------------------------------------
(* The kernel, external *)

FreeFds == {n \in Fds : fds[n] = NoFile}

LowestFd(n) == n \in FreeFds /\ \A m \in FreeFds : n <= m

\* A new descriptor, or failure; with the table full there is only failure.
Open(file, n) ==
  /\ LowestFd(n)
  /\ fds' = [fds EXCEPT ![n] = file]

\* The library closes descriptor n, which it takes to be open on file.
CloseFd(n, file) ==
  /\ fds' = [fds EXCEPT ![n] = NoFile]
  /\ stray' = (stray \/ fds[n] # file)

Use(n, file) == stray' = (stray \/ fds[n] # file)

Extra == extra < MaxExtra /\ extra' = extra + 1

LinkAlive(k) == pinned = BpfLink(k) \/ \E n \in Fds : fds[n] = BpfLink(k)

\* A link holds the perf event it was made for.
EventAlive(k) == LinkAlive(k) \/ \E n \in Fds : fds[n] = Event(k)

\* A probe in use cannot be removed, and stays for good if a pin or another
\* descriptor of its link is the reason; the write can fail otherwise too.
RemoveProbe(k) ==
  \/ /\ tracefs' = IF EventAlive(k) THEN tracefs ELSE tracefs \ {k}
     /\ stuck' = IF LinkAlive(k) THEN stuck \cup {<<"probe", k>>} ELSE stuck
     /\ UNCHANGED extra
  \/ Extra /\ stuck' = stuck \cup {<<"probe", k>>} /\ UNCHANGED tracefs

AppOpen ==
  /\ Cardinality({n \in Fds : fds[n] = App}) < MaxApp
  /\ \E n \in Fds : Open(App, n)
  /\ UNCHANGED <<Kinds, kernel, link, tracefs, ops, pinned, op, obj, index, left, stuck, stray, extra>>

AppClose(n) ==
  /\ fds[n] = App
  /\ fds' = [fds EXCEPT ![n] = NoFile]
  /\ UNCHANGED <<Kinds, kernel, link, tracefs, ops, pinned, op, obj, index, left, stuck, stray, extra>>

------------------------------------------------------------------------------
(* Calls and their returns *)

\* The calls on a whole skeleton go on with the next slot.
Skeleton == {"attach_skeleton", "detach_skeleton", "destroy_skeleton"}

After(ok) ==
  IF ok /\ op.call \in Skeleton THEN At(op.call, op.s + 1, "next") ELSE Idle

Goto(pc) == op' = [op EXCEPT !.pc = pc]

\* prog_attach_fn() or bpf_map__attach_struct_ops() begins.
AttachSlot(s, call, mode) ==
  LET legacy == mode = "legacy" \/ ~kernel.pmu
      pc == CASE Kinds[s] = "probe" -> IF legacy THEN "add" ELSE "open"
              [] Kinds[s] \in {"ops", "ops_link"} -> "update"
              [] OTHER -> "create"
  IN  /\ index < MaxAttach /\ index' = index + 1
      /\ op' = [At(call, s, pc) EXCEPT !.mode = mode, !.id = index + 1, !.legacy = legacy]

\* bpf_program__attach_{k,u}probe_opts(): the mode asked for must be there.
ModeOK(mode) ==
  CASE mode = "perf" -> kernel.pmu
    [] mode = "link" -> kernel.pmu /\ kernel.perf_link
    [] OTHER -> TRUE

\* A direct call, its result stored in the skeleton by the application.
Attach(s, mode) ==
  /\ op.call = "idle" /\ obj /\ Null(s) /\ Kinds[s] # "bare"
  /\ (Kinds[s] # "probe" => mode = "default") /\ ModeOK(mode)
  /\ AttachSlot(s, "attach", mode)
  /\ UNCHANGED <<Kinds, kernel, fds, link, tracefs, ops, pinned, obj, left, stuck, stray, extra>>

Begin(call) ==
  /\ op.call = "idle" /\ obj
  /\ op' = At(call, 1, "next")
  /\ UNCHANGED <<Kinds, kernel, fds, link, tracefs, ops, pinned, obj, index, left, stuck, stray, extra>>

\* A slot that has a link already, or has no target, is skipped; out of memory,
\* the attachment fails before it makes anything.
AttachNext ==
  /\ op.call = "attach_skeleton" /\ op.pc = "next"
  /\ IF op.s > Len(Kinds) THEN op' = Idle /\ UNCHANGED index
     ELSE IF ~Null(op.s) \/ Kinds[op.s] = "bare" THEN op' = After(TRUE) /\ UNCHANGED index
     ELSE \/ AttachSlot(op.s, op.call, "default")
          \/ op' = After(FALSE) /\ UNCHANGED index
  /\ UNCHANGED <<Kinds, kernel, fds, link, tracefs, ops, pinned, obj, left, stuck, stray, extra>>

------------------------------------------------------------------------------
(* Attaching *)

AttachStep(pc) == op.call \in {"attach", "attach_skeleton"} /\ op.pc = pc

\* The attachment failed and all it made is undone; no link.
AttachError == op' = After(FALSE) /\ UNCHANGED link

Attached(fd, file) ==
  /\ link' = [link EXCEPT ![op.s] =
       [kind |-> Kinds[op.s], fd |-> fd, pfd |-> op.pfd, id |-> op.id, file |-> file,
        legacy |-> op.pfd >= 0 /\ op.legacy, disconnected |-> FALSE, pin_path |-> FALSE]]
  /\ op' = After(TRUE)

\* One descriptor: bpf_link_create() or bpf_raw_tracepoint_open_opts().
LinkCreate ==
  /\ AttachStep("create")
  /\ \/ \E n \in Fds : Open(BpfLink(op.id), n) /\ Attached(n, BpfLink(op.id))
     \/ AttachError /\ UNCHANGED fds
  /\ UNCHANGED <<Kinds, kernel, tracefs, ops, pinned, obj, index, left, stuck, stray, extra>>

\* A value already set is an error unless the map makes links.
StructOpsUpdate ==
  /\ AttachStep("update")
  /\ IF Kinds[op.s] = "ops_link"
     THEN \/ ops' = ops \cup {op.s} /\ Goto("create") /\ UNCHANGED link
          \/ AttachError /\ UNCHANGED ops
     ELSE \/ /\ op.s \notin ops
             /\ ops' = ops \cup {op.s} /\ Attached(op.s - 1, ObjFile(op.s))
          \/ AttachError /\ UNCHANGED ops
  /\ Use(op.s - 1, ObjFile(op.s))
  /\ UNCHANGED <<Kinds, kernel, fds, tracefs, pinned, obj, index, left, stuck, extra>>

AddProbe ==
  /\ AttachStep("add")
  /\ \/ tracefs' = tracefs \cup {op.id} /\ Goto("open") /\ UNCHANGED link
     \/ AttachError /\ UNCHANGED tracefs
  /\ UNCHANGED <<Kinds, kernel, fds, ops, pinned, obj, index, left, stuck, stray, extra>>

\* perf_event_open(), and for a legacy probe reading its id before.
EventOpen ==
  /\ AttachStep("open")
  /\ \/ \E n \in Fds : /\ Open(Event(op.id), n)
                       /\ op' = [op EXCEPT !.pfd = n, !.pc = "set"] /\ UNCHANGED link
     \/ /\ IF op.legacy THEN Goto("undo_add") /\ UNCHANGED link
           ELSE AttachError
        /\ UNCHANGED fds
  /\ UNCHANGED <<Kinds, kernel, tracefs, ops, pinned, obj, index, left, stuck, stray, extra>>

ByLink == kernel.perf_link /\ op.mode \notin {"legacy", "perf"}

\* bpf_program__attach_perf_event_opts(): a link for the event, or the program
\* set on the event itself, which then is the link's descriptor too.
SetBpf ==
  /\ AttachStep("set")
  /\ IF ByLink
     THEN \E n \in Fds : /\ Open(BpfLink(op.id), n)
                         /\ op' = [op EXCEPT !.fd = n, !.pc = "enable"]
     ELSE UNCHANGED fds /\ op' = [op EXCEPT !.fd = op.pfd, !.pc = "enable"]
  /\ Use(op.pfd, Event(op.id))
  /\ UNCHANGED <<Kinds, kernel, link, tracefs, ops, pinned, obj, index, left, stuck, extra>>

SetBpfFails ==
  /\ AttachStep("set")
  /\ Goto("undo_open")
  /\ Use(op.pfd, Event(op.id))
  /\ UNCHANGED <<Kinds, kernel, fds, link, tracefs, ops, pinned, obj, index, left, stuck, extra>>

Enable ==
  /\ AttachStep("enable")
  /\ \/ Attached(op.fd, IF op.fd = op.pfd THEN Event(op.id) ELSE BpfLink(op.id))
     \/ /\ Goto(IF op.fd # op.pfd THEN "undo_set" ELSE "undo_open")
        /\ UNCHANGED link
  /\ Use(op.pfd, Event(op.id))
  /\ UNCHANGED <<Kinds, kernel, fds, tracefs, ops, pinned, obj, index, left, stuck, extra>>

UndoSet ==
  /\ AttachStep("undo_set")
  /\ CloseFd(op.fd, BpfLink(op.id))
  /\ Goto("undo_open")
  /\ UNCHANGED <<Kinds, kernel, link, tracefs, ops, pinned, obj, index, left, stuck, extra>>

\* Mutant: the event stays open when the attachment fails.
UndoOpen_Kept ==
  /\ AttachStep("undo_open")
  /\ IF op.legacy THEN Goto("undo_add") /\ UNCHANGED link ELSE AttachError
  /\ UNCHANGED <<Kinds, kernel, fds, tracefs, ops, pinned, obj, index, left, stuck, stray, extra>>

\* The caller that opened the event closes it.
UndoOpen ==
  /\ AttachStep("undo_open")
  /\ CloseFd(op.pfd, Event(op.id))
  /\ IF op.legacy THEN Goto("undo_add") /\ UNCHANGED link ELSE AttachError
  /\ UNCHANGED <<Kinds, kernel, tracefs, ops, pinned, obj, index, left, stuck, extra>>

UndoAdd ==
  /\ AttachStep("undo_add")
  /\ RemoveProbe(op.id) /\ AttachError
  /\ UNCHANGED <<Kinds, kernel, fds, ops, pinned, obj, index, left, stray>>

------------------------------------------------------------------------------
(* Destroying *)

DestroyStep(pc) ==
  /\ op.call \in {"destroy", "detach_skeleton", "destroy_skeleton"}
  /\ op.pc = pc

\* The descriptors of a link's own; a struct_ops link without a real link uses
\* that of the object's map.
Descriptors(l) ==
  IF l.kind = "ops" THEN {}
  ELSE {<<l.fd, l.file>>} \cup (IF l.pfd >= 0 THEN {<<l.pfd, Event(l.id)>>} ELSE {})

\* bpf_link__destroy() of holder h.  A disconnected link gives up what it holds.
DestroyLink(h, call) ==
  IF link[h].disconnected
  THEN /\ left' = left \cup {link[h]}
       /\ link' = [link EXCEPT ![h] = NullLink]
       /\ op' = After(TRUE)
  ELSE /\ op' = At(call, h, IF link[h].kind = "probe" THEN "disable"
                            ELSE IF link[h].kind = "ops" THEN "delete" ELSE "close")
       /\ UNCHANGED <<link, left>>

Destroy(h) ==
  /\ op.call = "idle" /\ ~Null(h)
  /\ DestroyLink(h, "destroy")
  /\ UNCHANGED <<Kinds, kernel, fds, tracefs, ops, pinned, obj, index, stuck, stray, extra>>

DetachNext ==
  /\ DestroyStep("next")
  /\ IF op.s > Len(Kinds)
     THEN /\ IF op.call = "destroy_skeleton" THEN Goto("object") ELSE op' = Idle
          /\ UNCHANGED <<link, left>>
     ELSE IF Null(op.s) THEN op' = After(TRUE) /\ UNCHANGED <<link, left>>
     ELSE DestroyLink(op.s, op.call)
  /\ UNCHANGED <<Kinds, kernel, fds, tracefs, ops, pinned, obj, index, stuck, stray, extra>>

Destroyed == link' = [link EXCEPT ![op.s] = NullLink] /\ op' = After(TRUE)

DestroyGoesOn(pc) == Goto(pc) /\ UNCHANGED link

\* Mutant: the event is closed also when it is the link's descriptor.
PerfDisable_TwoFds ==
  /\ DestroyStep("disable")
  /\ Use(link[op.s].pfd, Event(link[op.s].id))
  /\ DestroyGoesOn("close_event")
  /\ UNCHANGED <<Kinds, kernel, fds, tracefs, ops, pinned, obj, index, left, stuck, extra>>

\* bpf_link_perf_detach(): the event is closed by itself when it is not the
\* link's own descriptor, ...
PerfDisable ==
  /\ DestroyStep("disable")
  /\ Use(link[op.s].pfd, Event(link[op.s].id))
  /\ DestroyGoesOn(IF link[op.s].pfd # link[op.s].fd THEN "close_event" ELSE "close")
  /\ UNCHANGED <<Kinds, kernel, fds, tracefs, ops, pinned, obj, index, left, stuck, extra>>

PerfCloseEvent ==
  /\ DestroyStep("close_event")
  /\ CloseFd(link[op.s].pfd, Event(link[op.s].id))
  /\ DestroyGoesOn("close")
  /\ UNCHANGED <<Kinds, kernel, tracefs, ops, pinned, obj, index, left, stuck, extra>>

\* Mutant: the legacy probe is removed before its event is closed.
CloseLink_RemoveFirst ==
  /\ DestroyStep("close")
  /\ IF link[op.s].legacy THEN RemoveProbe(link[op.s].id)
     ELSE UNCHANGED <<tracefs, stuck, extra>>
  /\ CloseFd(link[op.s].fd, link[op.s].file)
  /\ Destroyed
  /\ UNCHANGED <<Kinds, kernel, ops, pinned, obj, index, left>>

\* ... then the link, and a legacy probe is removed last.
CloseLink ==
  /\ DestroyStep("close")
  /\ CloseFd(link[op.s].fd, link[op.s].file)
  /\ IF link[op.s].legacy THEN DestroyGoesOn("remove") ELSE Destroyed
  /\ UNCHANGED <<Kinds, kernel, tracefs, ops, pinned, obj, index, left, stuck, extra>>

PerfRemoveProbe ==
  /\ DestroyStep("remove")
  /\ RemoveProbe(link[op.s].id) /\ Destroyed
  /\ UNCHANGED <<Kinds, kernel, fds, ops, pinned, obj, index, left, stray>>

\* bpf_link__detach_struct_ops() without a real link: the map is the object's.
StructOpsDelete ==
  /\ DestroyStep("delete")
  /\ Use(link[op.s].fd, link[op.s].file)
  /\ \/ ops' = ops \ {op.s} /\ UNCHANGED <<stuck, extra>>
     \/ Extra /\ stuck' = stuck \cup {<<"ops", op.s>>} /\ UNCHANGED ops
  /\ Destroyed
  /\ UNCHANGED <<Kinds, kernel, fds, tracefs, pinned, obj, index, left>>

\* bpf_object__close(), after every link of the skeleton.
CloseObject ==
  /\ DestroyStep("object")
  /\ fds' = [n \in Fds |-> IF n + 1 \in Slots THEN NoFile ELSE fds[n]]
  /\ stray' = (stray \/ \E s \in Slots : fds[s - 1] # ObjFile(s))
  /\ obj' = FALSE /\ op' = Idle
  /\ UNCHANGED <<Kinds, kernel, link, tracefs, ops, pinned, index, left, stuck, extra>>

------------------------------------------------------------------------------
(* One link: disconnecting, pinning, opening *)

Disconnect(h) ==
  /\ op.call = "idle" /\ ~Null(h) /\ ~link[h].disconnected /\ Extra
  /\ link' = [link EXCEPT ![h].disconnected = TRUE]
  /\ UNCHANGED <<Kinds, kernel, fds, tracefs, ops, pinned, op, obj, index, left, stuck, stray>>

\* bpf_obj_pin() takes links and maps, not perf events, and no path in use.
Pin(h) ==
  /\ op.call = "idle" /\ ~Null(h) /\ ~link[h].pin_path /\ Extra
  /\ pinned = NoFile /\ fds[link[h].fd][1] \in {"link", "obj"}
  /\ Use(link[h].fd, link[h].file)
  /\ pinned' = fds[link[h].fd]
  /\ link' = [link EXCEPT ![h].pin_path = TRUE]
  /\ UNCHANGED <<Kinds, kernel, fds, tracefs, ops, op, obj, index, left, stuck>>

Unpin(h) ==
  /\ op.call = "idle" /\ ~Null(h) /\ link[h].pin_path
  /\ pinned # NoFile
  /\ pinned' = NoFile
  /\ link' = [link EXCEPT ![h].pin_path = FALSE]
  /\ UNCHANGED <<Kinds, kernel, fds, tracefs, ops, op, obj, index, left, stuck, stray, extra>>

LinkOpen ==
  /\ op.call = "idle" /\ Null(Handle) /\ pinned # NoFile /\ Extra
  /\ \E n \in Fds : /\ Open(pinned, n)
                    /\ op' = [At("open", Handle, "none") EXCEPT !.fd = n]
  /\ UNCHANGED <<Kinds, kernel, link, tracefs, ops, pinned, obj, index, left, stuck, stray>>

\* The allocations of bpf_link__open(), after the descriptor.
LinkOpened ==
  /\ op.call = "open"
  /\ \/ /\ link' = [link EXCEPT ![Handle] =
             [kind |-> "opened", fd |-> op.fd, pfd |-> -1, id |-> 0, file |-> fds[op.fd],
              legacy |-> FALSE, disconnected |-> FALSE, pin_path |-> TRUE]]
        /\ UNCHANGED <<fds, stray>>
     \/ CloseFd(op.fd, fds[op.fd]) /\ UNCHANGED link
  /\ op' = Idle
  /\ UNCHANGED <<Kinds, kernel, tracefs, ops, pinned, obj, index, left, stuck, extra>>

------------------------------------------------------------------------------

Init ==
  /\ Kinds \in Skeletons
  /\ kernel \in [pmu : BOOLEAN, perf_link : BOOLEAN]
  /\ fds = [n \in Fds |-> IF n + 1 \in Slots THEN ObjFile(n + 1) ELSE NoFile]
  /\ link = [h \in Holders |-> NullLink]
  /\ tracefs = {} /\ ops = {} /\ pinned = NoFile
  /\ op = Idle /\ obj = TRUE /\ index = 0 /\ extra = 0
  /\ left = {} /\ stuck = {} /\ stray = FALSE

Next ==
  \/ AppOpen \/ \E n \in Fds : AppClose(n)
  \/ \E s \in Slots, mode \in {"default", "legacy", "perf", "link"} : Attach(s, mode)
  \/ \E call \in Skeleton : Begin(call)
  \/ AttachNext \/ LinkCreate \/ StructOpsUpdate \/ AddProbe \/ EventOpen
  \/ SetBpf \/ SetBpfFails \/ Enable \/ UndoSet \/ UndoOpen \/ UndoAdd
  \/ DetachNext \/ PerfDisable \/ PerfCloseEvent \/ CloseLink \/ PerfRemoveProbe
  \/ StructOpsDelete \/ CloseObject \/ LinkOpen \/ LinkOpened
  \/ \E h \in Holders : Destroy(h) \/ Disconnect(h) \/ Pin(h) \/ Unpin(h)

Spec == Init /\ [][Next]_vars

------------------------------------------------------------------------------

\* What libbpf closes, uses or clears through a descriptor is what it opened it
\* for, whatever other threads open and close between its system calls: nothing
\* is closed twice, and a link without a descriptor of its own is gone before
\* its object is.
OwnDescriptorsOnly == ~stray

Live == {link[h] : h \in {g \in Holders : ~Null(g)}}

\* Between calls, whatever failed in them, the descriptors of events and links
\* that are open are exactly those of live links and of links that were
\* disconnected: no error path leaks one, and no link lacks one of its own.
DescriptorsAccounted ==
  op.call = "idle" =>
    {<<n, fds[n]>> : n \in {m \in Fds : fds[m] \notin {NoFile, App}}}
      = (UNION {Descriptors(l) : l \in Live \cup left})
          \cup (IF obj THEN {<<s - 1, ObjFile(s)>> : s \in Slots} ELSE {})

\* Between calls a legacy probe is in tracefs, and a struct_ops value set, only
\* for a live or a disconnected link, unless the kernel refused to take it down
\* (because the link is pinned or open elsewhere, or the request failed); and
\* for a live link it is there.
AttachmentsAccounted ==
  op.call = "idle" =>
    LET probes == {l.id : l \in {m \in Live \cup left : m.legacy}}
        values == {s \in Slots : Kinds[s] = "ops" /\ \E l \in Live \cup left :
                                   l.kind = "ops" /\ l.file = ObjFile(s)}
    IN  /\ probes \subseteq tracefs
        /\ \A k \in tracefs \ probes : <<"probe", k>> \in stuck
        /\ values \subseteq ops
        /\ \A s \in ops \ values : Kinds[s] = "ops_link" \/ <<"ops", s>> \in stuck

------------------------------------------------------------------------------
(* Why the three hold: an invariant that every step preserves. *)

Files == ({"none", "app"} \X {0}) \cup ({"obj", "event", "link"} \X Nat)
Pinnable == {"obj", "link"} \X Nat

LinkRecord ==
  [kind : {"null", "probe", "link", "ops", "ops_link", "opened"},
   fd : Fds \cup {-1}, pfd : Fds \cup {-1}, id : Nat, file : Files,
   legacy : BOOLEAN, disconnected : BOOLEAN, pin_path : BOOLEAN]

Attaching == {"open", "add", "update", "create", "set", "enable", "undo_set",
              "undo_open", "undo_add"}
Destroying == {"disable", "close_event", "close", "remove", "delete"}

OpRecord ==
  [call : {"idle", "attach", "destroy", "open"} \cup Skeleton, s : Nat,
   pc : {"none", "next", "object"} \cup Attaching \cup Destroying,
   mode : {"none", "default", "legacy", "perf", "link"}, legacy : BOOLEAN,
   id : Nat, pfd : Fds \cup {-1}, fd : Fds \cup {-1}]

TypeOK ==
  /\ Kinds \in Skeletons /\ kernel \in [pmu : BOOLEAN, perf_link : BOOLEAN]
  /\ fds \in [Fds -> Files] /\ link \in [Holders -> LinkRecord]
  /\ tracefs \subseteq Nat /\ ops \subseteq Slots
  /\ pinned \in Pinnable \cup {NoFile} /\ op \in OpRecord
  /\ obj \in BOOLEAN /\ index \in Nat /\ extra \in Nat
  /\ left \subseteq LinkRecord /\ stray \in BOOLEAN

\* What a link is, by the way it was made.
Shape(l) ==
  /\ l.fd \in Fds
  /\ l.kind = "probe" => /\ l.pfd \in Fds
                         /\ l.file = IF l.fd = l.pfd THEN Event(l.id) ELSE BpfLink(l.id)
  /\ l.kind # "probe" => l.pfd = -1 /\ ~l.legacy
  /\ l.kind \in {"link", "ops_link"} => l.file = BpfLink(l.id)
  /\ l.kind = "opened" => l.file \in Pinnable
  /\ l.kind = "ops" => \E s \in Slots : /\ Kinds[s] = "ops"
                                        /\ l.fd = s - 1 /\ l.file = ObjFile(s)
  /\ l.id <= index

LinksShaped ==
  /\ \A h \in Holders : ~Null(h) => Shape(link[h])
  /\ \A s \in Slots : ~Null(s) => /\ link[s].kind = Kinds[s] /\ link[s].kind # "opened"
                                  /\ link[s].kind = "ops" => link[s].file = ObjFile(s)
  /\ link[Handle].kind \in {"null", "opened"}
  /\ \A l \in left : l.kind # "null" /\ Shape(l)

InAttach == op.call \in {"attach", "attach_skeleton"} /\ op.pc # "next"
InDestroy == op.call \in {"destroy", "detach_skeleton", "destroy_skeleton"}
             /\ op.pc \notin {"next", "object"}

\* Where the call in progress can be.
CallInv ==
  /\ op.call = "attach" => op.pc \in Attaching
  /\ op.call = "attach_skeleton" => op.pc \in Attaching \cup {"next"}
  /\ op.call = "destroy" => op.pc \in Destroying
  /\ op.call = "detach_skeleton" => op.pc \in Destroying \cup {"next"}
  /\ op.call = "destroy_skeleton" => op.pc \in Destroying \cup {"next", "object"}
  /\ op.call \in Skeleton \cup {"attach"} => obj
  /\ op.call \in Skeleton => op.s \in 1 .. (Len(Kinds) + 1)
  /\ op.call = "destroy_skeleton" => \A s \in Slots : s < op.s => Null(s)
  /\ op.pc = "object" => \A s \in Slots : Null(s)
  /\ ~obj => \A s \in Slots : Null(s)
  /\ op.call = "open" => Null(Handle) /\ op.fd \in Fds /\ fds[op.fd] \in Pinnable

AttachInv ==
  InAttach =>
    /\ op.s \in Slots /\ Null(op.s) /\ op.id = index /\ index > 0
    /\ op.pc = "update" => Kinds[op.s] \in {"ops", "ops_link"} /\ op.pfd = -1
    /\ op.pc = "create" => Kinds[op.s] \in {"link", "ops_link"} /\ op.pfd = -1
    /\ op.pc \notin {"update", "create"} => Kinds[op.s] = "probe"
    /\ op.pc \in {"add", "undo_add"} => op.legacy
    /\ op.pc \in {"set", "enable", "undo_set", "undo_open"} => op.pfd \in Fds
    /\ op.pc \in {"enable", "undo_set"} => op.fd \in Fds
    /\ op.pc = "undo_set" => op.fd # op.pfd

DestroyInv ==
  InDestroy =>
    /\ op.s \in Holders /\ ~Null(op.s) /\ (op.call \in Skeleton => op.s \in Slots)
    /\ op.pc \in {"disable", "close_event", "remove"} => link[op.s].kind = "probe"
    /\ op.pc = "close_event" => link[op.s].fd # link[op.s].pfd
    /\ op.pc = "close" => link[op.s].kind # "ops"
    /\ op.pc = "remove" => link[op.s].legacy
    /\ op.pc = "delete" => link[op.s].kind = "ops"

\* Each attachment has a number of its own.
IdsDiffer ==
  /\ \A s, t \in Slots : s # t /\ ~Null(s) /\ ~Null(t) => link[s].id # link[t].id
  /\ \A s \in Slots, l \in left : ~Null(s) /\ l.kind # "opened" => link[s].id # l.id
  /\ InAttach => /\ \A s \in Slots : ~Null(s) => link[s].id # op.id
                 /\ \A l \in left : l.kind # "opened" => l.id # op.id

\* Who has a descriptor open, and on what: the object, the links in use, those
\* given up, and the call in progress.
TheObject == -1
TheCall == -2
GivenUp == -3
Owners == -3 .. Len(Kinds)

LinkOwns(h) ==
  IF Null(h) \/ link[h].kind = "ops" THEN {}
  ELSE IF InDestroy /\ op.s = h /\ op.pc \in {"close", "remove"}
       THEN IF op.pc = "close" THEN {<<link[h].fd, link[h].file>>} ELSE {}
  ELSE Descriptors(link[h])

CallOwns ==
  IF op.call = "open" THEN {<<op.fd, fds[op.fd]>>}
  ELSE IF ~InAttach THEN {}
  ELSE (IF op.pc \in {"set", "enable", "undo_set", "undo_open"}
        THEN {<<op.pfd, Event(op.id)>>} ELSE {})
       \cup (IF op.pc \in {"enable", "undo_set"} /\ op.fd # op.pfd
             THEN {<<op.fd, BpfLink(op.id)>>} ELSE {})

Owned == [w \in Owners |->
  IF w = TheObject THEN IF obj THEN {<<s - 1, ObjFile(s)>> : s \in Slots} ELSE {}
  ELSE IF w = TheCall THEN CallOwns
  ELSE IF w = GivenUp THEN UNION {Descriptors(l) : l \in left}
  ELSE LinkOwns(w)]

\* Every descriptor is open on what its owner takes it for, has one owner, and
\* none is without an owner.
Accounted(owned, table) ==
  /\ \A w \in DOMAIN owned : \A p \in owned[w] :
       \E n \in Fds : p = <<n, table[n]>> /\ table[n] \notin {NoFile, App}
  /\ \A n \in Fds, v, w \in DOMAIN owned :
       <<n, table[n]>> \in owned[v] /\ <<n, table[n]>> \in owned[w] => v = w
  /\ \A n \in Fds : table[n] \notin {NoFile, App} =>
       \E w \in DOMAIN owned : <<n, table[n]>> \in owned[w]

\* A legacy probe is there for a link or for the attachment under way.
HasProbe == InAttach /\ op.legacy /\ op.pc \notin {"add", "update", "create"}

Probed(k) ==
  \/ \E h \in Holders : ~Null(h) /\ link[h].legacy /\ link[h].id = k
  \/ \E l \in left : l.legacy /\ l.id = k
  \/ HasProbe /\ op.id = k

ProbesInv ==
  /\ \A h \in Holders : ~Null(h) /\ link[h].legacy => link[h].id \in tracefs
  /\ \A l \in left : l.legacy => l.id \in tracefs
  /\ HasProbe => op.id \in tracefs
  /\ \A k \in tracefs : Probed(k) \/ <<"probe", k>> \in stuck

\* A struct_ops value is there for one link.
ValuesInv ==
  /\ \A s \in Slots : link[s].kind = "ops" => s \in ops
  /\ \A l \in left, s \in Slots : l.kind = "ops" /\ l.file = ObjFile(s) =>
       s \in ops /\ link[s].kind # "ops"
  /\ \A s \in ops : \/ Kinds[s] = "ops_link" \/ link[s].kind = "ops"
                    \/ <<"ops", s>> \in stuck
                    \/ \E l \in left : l.kind = "ops" /\ l.file = ObjFile(s)

LinksInv ==
  /\ TypeOK /\ LinksShaped /\ CallInv /\ AttachInv /\ DestroyInv /\ IdsDiffer
  /\ Accounted(Owned, fds) /\ ProbesInv /\ ValuesInv
  /\ ~stray

==============================================================================

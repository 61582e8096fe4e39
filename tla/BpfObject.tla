------------------------------ MODULE BpfObject ------------------------------
(***************************************************************************)
(* The life of bpf_object's made from one ELF file by several processes:   *)
(* open, prepare, load, the loading of MANUAL programs, and close, with    *)
(* the failure of any system call on the way and the cleanup behind it.    *)
(* The processes meet in the BPF file system, where maps with a pin path   *)
(* are found and reused, or created and pinned.                            *)
(*                                                                         *)
(* A file descriptor is modelled by what it refers to: the placeholder it  *)
(* was opened on, a kernel map, or nothing once it is closed.  The number  *)
(* of the descriptor, which relocation writes into the instructions, never *)
(* changes.  The kernel map that object o creates for map m the n-th time  *)
(* is <<o, m, n>>.                                                         *)
(***************************************************************************)
EXTENDS Integers, FiniteSets

CONSTANTS
  Objs,       \* the objects, one per process
  NMaps,      \* obj->nr_maps
  NProgs,     \* obj->nr_programs
  PinPath,    \* map -> the pin_path its definition asks for, or NoPath
  NoPath, None,
  Placeholder, Closed,   \* what the descriptor of no map refers to
  Slots,      \* map -> the maps its init_slots name ({} if not map-in-map)
  ArrayProgs, \* the programs that slots of a PROG_ARRAY map name
  User,       \* creator of the maps given to bpf_map__reuse_fd()
  ReuseFds,   \* the maps the application may give a descriptor for
  InnerFd     \* whether the application calls bpf_map__set_inner_map_fd()

Maps == 1 .. NMaps
Progs == 1 .. NProgs
Paths == {PinPath[m] : m \in Maps} \ {NoPath}
Strategies == {"DISABLED", "AUTO", "MANUAL"}

KMaps == (Objs \cup {User}) \X Maps \X {1, 2}

ASSUME ObjectAssumption ==
  /\ NMaps \in Nat /\ NProgs \in Nat
  /\ \A m \in Maps : Slots[m] \subseteq 1 .. (m - 1)
  /\ ArrayProgs \subseteq Progs /\ ReuseFds \subseteq Maps
  /\ {Placeholder, Closed, None} \cap (KMaps \cup Objs) = {}
  /\ Placeholder # Closed
  /\ User \notin Objs /\ InnerFd \in BOOLEAN

VARIABLES
  obj,       \* the objects
  pins,      \* path -> the kernel map pinned there
  pinner,    \* history: path -> the object that pinned it
  inserted   \* kernel outer map -> the kernel maps in its slots

fsVars == <<pins, pinner>>
vars == <<obj, fsVars, inserted>>

\* An object as bpf_object__open() leaves it; the strategies come from the
\* section names, pc is where its process is and ok whether the last prepare
\* or load succeeded.
Opened(strat) ==
  [state |-> "OPEN", pc |-> "idle", goal |-> "load", idx |-> 1,
   retried |-> FALSE, ok |-> TRUE,
   fd |-> [m \in Maps |-> Placeholder],
   creations |-> [m \in Maps |-> 0],
   reused |-> [m \in Maps |-> FALSE],
   pinned |-> [m \in Maps |-> FALSE],
   autocreate |-> [m \in Maps |-> TRUE],
   init_slots |-> [m \in Maps |-> Slots[m] # {}],
   strat |-> strat, prog_fd |-> [p \in Progs |-> FALSE],
   relocated |-> FALSE, has_manual |-> FALSE, btf |-> FALSE]

Init ==
  /\ \E s \in [Objs -> [Progs -> Strategies]] :
       obj = [o \in Objs |-> Opened(s[o])]
  /\ pins = [q \in Paths |-> None]
  /\ pinner = [q \in Paths |-> None]
  /\ inserted = [k \in KMaps |-> {}]

Idle(o) == obj[o].pc = "idle" /\ obj[o].state # "CLOSED"
At(o, label) == obj[o].pc = label
CurMap(o) == obj[o].idx
InMaps(o) == obj[o].idx \in Maps
InProgs(o) == obj[o].idx \in Progs

------------------------------------------------------------------------------
(* Setters the application may call before the object is prepared *)

\* bpf_program__set_load_strategy(), bpf_program__set_autoload()
set_load_strategy(o, p) ==
  /\ Idle(o) /\ obj[o].state = "OPEN"
  /\ \E s \in Strategies : obj' = [obj EXCEPT ![o].strat[p] = s]
  /\ UNCHANGED <<fsVars, inserted>>

map_is_created(o, m) == obj[o].state # "OPEN" \/ obj[o].reused[m]

set_autocreate(o, m) ==
  /\ Idle(o) /\ ~map_is_created(o, m)
  /\ obj' = [obj EXCEPT ![o].autocreate[m] = ~@]
  /\ UNCHANGED <<fsVars, inserted>>

\* bpf_map__reuse_fd() called by the application.  dup3() fails on a closed
\* descriptor.
reuse_fd(o, m) ==
  /\ Idle(o) /\ m \in ReuseFds
  /\ obj[o].fd[m] # Closed
  /\ obj' = [obj EXCEPT ![o].fd[m] = <<User, m, 1>>, ![o].reused[m] = TRUE]
  /\ UNCHANGED <<fsVars, inserted>>

------------------------------------------------------------------------------
(* bpf_object_prepare() *)

CallPrepare(o) ==
  /\ Idle(o) /\ obj[o].state = "OPEN"
  /\ obj' = [obj EXCEPT ![o].pc = "before_maps", ![o].goal = "prepare"]
  /\ UNCHANGED <<fsVars, inserted>>

\* Where the error path of bpf_object__create_maps() leaves object r: the
\* descriptors of the maps before map i are closed, then prepare unpins.
CreateMapsFailed(r, i) ==
  [r EXCEPT !.pc = "unpin", !.idx = 1, !.ok = FALSE,
            !.fd = [m \in Maps |-> IF m < i THEN Closed ELSE @[m]]]

\* Everything prepare does before the maps: the token, the probe, vmlinux
\* BTF, externs, struct_ops, relocation and loading of BTF.  It fails before
\* the programs are relocated, after, or not at all.
BeforeMaps(o) ==
  /\ At(o, "before_maps")
  /\ \E relocated, ok \in BOOLEAN :
       /\ ok => relocated
       /\ obj' = [obj EXCEPT ![o].relocated = relocated, ![o].btf = TRUE,
                             ![o].idx = 1, ![o].ok = ok,
                             ![o].pc = IF ok THEN "map" ELSE "unpin"]
  /\ UNCHANGED <<fsVars, inserted>>

\* A map that is not to be created is skipped.  An internal map the kernel
\* has no support for loses its autocreate flag here; to the model that is an
\* application that cleared the flag before.
SkipMap(o) ==
  /\ At(o, "map") /\ InMaps(o) /\ ~obj[o].autocreate[CurMap(o)]
  /\ obj' = [obj EXCEPT ![o].idx = @ + 1]
  /\ UNCHANGED <<fsVars, inserted>>

\* The next map starts with retried = false.
StartMap(o) ==
  /\ At(o, "map") /\ InMaps(o) /\ obj[o].autocreate[CurMap(o)]
  /\ obj' = [obj EXCEPT ![o].retried = FALSE, ![o].pc = "reuse"]
  /\ UNCHANGED <<fsVars, inserted>>

PinnedAt(m) == IF PinPath[m] = NoPath THEN None ELSE pins[PinPath[m]]

\* Whether the map is created depends on map->reused alone.
AfterReuse(o) == IF obj[o].reused[CurMap(o)] THEN "pin" ELSE "create"

\* No pin path, or bpf_obj_get() says ENOENT.  The check of retried and
\* map->fd < 0 that follows never holds: the descriptor is at least the
\* placeholder.
ReuseNone(o) ==
  /\ At(o, "reuse") /\ PinnedAt(CurMap(o)) = None
  /\ obj' = [obj EXCEPT ![o].pc = AfterReuse(o)]
  /\ UNCHANGED <<fsVars, inserted>>

\* bpf_object__reuse_map() finds a compatible map and moves the descriptor
\* to it.
ReuseFound(o) ==
  LET m == CurMap(o) IN
  /\ At(o, "reuse") /\ PinnedAt(m) # None
  /\ obj' = [obj EXCEPT ![o].fd[m] = pins[PinPath[m]], ![o].reused[m] = TRUE,
                        ![o].pinned[m] = TRUE, ![o].pc = "pin"]
  /\ UNCHANGED <<fsVars, inserted>>

\* The pinned map cannot be had, or its parameters differ.
ReuseFails(o) ==
  /\ At(o, "reuse") /\ PinPath[CurMap(o)] # NoPath
  /\ obj' = [obj EXCEPT ![o] = CreateMapsFailed(@, CurMap(o))]
  /\ UNCHANGED <<fsVars, inserted>>

Fresh(o) == <<o, CurMap(o), obj[o].creations[CurMap(o)] + 1>>

\* A map-in-map whose inner map was described in BTF can be created once:
\* the first creation destroys inner_map and leaves its closed descriptor in
\* inner_map_fd.
InnerGone(o) ==
  /\ Slots[CurMap(o)] # {} /\ ~InnerFd
  /\ obj[o].creations[CurMap(o)] > 0

\* Mutant: the slots of an outer map are initialised before it is created.
CreateMap_SlotsLost(o) ==
  LET m == CurMap(o) IN
  /\ At(o, "create") /\ ~InnerGone(o)
  /\ obj' = [obj EXCEPT ![o].fd[m] = Fresh(o), ![o].creations[m] = @ + 1,
                        ![o].init_slots[m] = FALSE, ![o].pc = "pin"]
  /\ UNCHANGED <<fsVars, inserted>>

\* The kernel takes only maps into the slots of an outer map.
TargetsCreated(o) ==
  obj[o].init_slots[CurMap(o)] =>
    \A t \in Slots[CurMap(o)] : obj[o].fd[t] \in KMaps

\* bpf_object__create_map(): the placeholder now refers to a new kernel map,
\* filled with its initial contents.  The contents of a map-in-map come from
\* init_slots, which is then freed.
CreateMap(o) ==
  LET m == CurMap(o) IN
  /\ At(o, "create") /\ ~InnerGone(o) /\ TargetsCreated(o)
  /\ obj' = [obj EXCEPT ![o].fd[m] = Fresh(o), ![o].creations[m] = @ + 1,
                        ![o].init_slots[m] = FALSE, ![o].pc = "pin"]
  /\ inserted' = [inserted EXCEPT ![Fresh(o)] =
       IF obj[o].init_slots[m] THEN {obj[o].fd[t] : t \in Slots[m]} ELSE {}]
  /\ UNCHANGED fsVars

\* The map is not created, or is and cannot be filled.  When an arena cannot
\* be mapped, the function returns without closing the earlier maps.
CreateFails(o) ==
  LET m == CurMap(o) IN
  /\ At(o, "create")
  /\ \E fd \in {obj[o].fd[m]} \cup (IF InnerGone(o) THEN {} ELSE {Fresh(o)}),
        closeEarlier \in BOOLEAN :
       obj' = [obj EXCEPT ![o] = CreateMapsFailed(
                 [@ EXCEPT !.fd[m] = fd], IF closeEarlier THEN m ELSE 1)]
  /\ UNCHANGED <<fsVars, inserted>>

\* Nothing to pin.
NoPin(o) ==
  /\ At(o, "pin")
  /\ PinPath[CurMap(o)] = NoPath \/ obj[o].pinned[CurMap(o)]
  /\ obj' = [obj EXCEPT ![o].pc = "map", ![o].idx = @ + 1]
  /\ UNCHANGED <<fsVars, inserted>>

MustPin(o) ==
  At(o, "pin") /\ PinPath[CurMap(o)] # NoPath /\ ~obj[o].pinned[CurMap(o)]

\* Mutant: pinning replaces what is pinned at the path.
PinMap_Replaces(o) ==
  LET m == CurMap(o) IN
  /\ MustPin(o)
  /\ pins' = [pins EXCEPT ![PinPath[m]] = obj[o].fd[m]]
  /\ pinner' = [pinner EXCEPT ![PinPath[m]] = o]
  /\ obj' = [obj EXCEPT ![o].pinned[m] = TRUE, ![o].pc = "map", ![o].idx = @ + 1]
  /\ UNCHANGED inserted

\* bpf_map__pin() succeeds.
PinMap(o) ==
  LET m == CurMap(o) IN
  /\ MustPin(o) /\ pins[PinPath[m]] = None
  /\ pins' = [pins EXCEPT ![PinPath[m]] = obj[o].fd[m]]
  /\ pinner' = [pinner EXCEPT ![PinPath[m]] = o]
  /\ obj' = [obj EXCEPT ![o].pinned[m] = TRUE, ![o].pc = "map", ![o].idx = @ + 1]
  /\ UNCHANGED inserted

\* Mutant: a pin that exists is taken for the object's own.
PinExists_Ignored(o) ==
  /\ MustPin(o) /\ pins[PinPath[CurMap(o)]] # None
  /\ obj' = [obj EXCEPT ![o].pinned[CurMap(o)] = TRUE, ![o].pc = "map",
                        ![o].idx = @ + 1]
  /\ UNCHANGED <<fsVars, inserted>>

\* Another process pinned its map first (EEXIST): try once more to reuse it.
PinExists(o) ==
  /\ MustPin(o) /\ pins[PinPath[CurMap(o)]] # None
  /\ obj' = [obj EXCEPT ![o] = IF @.retried
               THEN CreateMapsFailed(@, @.idx)
               ELSE [@ EXCEPT !.retried = TRUE, !.pc = "reuse"]]
  /\ UNCHANGED <<fsVars, inserted>>

\* bpf_map__pin() fails for another reason.
PinFails(o) ==
  /\ MustPin(o)
  /\ obj' = [obj EXCEPT ![o] = CreateMapsFailed(@, CurMap(o))]
  /\ UNCHANGED <<fsVars, inserted>>

SomeManual(o) == \E p \in Progs : obj[o].strat[p] = "MANUAL"

\* All maps are done: bpf_object_prepare_progs() notes MANUAL programs and
\* sanitizes the programs.  It fails having seen a prefix of them.
PrepareProgs(o) ==
  /\ At(o, "map") /\ ~InMaps(o)
  /\ \/ obj' = [obj EXCEPT ![o].has_manual = SomeManual(o),
                           ![o].state = "PREPARED", ![o].idx = 1,
                           ![o].pc = IF obj[o].goal = "load"
                                     THEN "prog" ELSE "idle"]
     \/ \E n \in Progs :
          obj' = [obj EXCEPT ![o].has_manual =
                    \E p \in 1 .. n : obj[o].strat[p] = "MANUAL",
                             ![o].ok = FALSE, ![o].pc = "unpin", ![o].idx = 1]
  /\ UNCHANGED <<fsVars, inserted>>

------------------------------------------------------------------------------
(* bpf_object_load() *)

CallLoad(o) ==
  /\ Idle(o) /\ obj[o].state \in {"OPEN", "PREPARED"}
  /\ obj' = [obj EXCEPT ![o].goal = "load", ![o].idx = 1,
               ![o].pc = IF obj[o].state = "OPEN" THEN "before_maps" ELSE "prog"]
  /\ UNCHANGED <<fsVars, inserted>>

\* Mutant: the data MANUAL programs need goes when the object is loaded.
PostLoadCleanup_All(r) == [r EXCEPT !.btf = FALSE]

\* bpf_object_post_load_cleanup(obj, false)
PostLoadCleanup(r) == [r EXCEPT !.btf = @ /\ r.has_manual]

\* A step of the load fails: clean up, and unpin.
LoadFailed(r) ==
  [PostLoadCleanup(r) EXCEPT !.state = "LOADED", !.ok = FALSE,
                             !.pc = "unpin", !.idx = 1]

\* bpf_object__load_progs() leaves alone what is not AUTO.
SkipProg(o) ==
  /\ At(o, "prog") /\ InProgs(o) /\ obj[o].strat[obj[o].idx] # "AUTO"
  /\ obj' = [obj EXCEPT ![o].idx = @ + 1]
  /\ UNCHANGED <<fsVars, inserted>>

LoadProg(o) ==
  /\ At(o, "prog") /\ InProgs(o) /\ obj[o].strat[obj[o].idx] = "AUTO"
  /\ obj' = [obj EXCEPT ![o].prog_fd[obj[o].idx] = TRUE, ![o].idx = @ + 1]
  /\ UNCHANGED <<fsVars, inserted>>

LoadProgFails(o) ==
  /\ At(o, "prog") /\ InProgs(o) /\ obj[o].strat[obj[o].idx] = "AUTO"
  /\ obj' = [obj EXCEPT ![o] = LoadFailed(@)]
  /\ UNCHANGED <<fsVars, inserted>>

\* Mutant: a MANUAL program that is not loaded is left out of the array.
ArraysReady_SkipManual(o) ==
  \A p \in ArrayProgs : obj[o].prog_fd[p] \/ obj[o].strat[p] = "MANUAL"

\* A PROG_ARRAY can be initialised only when its programs are loaded: a
\* MANUAL one that is not is refused here, a DISABLED one by the kernel.
ArraysReady(o) == \A p \in ArrayProgs : obj[o].prog_fd[p]

\* init_prog_arrays and prepare_struct_ops succeed.
FinishLoad(o) ==
  /\ At(o, "prog") /\ ~InProgs(o) /\ ArraysReady(o)
  /\ obj' = [obj EXCEPT ![o] = [PostLoadCleanup(@) EXCEPT
               !.state = "LOADED", !.ok = TRUE, !.pc = "idle"]]
  /\ UNCHANGED <<fsVars, inserted>>

\* One of them fails.
FinishLoadFails(o) ==
  /\ At(o, "prog") /\ ~InProgs(o)
  /\ obj' = [obj EXCEPT ![o] = LoadFailed(@)]
  /\ UNCHANGED <<fsVars, inserted>>

------------------------------------------------------------------------------
(* The cleanup of a failed prepare or load *)

\* Mutant: nothing is unpinned once the object counts as loaded.
unpin_NotLoaded(o, m) ==
  obj[o].pinned[m] /\ ~obj[o].reused[m] /\ obj[o].state # "LOADED"

\* Which maps bpf_object_unpin() unpins.
unpin(o, m) == obj[o].pinned[m] /\ ~obj[o].reused[m]

\* bpf_map__unpin() of the next map; unlink() fails when the pin is gone.
UnpinNext(o) ==
  /\ At(o, "unpin") /\ InMaps(o)
  /\ LET m == CurMap(o)
         found == unpin(o, m) /\ pins[PinPath[m]] # None IN
     /\ pins' = IF found THEN [pins EXCEPT ![PinPath[m]] = None] ELSE pins
     /\ pinner' = IF found THEN [pinner EXCEPT ![PinPath[m]] = None] ELSE pinner
     /\ obj' = [obj EXCEPT ![o].idx = @ + 1,
                           ![o].pinned[m] = @ /\ ~found]
  /\ UNCHANGED inserted

AllClosed(r) ==
  [r EXCEPT !.fd = [m \in Maps |-> Closed], !.prog_fd = [p \in Progs |-> FALSE]]

\* bpf_object_unload(); the call returns its error.
Unload(o) ==
  /\ At(o, "unpin") /\ ~InMaps(o)
  /\ obj' = [obj EXCEPT ![o] = [AllClosed(@) EXCEPT
               !.state = "LOADED", !.pc = "idle"]]
  /\ UNCHANGED <<fsVars, inserted>>

------------------------------------------------------------------------------
(* Single programs, and the end *)

\* bpf_program__load() of a MANUAL program.  The state is all it looks at.
\* The kernel rejects instructions that name a descriptor without a map.
ProgramLoad(o, p) ==
  /\ Idle(o) /\ obj[o].state \in {"PREPARED", "LOADED"}
  /\ obj[o].strat[p] = "MANUAL" /\ ~obj[o].prog_fd[p]
  /\ obj[o].relocated =>
       \A m \in Maps : obj[o].autocreate[m] => obj[o].fd[m] \in KMaps
  /\ obj' = [obj EXCEPT ![o].prog_fd[p] = TRUE]
  /\ UNCHANGED <<fsVars, inserted>>

\* bpf_program__unload()
ProgramUnload(o, p) ==
  /\ Idle(o) /\ obj[o].prog_fd[p]
  /\ obj' = [obj EXCEPT ![o].prog_fd[p] = FALSE]
  /\ UNCHANGED <<fsVars, inserted>>

\* bpf_object__close(): pins outlive the object.
Close(o) ==
  /\ Idle(o)
  /\ obj' = [obj EXCEPT ![o] = [AllClosed(@) EXCEPT
               !.state = "CLOSED", !.btf = FALSE]]
  /\ UNCHANGED <<fsVars, inserted>>

------------------------------------------------------------------------------
Setter(o) ==
  \/ \E p \in Progs : set_load_strategy(o, p)
  \/ \E m \in Maps : set_autocreate(o, m) \/ reuse_fd(o, m)

PrepareStep(o) ==
  \/ CallPrepare(o) \/ BeforeMaps(o) \/ SkipMap(o) \/ StartMap(o)
  \/ ReuseNone(o) \/ ReuseFound(o) \/ ReuseFails(o)
  \/ CreateMap(o) \/ CreateFails(o)
  \/ NoPin(o) \/ PinMap(o) \/ PinExists(o) \/ PinFails(o) \/ PrepareProgs(o)

LoadStep(o) ==
  \/ CallLoad(o) \/ SkipProg(o) \/ LoadProg(o) \/ LoadProgFails(o)
  \/ FinishLoad(o) \/ FinishLoadFails(o)

CleanupStep(o) == UnpinNext(o) \/ Unload(o)

ProgramStep(o) ==
  (\E p \in Progs : ProgramLoad(o, p) \/ ProgramUnload(o, p)) \/ Close(o)

Next == \E o \in Objs :
  Setter(o) \/ PrepareStep(o) \/ LoadStep(o) \/ CleanupStep(o) \/ ProgramStep(o)

Spec == Init /\ [][Next]_vars
------------------------------------------------------------------------------
(* Properties *)

Live(o) == obj[o].state \in {"PREPARED", "LOADED"} /\ obj[o].ok

ObjectRecord ==
  [state : {"OPEN", "PREPARED", "LOADED", "CLOSED"},
   pc : {"idle", "before_maps", "map", "reuse", "create", "pin", "prog", "unpin"},
   goal : {"prepare", "load"}, idx : Nat \ {0}, retried : BOOLEAN, ok : BOOLEAN,
   fd : [Maps -> KMaps \cup {Placeholder, Closed}],
   creations : [Maps -> 0 .. 2],
   reused : [Maps -> BOOLEAN], pinned : [Maps -> BOOLEAN],
   autocreate : [Maps -> BOOLEAN], init_slots : [Maps -> BOOLEAN],
   strat : [Progs -> Strategies], prog_fd : [Progs -> BOOLEAN],
   relocated : BOOLEAN, has_manual : BOOLEAN, btf : BOOLEAN]

\* Objects, descriptors and pins have their types; a map is created at most
\* twice, before and after the one retry of an auto-pin.
TypeOK ==
  /\ obj \in [Objs -> ObjectRecord]
  /\ \A o \in Objs : obj[o].pc \in {"reuse", "create", "pin"} => InMaps(o)
  /\ pins \in [Paths -> KMaps \cup {None}]
  /\ pinner \in [Paths -> Objs \cup {None}]

\* A map that an object created and pinned itself is still what is pinned at
\* its path: no other process replaces it, and none takes it away when its
\* own load fails (the pinned and reused flags bpf_object_unpin() relies on).
PinnedIsOwn ==
  \A o \in Objs, m \in Maps :
    obj[o].pinned[m] /\ ~obj[o].reused[m] =>
      /\ PinPath[m] # NoPath
      /\ pinner[PinPath[m]] = o
      /\ \E n \in {1, 2} : pins[PinPath[m]] = <<o, m, n>>

\* A prepare or load that failed leaves no descriptor of a map open, and no
\* pin it made, except for maps the application gave it a descriptor for.
FailedLoadUndone ==
  \A o \in Objs : obj[o].pc = "idle" /\ ~obj[o].ok =>
    /\ \A m \in Maps : obj[o].fd[m] = Closed
    /\ \A q \in Paths : pinner[q] = o =>
         \E m \in Maps : PinPath[m] = q /\ obj[o].reused[m]

\* bpf_object_unpin() says: "unpin any maps that were auto-pinned during
\* load".
AutoPinsUndone ==
  \A o \in Objs, q \in Paths :
    obj[o].pc = "idle" /\ ~obj[o].ok => pinner[q] # o

\* Objects that prepared the same pinned map share one kernel map, unless the
\* process that created the map failed and took its pin with it, or the
\* application put a map of its own in place: the race of two auto-pins
\* (EEXIST and the retry) ends in agreement.
AgreeOnPinned ==
  \A a, b \in Objs, m \in Maps :
    /\ Live(a) /\ Live(b) /\ obj[a].pinned[m] /\ obj[b].pinned[m]
    /\ \A o \in Objs : obj[o].ok
    /\ \A o \in {a, b} : obj[o].fd[m] # <<User, m, 1>>
    => obj[a].fd[m] = obj[b].fd[m]

OwnTargets(r, m) == \A t \in Slots[m] : r.fd[t] # <<User, t, 1>>

\* The outer map a prepared object created for itself holds the object's own
\* inner maps in the slots its definition initialises, unless it is the second
\* one (bpf_object__create_maps, init_map_in_map_slots).
SlotsFilled ==
  \A o \in Objs : Live(o) =>
    \A m \in Maps :
      /\ Slots[m] # {} /\ obj[o].autocreate[m] /\ ~obj[o].reused[m]
      /\ obj[o].creations[m] < 2 /\ OwnTargets(obj[o], m)
      => inserted[obj[o].fd[m]] = {obj[o].fd[t] : t \in Slots[m]}

\* init_map_in_map_slots() frees init_slots: a map-in-map that is created again
\* after the retry of its auto-pin stays empty, although load succeeds.
SlotsRefilled ==
  \A o \in Objs : Live(o) =>
    \A m \in Maps :
      /\ Slots[m] # {} /\ obj[o].autocreate[m] /\ ~obj[o].reused[m]
      /\ OwnTargets(obj[o], m)
      => inserted[obj[o].fd[m]] = {obj[o].fd[t] : t \in Slots[m]}

\* When load reports success, every map that should exist has become a kernel
\* map behind its placeholder, and every AUTO program, and every program
\* named by a PROG_ARRAY, is loaded.
LoadComplete ==
  [][\A o \in Objs :
       obj[o].state # "LOADED" /\ obj[o]'.state = "LOADED" /\ obj[o]'.ok =>
         /\ \A m \in Maps : obj[o].autocreate[m] => obj[o]'.fd[m] \in KMaps
         /\ \A p \in Progs : obj[o].strat[p] = "AUTO" \/ p \in ArrayProgs =>
              obj[o]'.prog_fd[p]]_vars

\* While a MANUAL program of a prepared object can still be loaded, what its
\* load needs (fd_array, module BTF, vmlinux BTF) has not been freed.
ManualDataKept ==
  \A o \in Objs, p \in Progs :
    Live(o) /\ obj[o].strat[p] = "MANUAL" => obj[o].btf

\* bpf_program__load() says: "This function cannot be called before
\* OBJ_PREPARED - Program's data is initialized on object prepare."
ManualNeedsPrepared ==
  \A o \in Objs, p \in Progs : obj[o].prog_fd[p] => obj[o].relocated

\* bpf_object__create_maps() means to fail with ENOENT ("cannot find pinned
\* map") when the retry after EEXIST does not find the pin.
RetryFindsPin == \A o \in Objs : At(o, "create") => ~obj[o].retried

------------------------------------------------------------------------------
(* The inductive invariant *)

InMapLoop(r) == r.pc \in {"map", "reuse", "create", "pin"}

\* How often a map may have been created: never before its turn, and twice
\* only after the retry.
CreationsBounded(r) ==
  /\ r.pc = "before_maps" \/ (r.pc = "idle" /\ r.state = "OPEN") =>
       \A m \in Maps : r.creations[m] = 0
  /\ InMapLoop(r) => \A m \in Maps : m > r.idx => r.creations[m] = 0
  /\ r.pc = "map" /\ r.idx \in Maps => r.creations[r.idx] = 0
  /\ r.pc \in {"reuse", "create", "pin"} /\ ~r.retried => r.creations[r.idx] <= 1
  /\ r.pc \in {"reuse", "create"} =>
       r.creations[r.idx] <= IF r.retried THEN 1 ELSE 0

\* Success so far, while the object is on its way up.
OkOnTheWay(r) ==
  /\ InMapLoop(r) => r.ok
  /\ r.pc = "idle" /\ r.state \in {"OPEN", "PREPARED"} => r.ok
  /\ r.pc \in {"before_maps", "map", "reuse", "create", "pin"} => r.state = "OPEN"
  /\ r.pc = "prog" => r.ok /\ r.state = "PREPARED"

\* What the descriptors refer to, and which programs are loaded.
Progress(o, r) ==
  /\ r.pc \notin {"unpin"} /\ r.state = "OPEN" =>
       \A m \in Maps : IF r.reused[m] THEN r.fd[m] \in KMaps ELSE r.fd[m] # Closed
  /\ InMapLoop(r) =>
       \A m \in Maps : m < r.idx /\ r.autocreate[m] => r.fd[m] \in KMaps
  /\ r.pc = "pin" => r.fd[r.idx] \in KMaps
  /\ r.pc = "pin" /\ ~r.reused[r.idx] =>
       \E n \in {1, 2} : r.fd[r.idx] = <<o, r.idx, n>>
  /\ r.pc = "prog" \/ (r.pc = "idle" /\ r.state = "PREPARED") =>
       \A m \in Maps : r.autocreate[m] => r.fd[m] \in KMaps
  /\ r.pc = "prog" =>
       \A p \in Progs : p < r.idx /\ r.strat[p] = "AUTO" => r.prog_fd[p]

\* How far the cleanup has come, and what it leaves.
Undone(r) ==
  /\ r.pc = "unpin" => ~r.ok
  /\ r.pc = "unpin" =>
       \A m \in Maps : m < r.idx /\ r.pinned[m] => r.reused[m]
  /\ r.pc = "idle" /\ ~r.ok =>
       \A m \in Maps : r.fd[m] = Closed /\ (r.pinned[m] => r.reused[m])

\* Every pin an object made is remembered by one of its maps.
PinsRemembered ==
  \A o \in Objs, q \in Paths : pinner[q] = o =>
    \E m \in Maps : PinPath[m] = q /\ obj[o].pinned[m]

ObjectLocal(o, r) ==
  CreationsBounded(r) /\ OkOnTheWay(r) /\ Progress(o, r) /\ Undone(r)

\* Type correctness, ownership of pins and, for each object, how its fields
\* relate at each place of the code: what every step of prepare, load and
\* cleanup preserves.
ObjectInv ==
  /\ TypeOK /\ PinnedIsOwn /\ PinsRemembered
  /\ \A o \in Objs : ObjectLocal(o, obj[o])

------------------------------------------------------------------------------
(* What AgreeOnPinned, SlotsFilled and ManualDataKept need on top of it *)

\* The data of MANUAL programs, from the maps on.
ManualOK(r) ==
  /\ InMapLoop(r) \/ r.pc = "prog" \/ (r.pc = "idle" /\ r.state = "PREPARED") => r.btf
  /\ r.pc = "prog" \/ (r.pc = "idle" /\ r.state = "PREPARED") =>
       ((\E p \in Progs : r.strat[p] = "MANUAL") => r.has_manual)
  /\ r.pc = "idle" /\ r.state = "LOADED" /\ r.ok =>
       \A p \in Progs : r.strat[p] = "MANUAL" => r.btf

\* No map is pinned before its turn, and only before_maps lets ok be false.
PinnedLate(r) ==
  /\ r.pc = "before_maps" \/ (r.pc = "idle" /\ r.state = "OPEN") =>
       r.ok /\ \A m \in Maps : ~r.pinned[m]
  /\ InMapLoop(r) => \A m \in Maps : m > r.idx => ~r.pinned[m]
  /\ r.pc \in {"map", "reuse", "create"} /\ r.idx \in Maps => ~r.pinned[r.idx]

\* Maps that were not reused have been created, with their slots.
CreatedOK(r) ==
  /\ \A m \in Maps : r.creations[m] = 0 => (r.init_slots[m] <=> Slots[m] # {})
  /\ InMapLoop(r) =>
       \A m \in Maps : m < r.idx /\ r.autocreate[m] /\ ~r.reused[m] => r.creations[m] > 0
  /\ r.pc = "pin" /\ ~r.reused[r.idx] => r.creations[r.idx] > 0
  /\ r.pc = "prog" \/ (r.pc = "idle" /\ r.state \in {"PREPARED", "LOADED"} /\ r.ok) =>
       \A m \in Maps : r.autocreate[m] /\ ~r.reused[m] => r.creations[m] > 0

SlotsOK(o, r, ins) ==
  r.ok /\ r.state # "CLOSED" =>
    \A m \in Maps : r.creations[m] = 1 /\ ~r.reused[m] =>
      /\ r.fd[m] = <<o, m, 1>>
      /\ OwnTargets(r, m) => ins[<<o, m, 1>>] = {r.fd[t] : t \in Slots[m]}

\* As long as nobody has failed no pin is taken away.
PinsAgree ==
  (\A o \in Objs : obj[o].ok) =>
    \A o \in Objs, m \in Maps : obj[o].pinned[m] /\ obj[o].state # "CLOSED" =>
      /\ PinPath[m] # NoPath /\ pins[PinPath[m]] # None
      /\ obj[o].fd[m] \in {<<User, m, 1>>, pins[PinPath[m]]}

KeptLocal(o, r, ins) == ManualOK(r) /\ PinnedLate(r) /\ CreatedOK(r) /\ SlotsOK(o, r, ins)

KeptInv ==
  /\ inserted \in [KMaps -> SUBSET (KMaps \cup {Placeholder, Closed})]
  /\ PinsAgree
  /\ \A o \in Objs : KeptLocal(o, obj[o], inserted)
==============================================================================

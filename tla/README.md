# A TLA+ verification of libbpf

libbpf loads BPF programs into the kernel and connects applications with them.
This directory holds TLA+ modules translated from the C sources in `src/src/`,
TLC configurations that check them on small instances, and TLAPS proofs, for every
value of the constants, about the ring buffer consumer, the user ring buffer, the object
life cycle, pinning, links, program loading and the USDT manager. `PROJECT.json` lists the
parts of the library, the runs, the mutants that show each property can fail, the map from definitions to
source lines, the hazards, the findings and the theorems.

## The system

| part | source | where it is modelled |
|---|---|---|
| consumer of one BPF ring buffer | `ringbuf.c` | `RingBuf`, abstract `RingQueue`, proofs `RingBufProofs` |
| ring buffer manager (add, consume, poll, free) | `ringbuf.c` | `RingManager` |
| producer of a user ring buffer | `ringbuf.c` | `UserRingBuf`, proofs `UserRingBufProofs` |
| perf buffer | `libbpf.c` | `PerfBuffer` |
| object life cycle: prepare, load, cleanup, close; maps, reuse and auto-pinning | `libbpf.c` | `BpfObject`, proofs `BpfObjectProofs`, `BpfObjectKeptProofs` |
| pinning calls on maps, programs and objects | `libbpf.c` | `Pinning`, proofs `PinningProofs` |
| links, struct_ops attachment, skeletons | `libbpf.c` | `Links`, proofs `LinksProofs` |
| loading programs and BTF, feature cache, memlock limit | `libbpf.c`, `bpf.c`, `btf.c`, `features.c` | `ProgLoad`, proofs `ProgLoadProofs` |
| USDT manager | `usdt.c`, `usdt.bpf.h` | `Usdt`, proofs `UsdtProofs` |
| BTF deduplication | `btf.c` | `BtfTypes`, `BtfDedup` |
| BTF dump to C | `btf_dump.c` | `BtfDump`; `Btf` composes it with deduplication |
| hash map | `hashmap.c`, `hashmap.h` | `HashMap`, abstract `KeyValueMap` |

Applications use the parts as follows. An object is opened from an ELF file,
prepared (externs, relocation, maps) and loaded (programs); links attach its
programs; ring buffers, perf buffers and maps carry data between the programs and
the application. BTF, the hash map and the string set serve the loader and the
linker.

## Modules

Every module `X` is checked through `MCX.tla`, which only gives values to constants,
and `X.cfg`. A definition whose name contains an underscore and a word for a mistake
(`SetCanonical_NotAdded`) is a mutant: the definition after it with one plausible bug,
used to show that a property would notice.

### RingBuf, RingQueue, RingBufProofs

`RingBuf` is `ringbuf_process_ring()` with one action per shared memory access:
`LoadProd` (producer position), `LoadHdrBusy`/`LoadHdr` (header word),
`CallbackOk`/`CallbackErr`, `Store`/`StoreErr` (consumer position) and `LoopEnd`.
`KernelReserve` and `KernelCommit` are the kernel side and external: they interleave
with every step. The data area is an array of cells, one per byte; positions wrap at
`PosMod`, lengths are rounded as `roundup_len()` does. The variables `log`, `rd`,
`released`, `delivered` and `backlog` are history, in positions that do not wrap.
`RingQueue` is what the consumer promises: a queue from which resolved records are
taken in order. `RingBuf` implements it (`QueueSpec`).

The run uses 32 bytes of data and positions that wrap at 64, records of several
lengths (one not a multiple of 8) and up to four records: both wraps happen, the
ring fills up, records straddle the end. Liveness assumes that producers resolve
what they reserve and that the application keeps calling; nothing in libbpf can
force either, and both are what the API asks of its users.

### UserRingBuf, UserRingBufProofs

Two threads of an application produce into a user ring buffer. The documentation
demands that reserve calls are serialised; the variable `lock` is that lock. Submit
and discard run concurrently with everything. The blocking call is modelled with its
clock: `elapsed` may jump up to one millisecond past the timeout, `epoll_wait` may
wake without enough room. Fairness: calls in progress go on, owners of samples
resolve them, the kernel drains.

### RingManager

The manager above: `Add`, `MapPages`, `Register` and `AddFails` are
`ring_buffer__add()` step by step, `ConsumeNRing`, `ProcessRing`, `CallbackFails` and
`Return` the three consuming calls ring by ring, `PollWait` is `epoll_wait()` on
level-triggered events. A ring is reduced to its records between the two positions,
which is what `RingBuf` shows to be sound. Two rings and three records suffice for
errors and limits to leave records behind on either ring. Strong fairness of
`PollWait` says that an application keeps polling although it makes other calls in
between.

### PerfBuffer

`New` to `NewFails` are `__perf_buffer__new()` CPU by CPU with each step failing,
`Free` to `FreeDone` are `perf_buffer__free()`. `Poll`, `Consume` and `ConsumeBuffer` choose
the buffers to read, and `ReadHead`, `Copy`, `CopyFails`, `Callback`, `WriteTail` are
`perf_event_read_simple()`, which reads the head once, puts a record that crosses the
end of the ring together in a copy, and writes the tail once at the end.
`KernelOutput` and `KernelWake` are the kernel's side, external: it writes through the map
to the current CPU's ring, counts what does not fit as lost, and wakes the poller
later. `perf_poll()` reports readiness once. A call that stops at an error, or because
the callback says so, therefore leaves buffers unread that no event announces again;
`behind` remembers these, and `NoMissedWakeup` says that there is no other way to lose a
wakeup. Rings of three units, records of one and two units and three records make
records wrap and rings overflow on two CPUs, either of which may be offline.

### BpfObject, BpfObjectProofs, BpfObjectKeptProofs

Processes load objects from the same ELF file and meet in the BPF file system. A
descriptor is modelled by what it refers to, since libbpf keeps the number of the
placeholder and moves it to the real map. `pc` is the place in `bpf_object_prepare()`,
`bpf_object__create_maps()`, `bpf_object_load()` and their error paths; each system
call is a step of its own and may fail. `pinner` is history: who made a pin. With two
processes, two maps (an inner one and an outer one that is pinned) and one program the
race of two auto-pins, the retry after EEXIST, and failures at every step all occur.
The application may hand in descriptors with `bpf_map__reuse_fd()` at any time.

What prepare does before the maps (token, vmlinux BTF, externs, relocation, BTF) is
one step with three outcomes: done, failed before relocation, failed after it.

### Pinning, PinningProofs

The calls on one map or program are one step each, since they make one system call that
matters; the calls on an object are a walk with one step per map or program, and so are
their rollbacks, with `OtherPin` (another process pins at one of the paths) between any
two steps. Two maps and two programs, one of which has the name of a map, meet at the
same paths; four calls are enough to pin, change a pin path, pin again and unpin.

The run shows where the rollback can be trusted, and `before.plain` in
`FailedPinUndone` is that condition. With a map that is not created automatically,
or whose pin path was changed after pinning, `pinned` no longer says what is in the
file system: the rollback may stop early. A failed pin also leaves the pin path set,
so that pinning the same map elsewhere returns EINVAL from then on.

### Links, LinksProofs

Five shapes of links, from a single descriptor to a perf event with a BPF link and a
legacy tracefs probe, attached one by one (`Attach`) or by
`bpf_object__attach_skeleton()`, and taken down by `bpf_link__destroy()`,
`bpf_object__detach_skeleton()` and `bpf_object__destroy_skeleton()`. Every system
call is a step and may fail. Descriptors are numbers the kernel reuses at once, lowest
first, and other threads open and close their own (`AppOpen`, `AppClose`): a second
close of a number, or a use after its close, hits somebody else's file and sets `stray`.
`left` and `stuck` are history: descriptors given up by `bpf_link__disconnect()`, and
what the kernel refused to take down.

Two skeletons contain all shapes. A struct_ops map without `BPF_F_LINK` lends its
descriptor to its link, so that the object may be closed only after the link is
destroyed; skeletons do it in that order, and the model closes objects that way. A
legacy probe whose link is pinned or open elsewhere cannot be removed from tracefs when
the link is destroyed, and stays there: the model has it in `stuck`.

### ProgLoad, ProgLoadProofs

Threads load programs of objects, programs by `bpf_prog_load()` directly, and BTF. The
retries nest: the log buffer that doubles while the kernel says ENOSPC
(`bpf_object_load_prog()`, `btf_load_into_kernel()`), the second attempt with corrected
func and line info and the third with a log (`bpf_prog_load()`), and the repetition after
EAGAIN (`sys_bpf_prog_load()`). The feature cache and `memlock_bumped` are shared
without a lock; `limit` is the kernel's `RLIMIT_MEMLOCK`. Five bits stand for the 32 of a
`__u32`, so that doubling reaches its limit. Two threads suffice for one to see the
flag or the cache between two steps of the other.

`FailureExplained` lists when which error may come back. Two of its cases are worth
knowing. `memlock_bumped` is set before `setrlimit()`: another thread can meet the low
limit in between and fail with EPERM. A probe that fails in that window is cached as a
missing feature for the rest of the process. Fairness: threads run and system calls
return.

### Usdt, UsdtProofs

`CollectNote` turns notes into targets with the address arithmetic of
`collect_usdt_targets()`; `FindSpecId`, `AllocateSpecId`, `UpdateSpec`, `MapIp` and
`AttachUprobe` (or `RecordCookie` and `AttachUprobeMulti`) are the loop of
`usdt_manager_attach_usdt()`, one system call a step, any of which may fail; a failure
continues in `bpf_link_usdt_detach()` of the half-built link (`DetachMulti`,
`DetachUprobe`, `UnmapIp`, `ReturnIds`), as does `Destroy`. `probes` is the kernel's: which
uprobes are in place and with which cookie. What a probe that fires finds is
`bpf_usdt_spec_id`, from `usdt.bpf.h`. Binaries are an executable and a library that was both
prelinked and moved by the loader; kernels have zero to four of the features, in the
order the kernel got them. Two links and three ids let ids be recycled, run out and be
lost when the free list cannot grow.

### BtfTypes, BtfDedup, BtfDump, Btf

A type is its kind, its name, `info` (all that two equal types must share besides
what they refer to: size, offsets, values, flags) and the ids it refers to. `BtfDedup`
takes one step per type and pass, in the order of `btf__dedup()`; recursion within a type
(`btf_dedup_is_equiv()`, `btf_dedup_ref_type()`) is a recursive operator that passes the
whole `struct btf_dedup` along. Hash values are what the code hashes, or all equal
(`collide`); candidates come newest first or, after growth of the table, the other way
round. `BtfDump` is ordering and emitting in `btf_dump__dump_type()`; its output is the
sequence of declarations. `Btf` deduplicates an input and then dumps the result in up
to two calls for any types, which is also how the kernel's `vmlinux.h` comes about.

`Faithful` says of every given type that its descriptor in the result says the same, or
resolves its forward declaration, and refers to what its references have become.
`NoDuplicates` compares the result with the coarsest bisimulation of its graph. `Compiles` says of every
declaration printed that whatever C needs complete at that place was printed before.
Inputs are all combinations of three small units over two mutually referring structures
that may be absent, plain or declared only, and pairs of units with a type of every
kind, with and without a base. Larger families (2.2 million states) were checked with
the same result.

### HashMap, KeyValueMap

`hashmap.c` with its chains, powers of two and growth; an allocation may fail at each
of the two places. Hash values have four bits, keys collide at four buckets and part
at eight. The structure implements `KeyValueMap`, answers included: a map with ADD, SET
and UPDATE, a multimap that loses nothing with APPEND.

## Runs

| run | shows |
|---|---|
| `ring` | order, exactly-once delivery, stable samples, header decoding, refinement of `RingQueue`; every record is consumed |
| `user_ring` | no overwriting, commit finds its header, order, timeouts; a blocked producer comes back |
| `manager` | mappings balance, limit over rings, no missed wakeup; polling drains every ring |
| `perf` | whole records in order, no wakeup lost except by a call that stops early, nothing left after a failed setup or a free |
| `object` | ownership of pins, undo of failed loads, agreement, slots, completeness |
| `pins` | a failed object-wide pin leaves no pin; the rollback removes nobody else's |
| `links` | only own descriptors are used; descriptors, attachments and tracefs probes are accounted for |
| `progload` | every failure has its reason, a good program loads when nothing interferes; every load returns |
| `usdt` | a probe that fires finds its own specification; ids are neither lost nor shared |
| `btf` | no loop of canonical ids, no type changes meaning, no duplicates stay; what is dumped compiles and includes what was asked for |
| `hashmap` | refinement of a map and a multimap |
| `btf_split` | violation: a split structure is merged with a base structure that differs from it |

Deadlock is not checked where the system may stop: the user ring (its bound on records
lets producers stop), objects (closed objects take no steps), pinning (the bound on
calls), program loading (all threads are done) and BTF (the dump is over).

`btf_split` shows the one finding. The comment at `btf.c:4292` says that a candidate in
the base that would have to be adjusted "would still be considered as different, because
base BTF is considered to be immutable". That is so for the first split structure. It
makes the base's forward declaration resolve to a split type in the canonical map, and a
second split structure equal to the first then compares equal to the base structure,
which still refers to the forward declaration. A forward declaration of an enum in the
base has the same effect with one split unit. The inputs of `btf` therefore have bases
without forward declarations.

### Known divergences

These properties are stated in the modules, are no part of a run, and fail when added to
the configuration of their module as an INVARIANT:

- `ConsumeUpToN` of `RingManager` with 0 added to `Ns`: `ring_buffer__consume_n(rb, 0)`
  consumes records, "up to n" in the comment notwithstanding.
- `AutoPinsUndone` of `BpfObject`: the pin made for a map whose descriptor the application
  handed in survives a failed load.
- `ManualNeedsPrepared` of `BpfObject`: a program with manual loading can be loaded after
  prepare has failed, since the state says prepared by then.
- `RetryFindsPin` of `BpfObject`: the retry after EEXIST may find the pin gone and create the
  map again.
- `SlotsRefilled` of `BpfObject` with `InnerFd = TRUE`: `init_map_in_map_slots()` frees
  `init_slots`, so that a map-in-map created again by that retry stays empty although load
  succeeds. `SlotsFilled`, which the run checks, is about the first creation
  (`creations < 2`).
- `FindsLastInserted` of `HashMap`: growth reverses the order of entries with one key that
  APPEND made.
- `NoFalseConflict` of `Usdt`: an attach that fails between the entry of an address and its
  uprobe leaves the entry, and later attaches there fail with the "false conflicting IP
  errors" the comment at `usdt.c:900` is about.

## Proofs

`RingBufProofs` proves, for all sizes with at least a header, all position widths that
are multiples of the size (and at least twice as large), all sets of lengths and
limits: type correctness, `InOrderExactlyOnce`, `DrainsBacklog`, `DecodesHeader`,
`NoTornSample`, `PositionsAgree` (the position is the end of what was released, modulo the
width), `NeverMoreThanN` (a call with a limit keeps it), and that `RingBuf` implements
`RingQueue`. None of these is inductive alone. The inductive invariant `RingInv` adds
where each record of the log starts (the ends are consecutive), that wrapped positions
are the unwrapped ones modulo `PosMod`, that at most `Size` bytes are unreleased, and
that each byte of an unreleased record still belongs to it, its header cell telling the
record's length and state. The module begins with the lemmas about `%` on which the steps
that wrap rest: two positions less than `Size` apart fall on different bytes.

`BpfObjectProofs` proves, for any sets of processes, maps and programs and any pin
paths (two maps may share one), that `BpfObject` is type correct and satisfies
`PinnedIsOwn`, `FailedLoadUndone` and the action property `LoadComplete`. The inductive
invariant `ObjectInv` adds that every pin a process made is remembered by a `pinned` flag
of one of its maps (`PinsRemembered`) and, for each place in prepare, load and cleanup,
how far the walk over the maps has come: which maps have been created and how often
(`CreationsBounded`), which descriptors refer to a kernel map (`Progress`), and which
pins the cleanup has already removed (`Undone`). Steps that touch no pin share the lemma
`LocalStep`; the two that do, `PinMap` and `UnpinNext`, rest on one argument: a path
holds one kernel map, and that map names the object and the map that created it.

`BpfObjectKeptProofs` goes on from there, under the same assumptions, to `AgreeOnPinned`,
`SlotsFilled` and `ManualDataKept`. `KeptInv` is inductive together with `ObjectInv`:

- `PinsAgree`: as long as no load has failed, each pinned map of each object is the kernel
  map at its path or one the application handed in. It is an invariant of the race because
  both ways to set `pinned` (finding the pin, making it) take the descriptor from the path
  or put it there, and only a cleanup takes a pin away;
- `PinnedLate`: no map is pinned before the walk reaches it, so that the retry after EEXIST
  starts from an unpinned map;
- `CreatedOK`, `SlotsOK`: a map that was not reused has been created once its turn is over,
  and the kernel map of the first creation holds the object's own inner maps. Inner maps
  come before outer ones (`ObjectAssumption`), so their descriptors do not move afterwards;
- `ManualOK`: what a MANUAL program needs stays from the maps on, and a load that frees it
  has seen that no program is MANUAL.

`UsdtProofs` proves, for any binaries, kernels, number of links and number of ids, that
`Usdt` is type correct and satisfies `FiresWithItsSpec` and `IdsConserved`. The inductive
invariant `UsdtInv`, which is defined beside the specification in `Usdt`, has a part for
each thing an attach or detach in progress may have left half done:

- `OpOK`: the place of the call and the targets it works on;
- `IdsOK`: every id below the next new one is in exactly one place: the free
  list, one link, or given up for good;
- `ProbesOK`: a uprobe in place resolves, by cookie or by address, to an id that belongs to
  its own link and whose specification is its own;
- `IpsOK`: without cookies an address has one user;
- `DetachOK`: the uprobes a detach has passed are gone, without which `ReturnIds` would
  free an id still in use;
- `HashOK`: what the hash of an attach in progress says was stored is stored.

It assumes of a binary (`MappingAssumption`) that a byte of the file is mapped executable
at one address only and that mappings do not overlap with different biases; of kernels,
that multi-uprobes come with cookies.

`UserRingBufProofs` proves, for all sizes with at least a header, all position widths that
are multiples of the size and of the width of the header's offset field, and any number of
threads, `NeverOverwrites`, `CommitHitsOwnHeader`, `DrainedInOrder` and the action property
`NoEarlyTimeout`. Here the roles of `RingBuf` are exchanged and the producers are many, so
the inductive invariant `UserInv` (in `UserRingBuf`) also speaks about each thread:

- `LogContiguous`: records follow each other without a gap;
- `PositionsInv`: both positions are the ends of the log and of what is released, modulo
  the width, and at most `Size` bytes lie between them; the consumer position a reserve
  call has read is stale but one that was right once, so the room it computes is there;
- `MemoryInv`: every byte of an unreleased record is still its own, header cell and data;
- `ThreadsInv`: who holds the lock is inside reserve, and who owns a sample owns a busy
  record that nobody else owns;
- `KernelInv`: the kernel has passed resolved records only;
- `WaitInv`: the last round of a blocking reserve begins after its timeout.

`PinningProofs` proves, for any directories, any sequences of map and program names (equal
ones included) and any number of calls, `FailedPinUndone` and `RollbackKeepsOthers`, both
action properties. The inductive invariant `PinningInv` (in `Pinning`) says where a call in
progress stands. `MapsDone` and `ProgsDone` are the maps and programs it may have pinned and
has not unpinned again; `MadePins` are the pins it would find for them, by the pin path of
a map and the path of a program. `WorkKnown` says that every pin of the object was there
before the call or is in `MadePins`, that the flag of each of these maps is right, and that
what lies at each of these paths is the object's own. The first part makes a call that
returns an error end with `MadePins` empty; the last is why the rollback unlinks nothing of
others. Two facts are hidden in it: a map found already pinned at the right path counts as
done, and is unpinned by the rollback although an earlier call pinned it; and
`bpf_object__pin()` takes the maps back by `bpf_object__unpin_maps()`, which stops at the
first map it cannot unpin and therefore needs each map's pin to be where the directory says.

`ProgLoadProofs` proves, for any number of threads, any kernels and loads, any number of
attempts and any width of the size field, `FailureExplained` and `GoodProgramLoads`. The
inductive invariant `LoadInv` (in `ProgLoad`) has a part about what is shared, `SharedOK`:
the cache claims no feature the kernel lacks, and a set `memlock_bumped` means that the limit
has been dealt with or that some thread is at its `setrlimit()`. The rest, `ThreadOK`, is
about one thread's record, its load, the kernel and the flag, which is only ever set; a
step is therefore proved to keep `ThreadOK` as a fact about two records, and `StepFrame`
carries it over to all threads. `ThreadOK` says what each nested retry may rely on:

- `CallsOK`, `BumpOK`, `FeatureOK`: where a sub-call returns to, that whoever is past
  `bump_rlimit_memlock()` has its effect, and that a name goes only to a kernel that takes it;
- `SizeOK`: the buffer of libbpf is empty before the first log and can be doubled wherever
  it will be;
- `ErrnoOK`, `LastTryOK`: what the errno in hand says about the last system call, and that
  the last try of `bpf_prog_load()` meets long records only if the first failed for
  another reason;
- `GoodOK`, `Explained`: the two properties, at every place instead of the last.

`LinksProofs` proves, for any skeletons (sequences of link shapes of any length), any number
of descriptors, attachments and calls and every kernel, `OwnDescriptorsOnly`,
`DescriptorsAccounted` and `AttachmentsAccounted`. The constants need one assumption: the
descriptors of the object fit into the table. The inductive invariant `LinksInv` (in `Links`)
rests on an idea of ownership. `Owned` says which descriptors each owner takes to be open,
and on which files: the object, each link, the links given up by `bpf_link__disconnect()`,
and the call in progress. `Accounted` says that each of these is open on that very file, that
no descriptor has two owners, and that only descriptors of the application have none. A
close then always hits the owner's file, however the kernel has reused the number; and what
is open at the end belongs to somebody. Opening, closing, handing a descriptor from a call
to its link, and closing an object are one lemma each (`AccountOpen`, `AccountClose`,
`AccountMove`, `AccountCloseAll`); every action is one of these. The other parts say

- `LinksShaped`, `CallInv`, `AttachInv`, `DestroyInv`: what a link of each shape has in its
  fields, and what a call has in hand at each of its places, the error paths included;
- `IdsDiffer`: attachments in use have different numbers, so that a file names its link;
- `ProbesInv`: a legacy probe in tracefs is there for a link, for the attachment under way,
  or because the kernel refused to remove it;
- `ValuesInv`: the same for struct_ops values.

Only model-checked: liveness under fairness, which the prover does not reach; the ring
manager and the perf buffer, whose main properties are about polls that eventually drain
rings; the hash map, whose chains are rebuilt by folds over sequences; and BTF, whose
operators are recursive.

## Not modelled

- Object open, ELF collection, relocation of programs, externs, CO-RE: sequential
  transformations of file contents and instructions. `BpfObject` has their success or
  failure as one step.
- Static linker, loader generation, ELF and zip reading: the same, with files or
  instruction streams as results.
- The raw form of BTF, its string section and writers; BTF relocation and distilling,
  which match types by names and sizes.
- In the dump: text, names and their suffixes, padding, the `__builtin_va_list` case and
  dumping of data. The EINVAL branches of deduplication that well-formed BTF does not
  reach.
- In links: the parsing of section names, `bpf_link__update_program()`,
  `bpf_link__update_map()` and `bpf_link__detach()`.
- In program loading: the loader generation branch, tokens with their own feature cache,
  and the rewriting of CO-RE lines in the log.
- In USDT: the parsing of argument strings and of ELF notes.
- String set, netlink, system call wrappers other than those of program loading, kernel
  probes, utilities and BPF-side headers other than the USDT lookup: no state between
  calls, or a thin layer over a part that is modelled.

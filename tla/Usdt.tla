--------------------------------- MODULE Usdt ---------------------------------
(***************************************************************************)
(* usdt_manager: attaching and detaching user statically defined probes.   *)
(* Attaching to "provider:name" collects the matching notes of a binary,   *)
(* gives every distinct argument specification an id in the specs map and  *)
(* places uprobes.  A uprobe finds its specification through the BPF       *)
(* cookie it was attached with or, on a kernel without cookies, by looking *)
(* its instruction pointer up in a second map.                             *)
(*                                                                         *)
(* Every system call is a step of its own, since a uprobe that is already  *)
(* in place may fire between any two.  The manager has no lock: one call   *)
(* on the object runs at a time.  Argument strings are members of Args and *)
(* the user's cookie is the link it was given for.                         *)
(***************************************************************************)
EXTENDS Integers, Sequences, FiniteSets

CONSTANTS
  Links,      \* struct bpf_link_usdt objects
  Names,      \* provider:name pairs
  Args,       \* argument strings of notes
  BadArgs,    \* those parse_usdt_spec() rejects
  Binaries,   \* ELF files as loaded into a process
  Kernels,    \* what kernels support, as usdt_manager_new() finds out
  MaxSpecs    \* max_entries of the specs map

None == "none"
NoId == -1
Spec0 == [args |-> None, cookie |-> None]   \* the all-zeros array element
Ids == 0 .. (MaxSpecs - 1)

\* Where the pages of a binary are in the process: a library where the loader
\* put it (/proc/PID/maps), an executable where its segments say.
Mappings(b) == {s \in (IF b.dyn THEN b.vmas ELSE b.segs) : s.exec}

InSegment(s, addr) == s.start <= addr /\ addr < s.end

Segment == [start : Int, end : Int, offset : Int, exec : BOOLEAN]

Note == [name : Names, args : Args, loc : Int, base : Int,
         sema : Int, combo : BOOLEAN]

ASSUME UsdtAssumption ==
  /\ MaxSpecs \in Nat /\ BadArgs \subseteq Args
  /\ None \notin Links
  /\ Kernels \subseteq [has_bpf_cookie : BOOLEAN, has_sema_refcnt : BOOLEAN,
                          has_uprobe_multi : BOOLEAN, has_uprobe_syscall : BOOLEAN]
  /\ \A f \in Kernels : f.has_uprobe_multi => f.has_bpf_cookie
  /\ \A b \in Binaries :
       /\ b.dyn \in BOOLEAN /\ b.base \in Int
       /\ b.segs \subseteq Segment /\ b.vmas \subseteq Segment
       /\ b.notes \in Seq(Note)

FileEnd(s) == s.offset + (s.end - s.start)

InFile(s, off) == s.offset <= off /\ off < FileEnd(s)

\* A byte of the file is mapped at one address, and two mappings with
\* different biases do not meet.
ASSUME MappingAssumption ==
  \A b \in Binaries : \A s, t \in Mappings(b) :
    \/ s.start - s.offset = t.start - t.offset
    \/ FileEnd(s) < t.offset
    \/ FileEnd(t) < s.offset

VARIABLES
  bin,        \* the binary
  man,        \* kernel features, free_spec_ids and next_free_spec_id
  specs_map,  \* __bpf_usdt_specs
  ip_map,     \* __bpf_usdt_ip_to_spec_id, a function on its keys
  links,      \* the USDT links of the application
  probes,     \* uprobes attached in the kernel
  op,         \* the attach or detach in progress
  lost        \* ids given up: those of disconnected links, or leaked on ENOMEM

vars == <<bin, man, specs_map, ip_map, links, probes, op, lost>>

Quiet == op.pc = "idle"

Idle == [pc |-> "idle", link |-> None, name |-> None, pid |-> FALSE, k |-> 1,
         targets |-> <<>>, i |-> 1, id |-> NoId,
         specs_hash |-> [a \in Args |-> NoId]]

NoLink == [live |-> FALSE, disconnected |-> FALSE, spec_ids |-> <<>>,
           uprobes |-> <<>>]

Target(i) == op.targets[i]

------------------------------------------------------------------------------
(* collect_usdt_targets() *)

find_elf_seg(addr) == {s \in bin.segs : InSegment(s, addr)}

find_vma_seg(off) == {s \in bin.vmas : s.exec /\ InFile(s, off)}

\* The address of the note, compensated for prelink.
NoteIp(n) ==
  IF bin.base # 0 /\ n.base # 0 THEN n.loc + (bin.base - n.base) ELSE n.loc

\* The segment of an address that has one; PT_LOAD segments do not overlap.
ElfSeg(addr) == CHOOSE s \in find_elf_seg(addr) : TRUE

RelIp(n) ==
  LET s == ElfSeg(NoteIp(n)) IN NoteIp(n) - s.start + s.offset

\* Mutant: the address within the library.
AbsIp_Relative(n) == NoteIp(n)

\* The address to look the specification up by: in a library and without
\* cookies, where the process has the library mapped.
AbsIp(n) ==
  IF bin.dyn /\ ~man.has_bpf_cookie
  THEN LET s == CHOOSE s \in find_vma_seg(RelIp(n)) : TRUE
       IN  s.start - s.offset + RelIp(n)
  ELSE NoteIp(n)

\* The early returns for a matching note.
NoteError(n) ==
  \/ find_elf_seg(NoteIp(n)) = {}
  \/ ~ElfSeg(NoteIp(n)).exec
  \/ bin.dyn /\ ~man.has_bpf_cookie /\ (~op.pid \/ find_vma_seg(RelIp(n)) = {})
  \/ n.sema # 0 /\ ~man.has_sema_refcnt
  \/ n.sema # 0 /\ (find_elf_seg(n.sema) = {} \/ ElfSeg(n.sema).exec)
  \/ n.args \in BadArgs

\* A uprobe goes on the nop10 of a nop,nop10 pair.
ComboOffset(n) == IF man.has_uprobe_syscall /\ n.combo THEN 1 ELSE 0

usdt_target(n) == [abs_ip |-> AbsIp(n) + ComboOffset(n),
                   rel_ip |-> RelIp(n) + ComboOffset(n),
                   spec_str |-> n.args]

\* usdt_manager_attach_usdt() for provider:name, with or without a pid.
AttachUsdt(l, name, pid) ==
  /\ Quiet /\ ~links[l].live
  /\ op' = [Idle EXCEPT !.pc = "collect", !.link = l, !.name = name, !.pid = pid]
  /\ UNCHANGED <<bin, man, specs_map, ip_map, links, probes, lost>>

CollectNote ==
  /\ op.pc = "collect" /\ op.k <= Len(bin.notes)
  /\ LET n == bin.notes[op.k]
     IN  op' = IF n.name # op.name THEN [op EXCEPT !.k = @ + 1]
               ELSE IF NoteError(n) THEN Idle
               ELSE [op EXCEPT !.k = @ + 1,
                               !.targets = Append(@, usdt_target(n))]
  /\ UNCHANGED <<bin, man, specs_map, ip_map, links, probes, lost>>

\* An allocation failure before there is a link to destroy.
CollectFails ==
  /\ op.pc = "collect"
  /\ op' = Idle
  /\ UNCHANGED <<bin, man, specs_map, ip_map, links, probes, lost>>

CollectDone ==
  /\ op.pc = "collect" /\ op.k > Len(bin.notes)
  /\ IF op.targets = <<>>
     THEN op' = Idle /\ UNCHANGED links
     ELSE /\ op' = [Idle EXCEPT !.pc = "alloc", !.link = op.link,
                               !.targets = op.targets]
          /\ links' = [links EXCEPT ![op.link] = [NoLink EXCEPT !.live = TRUE]]
  /\ UNCHANGED <<bin, man, specs_map, ip_map, probes, lost>>

------------------------------------------------------------------------------
(* The loop of usdt_manager_attach_usdt() over the targets *)

\* err_out: bpf_link__destroy() of the half-built link.
ErrOut == [Idle EXCEPT !.pc = "unmulti", !.link = op.link]

AfterSpec == IF man.has_bpf_cookie THEN "probe" ELSE "ip"

FindSpecId ==
  /\ op.pc = "alloc" /\ op.specs_hash[Target(op.i).spec_str] # NoId
  /\ op' = [op EXCEPT !.pc = AfterSpec,
                      !.id = op.specs_hash[Target(op.i).spec_str]]
  /\ UNCHANGED <<bin, man, specs_map, ip_map, links, probes, lost>>

\* Mutant: the id stays in the free list.
NewSpecId_Kept(id) ==
  IF man.free_spec_ids # <<>>
  THEN id = man.free_spec_ids[Len(man.free_spec_ids)] /\ UNCHANGED man
  ELSE /\ man.next_free_spec_id < MaxSpecs
       /\ id = man.next_free_spec_id
       /\ man' = [man EXCEPT !.next_free_spec_id = @ + 1]

\* The free list first, its last element; then the next id never used.
NewSpecId(id) ==
  IF man.free_spec_ids # <<>>
  THEN /\ id = man.free_spec_ids[Len(man.free_spec_ids)]
       /\ man' = [man EXCEPT !.free_spec_ids = SubSeq(@, 1, Len(@) - 1)]
  ELSE /\ man.next_free_spec_id < MaxSpecs
       /\ id = man.next_free_spec_id
       /\ man' = [man EXCEPT !.next_free_spec_id = @ + 1]

AllocateSpecId ==
  /\ op.pc = "alloc" /\ op.specs_hash[Target(op.i).spec_str] = NoId
  /\ \E id \in Ids :
       /\ NewSpecId(id)
       /\ links' = [links EXCEPT ![op.link].spec_ids = Append(@, id)]
       /\ op' = [op EXCEPT !.pc = "spec", !.id = id,
                           !.specs_hash[Target(op.i).spec_str] = id]
  /\ UNCHANGED <<bin, specs_map, ip_map, probes, lost>>

\* E2BIG, or ENOMEM from the link's array or from the hash.
AllocateFails ==
  /\ op.pc = "alloc" /\ op.specs_hash[Target(op.i).spec_str] = NoId
  /\ op' = ErrOut
  /\ UNCHANGED <<bin, man, specs_map, ip_map, links, probes, lost>>

UpdateSpec ==
  /\ op.pc = "spec"
  /\ \/ /\ specs_map' = [specs_map EXCEPT ![op.id] =
                          [args |-> Target(op.i).spec_str, cookie |-> op.link]]
        /\ op' = [op EXCEPT !.pc = AfterSpec]
     \/ op' = ErrOut /\ UNCHANGED specs_map
  /\ UNCHANGED <<bin, man, ip_map, links, probes, lost>>

\* BPF_NOEXIST: an address that has an entry is a collision.
MapIp ==
  /\ op.pc = "ip"
  /\ \/ /\ Target(op.i).abs_ip \notin DOMAIN ip_map
        /\ ip_map' = [ip \in DOMAIN ip_map \cup {Target(op.i).abs_ip} |->
                       IF ip = Target(op.i).abs_ip THEN op.id ELSE ip_map[ip]]
        /\ op' = [op EXCEPT !.pc = "probe"]
     \/ op' = ErrOut /\ UNCHANGED ip_map
  /\ UNCHANGED <<bin, man, specs_map, links, probes, lost>>

\* A uprobe in the kernel, with the address and the specification it is for.
Probe(i, id) ==
  [owner |-> op.link, n |-> i, rel_ip |-> Target(i).rel_ip, cookie |-> id,
   abs_ip |-> Target(i).abs_ip,
   want |-> [args |-> Target(i).spec_str, cookie |-> op.link]]

NextTarget(done) ==
  IF op.i < Len(op.targets) THEN [op EXCEPT !.pc = "alloc", !.i = @ + 1]
  ELSE done

AttachUprobe ==
  /\ op.pc = "probe" /\ ~man.has_uprobe_multi
  /\ \/ /\ probes' = probes \cup
             {Probe(op.i, IF man.has_bpf_cookie THEN op.id ELSE 0)}
        /\ links' = [links EXCEPT ![op.link].uprobes =
                       Append(@, Target(op.i).abs_ip)]
        /\ op' = NextTarget(Idle)
     \/ op' = ErrOut /\ UNCHANGED <<links, probes>>
  /\ UNCHANGED <<bin, man, specs_map, ip_map, lost>>

\* The cookie of a multi-uprobe target is the id its specification has.
RecordCookie ==
  /\ op.pc = "probe" /\ man.has_uprobe_multi
  /\ op' = NextTarget([op EXCEPT !.pc = "multi"])
  /\ UNCHANGED <<bin, man, specs_map, ip_map, links, probes, lost>>

AttachUprobeMulti ==
  /\ op.pc = "multi"
  /\ \/ /\ probes' = probes \cup
             {Probe(i, op.specs_hash[Target(i).spec_str]) : i \in DOMAIN op.targets}
        /\ op' = Idle
     \/ op' = ErrOut /\ UNCHANGED probes
  /\ UNCHANGED <<bin, man, specs_map, ip_map, links, lost>>

------------------------------------------------------------------------------
(* bpf_link__disconnect(), and bpf_link__destroy() with bpf_link_usdt_detach() *)

Disconnect(l) ==
  /\ Quiet /\ links[l].live
  /\ links' = [links EXCEPT ![l].disconnected = TRUE]
  /\ UNCHANGED <<bin, man, specs_map, ip_map, probes, op, lost>>

SeqRange(s) == {s[i] : i \in DOMAIN s}

\* A disconnected link is only freed: its uprobes stay, and so do their ids.
Destroy(l) ==
  /\ Quiet /\ links[l].live
  /\ IF links[l].disconnected
     THEN /\ links' = [links EXCEPT ![l] = NoLink]
          /\ probes' = {[p EXCEPT !.owner = IF @ = l THEN None ELSE @] : p \in probes}
          /\ lost' = lost \cup SeqRange(links[l].spec_ids)
          /\ UNCHANGED op
     ELSE /\ op' = [Idle EXCEPT !.pc = "unmulti", !.link = l]
          /\ UNCHANGED <<links, probes, lost>>
  /\ UNCHANGED <<bin, man, specs_map, ip_map>>

DetachMulti ==
  /\ op.pc = "unmulti"
  /\ probes' = IF man.has_uprobe_multi THEN {p \in probes : p.owner # op.link}
               ELSE probes
  /\ op' = [op EXCEPT !.pc = "unprobe"]
  /\ UNCHANGED <<bin, man, specs_map, ip_map, links, lost>>

UprobeCnt == Len(links[op.link].uprobes)

DetachUprobe ==
  /\ op.pc = "unprobe" /\ op.i <= UprobeCnt
  /\ probes' = {p \in probes : ~(p.owner = op.link /\ p.n = op.i)}
  /\ op' = IF man.has_bpf_cookie THEN [op EXCEPT !.i = @ + 1]
           ELSE [op EXCEPT !.pc = "unip"]
  /\ UNCHANGED <<bin, man, specs_map, ip_map, links, lost>>

UnmapIp ==
  /\ op.pc = "unip"
  /\ ip_map' = [ip \in DOMAIN ip_map \ {links[op.link].uprobes[op.i]} |-> ip_map[ip]]
  /\ op' = [op EXCEPT !.pc = "unprobe", !.i = @ + 1]
  /\ UNCHANGED <<bin, man, specs_map, links, probes, lost>>

\* The ids go to the end of the free list; if the list cannot grow they leak.
\* A list of no elements may or may not be a null pointer.
ReturnIds ==
  /\ op.pc = "unprobe" /\ op.i > UprobeCnt
  /\ LET ids == links[op.link].spec_ids
     IN  \/ /\ \E list \in BOOLEAN :
                 /\ man.free_spec_ids \o ids # <<>> => list
                 /\ man' = [man EXCEPT !.free_spec_ids = @ \o ids, !.list = list]
            /\ UNCHANGED lost
         \/ /\ man.list
            /\ lost' = lost \cup SeqRange(ids)
            /\ UNCHANGED man
  /\ links' = [links EXCEPT ![op.link] = NoLink]
  /\ op' = Idle
  /\ UNCHANGED <<bin, specs_map, ip_map, probes>>

------------------------------------------------------------------------------

Init ==
  /\ bin \in Binaries
  /\ \E f \in Kernels :
       man = [has_bpf_cookie |-> f.has_bpf_cookie,
              has_sema_refcnt |-> f.has_sema_refcnt,
              has_uprobe_multi |-> f.has_uprobe_multi,
              has_uprobe_syscall |-> f.has_uprobe_syscall,
              free_spec_ids |-> <<>>, list |-> FALSE, next_free_spec_id |-> 0]
  /\ specs_map = [id \in Ids |-> Spec0]
  /\ ip_map = [ip \in {} |-> NoId]
  /\ links = [l \in Links |-> NoLink]
  /\ probes = {} /\ lost = {}
  /\ op = Idle

Next ==
  \/ \E l \in Links, name \in Names, pid \in BOOLEAN : AttachUsdt(l, name, pid)
  \/ CollectNote \/ CollectFails \/ CollectDone
  \/ FindSpecId \/ AllocateSpecId \/ AllocateFails
  \/ UpdateSpec \/ MapIp
  \/ AttachUprobe \/ RecordCookie \/ AttachUprobeMulti
  \/ \E l \in Links : Disconnect(l) \/ Destroy(l)
  \/ DetachMulti \/ DetachUprobe \/ UnmapIp \/ ReturnIds

Spec == Init /\ [][Next]_vars

------------------------------------------------------------------------------
(* What a uprobe finds when it fires: __bpf_usdt_spec_id() in usdt.bpf.h *)

\* Where the uprobe fires, kernel's doing: the addresses its file offset is
\* mapped at.
FiredIps(p) ==
  {m.start - m.offset + p.rel_ip : m \in {s \in Mappings(bin) : InFile(s, p.rel_ip)}}

bpf_usdt_spec_id(p, ip) ==
  IF man.has_bpf_cookie THEN p.cookie
  ELSE IF ip \in DOMAIN ip_map THEN ip_map[ip] ELSE NoId

\* Whenever a uprobe fires it finds the argument specification of its own
\* place and the cookie of its own link, whatever has been attached, detached,
\* failed or disconnected meanwhile and wherever an attach or a detach stands.
FiresWithItsSpec ==
  \A p \in probes : \A ip \in FiredIps(p) :
    /\ bpf_usdt_spec_id(p, ip) \in Ids
    /\ specs_map[bpf_usdt_spec_id(p, ip)] = p.want

ManRecord ==
  [has_bpf_cookie : BOOLEAN, has_sema_refcnt : BOOLEAN, has_uprobe_multi : BOOLEAN,
   has_uprobe_syscall : BOOLEAN, free_spec_ids : Seq(Ids), list : BOOLEAN,
   next_free_spec_id : 0 .. MaxSpecs]

SpecRecord == [args : Args \cup {None}, cookie : Links \cup {None}]

LinkRecord ==
  [live : BOOLEAN, disconnected : BOOLEAN, spec_ids : Seq(Ids), uprobes : Seq(Int)]

ProbeRecord ==
  [owner : Links \cup {None}, n : Nat \ {0}, rel_ip : Int, cookie : Int,
   abs_ip : Int, want : SpecRecord]

TargetRecord == [abs_ip : Int, rel_ip : Int, spec_str : Args]

OpRecord ==
  [pc : {"idle", "collect", "alloc", "spec", "ip", "probe", "multi",
         "unmulti", "unprobe", "unip"},
   link : Links \cup {None}, name : Names \cup {None}, pid : BOOLEAN,
   k : Nat \ {0}, targets : Seq(TargetRecord), i : Nat \ {0},
   id : Ids \cup {NoId}, specs_hash : [Args -> Ids \cup {NoId}]]

TypeOK ==
  /\ bin \in Binaries
  /\ man \in ManRecord /\ (man.has_uprobe_multi => man.has_bpf_cookie)
  /\ specs_map \in [Ids -> SpecRecord]
  /\ \A ip \in DOMAIN ip_map : ip \in Int /\ ip_map[ip] \in Ids
  /\ links \in [Links -> LinkRecord]
  /\ probes \subseteq ProbeRecord
  /\ op \in OpRecord
  /\ lost \subseteq Ids

Attaching == op.pc \in {"alloc", "spec", "ip", "probe", "multi"}
Detaching == op.pc \in {"unmulti", "unprobe", "unip"}

OpOK ==
  /\ op.pc = "collect" => op.link \in Links /\ ~links[op.link].live
  /\ (Attaching \/ Detaching) =>
       /\ op.link \in Links
       /\ links[op.link].live /\ ~links[op.link].disconnected
  /\ Attaching =>
       /\ op.i \in DOMAIN op.targets
       /\ ~man.has_uprobe_multi => Len(links[op.link].uprobes) = op.i - 1
  /\ op.pc = "ip" => ~man.has_bpf_cookie
  /\ op.pc = "multi" => man.has_uprobe_multi
  /\ op.pc = "unip" => ~man.has_bpf_cookie /\ op.i <= UprobeCnt
  /\ \A l \in Links : ~links[l].live => links[l] = NoLink

\* Ids: no id is recorded twice, and none before it is handed out.
IdsOK ==
  /\ \A i, j \in DOMAIN man.free_spec_ids :
       man.free_spec_ids[i] = man.free_spec_ids[j] => i = j
  /\ \A l \in Links : \A i, j \in DOMAIN links[l].spec_ids :
       links[l].spec_ids[i] = links[l].spec_ids[j] => i = j
  /\ \A l, m \in Links : l # m =>
       SeqRange(links[l].spec_ids) \cap SeqRange(links[m].spec_ids) = {}
  /\ \A l \in Links :
       SeqRange(links[l].spec_ids) \cap (SeqRange(man.free_spec_ids) \cup lost) = {}
  /\ SeqRange(man.free_spec_ids) \cap lost = {}
  /\ SeqRange(man.free_spec_ids) \cup lost \cup UNION {SeqRange(links[l].spec_ids) : l \in Links}
       = 0 .. (man.next_free_spec_id - 1)

\* The ids a uprobe may resolve to: those of its link, or given up with it.
IdsFor(p) == IF p.owner = None THEN lost ELSE SeqRange(links[p.owner].spec_ids)

IdFor(p) == IF man.has_bpf_cookie THEN p.cookie ELSE ip_map[p.abs_ip]

ProbesOK ==
  \A p \in probes :
    /\ ~man.has_bpf_cookie => p.abs_ip \in DOMAIN ip_map /\ FiredIps(p) \subseteq {p.abs_ip}
    /\ IdFor(p) \in IdsFor(p)
    /\ specs_map[IdFor(p)] = p.want
    /\ p.owner # None /\ ~man.has_uprobe_multi =>
         /\ p.n \in DOMAIN links[p.owner].uprobes
         /\ links[p.owner].uprobes[p.n] = p.abs_ip
    /\ p.owner # None => links[p.owner].live

\* The uprobe of a link whose address entry is still in place: all of them,
\* less those a detach has dealt with.
Mapped(l, n) ==
  /\ n \in DOMAIN links[l].uprobes
  /\ ~(Detaching /\ l = op.link /\ n < op.i)

\* Without cookies an address has one user.
IpsOK ==
  ~man.has_bpf_cookie =>
    /\ \A l \in Links : \A n \in DOMAIN links[l].uprobes :
         Mapped(l, n) => links[l].uprobes[n] \in DOMAIN ip_map
    /\ \A l, m \in Links : \A i \in DOMAIN links[l].uprobes, j \in DOMAIN links[m].uprobes :
         links[l].uprobes[i] = links[m].uprobes[j] => l = m /\ i = j
    /\ \A l \in Links : \A n \in DOMAIN links[l].uprobes : \A p \in probes :
         p.abs_ip = links[l].uprobes[n] => p.owner = l /\ p.n = n
    /\ op.pc = "unip" => \A p \in probes : ~(p.owner = op.link /\ p.n = op.i)
    /\ op.pc = "probe" =>
         /\ Target(op.i).abs_ip \in DOMAIN ip_map
         /\ ip_map[Target(op.i).abs_ip] = op.id
         /\ \A p \in probes : p.abs_ip # Target(op.i).abs_ip
         /\ \A l \in Links : \A n \in DOMAIN links[l].uprobes :
              links[l].uprobes[n] # Target(op.i).abs_ip
    /\ \A i \in DOMAIN op.targets :
         \A m \in Mappings(bin) : InFile(m, Target(i).rel_ip) =>
           m.start - m.offset + Target(i).rel_ip = Target(i).abs_ip

\* The uprobes a detach has dealt with are gone.
DetachOK ==
  Detaching =>
    /\ ~man.has_uprobe_multi => \A p \in probes : p.owner = op.link => p.n >= op.i
    /\ man.has_uprobe_multi /\ op.pc # "unmulti" => \A p \in probes : p.owner # op.link

\* The ids of the attach in progress: its hash holds ids of the link, and
\* their specifications are in the map but for the one being stored.
HashOK ==
  Attaching =>
    /\ \A a \in Args : op.specs_hash[a] # NoId =>
         /\ op.specs_hash[a] \in SeqRange(links[op.link].spec_ids)
         /\ \/ op.pc = "spec" /\ a = Target(op.i).spec_str
            \/ specs_map[op.specs_hash[a]] = [args |-> a, cookie |-> op.link]
    /\ \A a, b \in Args :
         op.specs_hash[a] = op.specs_hash[b] => a = b \/ op.specs_hash[a] = NoId
    /\ op.pc \in {"spec", "ip", "probe"} =>
         op.id # NoId /\ op.id = op.specs_hash[Target(op.i).spec_str]
    /\ op.pc = "spec" => \A p \in probes : IdFor(p) # op.id
    /\ \A i \in DOMAIN op.targets :
         (i < op.i \/ op.pc = "multi") => op.specs_hash[Target(i).spec_str] # NoId

\* The inductive invariant behind the properties of this module: an id has one
\* place, a uprobe resolves to an id of its own link, an address has one user.
UsdtInv == TypeOK /\ OpOK /\ IdsOK /\ ProbesOK /\ IpsOK /\ DetachOK /\ HashOK

\* Where an id is recorded.
PlacesOf(id) ==
  {<<"free", i>> : i \in {j \in DOMAIN man.free_spec_ids : man.free_spec_ids[j] = id}}
  \cup (UNION {{<<l, i>> : i \in {j \in DOMAIN links[l].spec_ids : links[l].spec_ids[j] = id}}
               : l \in Links})
  \cup (IF id \in lost THEN {<<"lost", 0>>} ELSE {})

\* Every id handed out so far is in exactly one place: once in the free list,
\* once in one link, or given up for good by a disconnected link or a free
\* list that could not grow.  So E2BIG means that the ids really are in use.
IdsConserved ==
  \A id \in Ids : Cardinality(PlacesOf(id)) =
                    IF id < man.next_free_spec_id THEN 1 ELSE 0

\* An entry of the address map belongs to a uprobe once no call is in
\* progress ("otherwise we'll run into false conflicting IP errors").
NoFalseConflict ==
  Quiet => \A ip \in DOMAIN ip_map : \E p \in probes : ip \in FiredIps(p)
==============================================================================

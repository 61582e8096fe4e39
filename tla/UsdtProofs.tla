------------------------------ MODULE UsdtProofs ------------------------------
(***************************************************************************)
(* The inductive invariant UsdtInv of Usdt, for any number of links, notes *)
(* and ids, and what follows from it.                                      *)
(***************************************************************************)
EXTENDS Usdt, FiniteSetTheorems, TLAPS

\* NoId is no id, and ids are integers.
LEMMA NoIdFresh == NoId \notin Ids /\ Ids \subseteq Int /\ MaxSpecs \in Nat
BY UsdtAssumption DEF NoId, Ids

\* An empty array records no id.
LEMMA RangeEmpty == SeqRange(<<>>) = {}
BY DEF SeqRange

\* An append adds its element to the ids an array records.
LEMMA RangeAppend ==
  ASSUME NEW S, NEW s \in Seq(S), NEW x \in S
  PROVE  SeqRange(Append(s, x)) = SeqRange(s) \cup {x}
<1>1. ASSUME NEW y PROVE y \in SeqRange(Append(s, x)) => y \in SeqRange(s) \cup {x}
  BY DEF SeqRange
<1>2. ASSUME NEW y \in SeqRange(s) PROVE y \in SeqRange(Append(s, x))
  <2>1. PICK i \in DOMAIN s : y = s[i]
    BY DEF SeqRange
  <2>2. i \in DOMAIN Append(s, x) /\ Append(s, x)[i] = s[i]
    OBVIOUS
  <2> QED BY <2>1, <2>2 DEF SeqRange
<1>3. x \in SeqRange(Append(s, x))
  <2>1. Len(s) + 1 \in DOMAIN Append(s, x) /\ Append(s, x)[Len(s) + 1] = x
    OBVIOUS
  <2> QED BY <2>1 DEF SeqRange
<1> QED BY Zenon, <1>1, <1>2, <1>3

\* A concatenation records the ids of both arrays.
LEMMA RangeConcat ==
  ASSUME NEW S, NEW s \in Seq(S), NEW t \in Seq(S)
  PROVE  SeqRange(s \o t) = SeqRange(s) \cup SeqRange(t)
<1>1. ASSUME NEW y \in SeqRange(s \o t) PROVE y \in SeqRange(s) \cup SeqRange(t)
  <2>1. PICK i \in DOMAIN (s \o t) : y = (s \o t)[i]
    BY DEF SeqRange
  <2>2. CASE i <= Len(s)
    <3>1. i \in DOMAIN s /\ y = s[i]
      BY <2>1, <2>2
    <3> QED BY <3>1 DEF SeqRange
  <2>3. CASE i > Len(s)
    <3>1. i - Len(s) \in DOMAIN t /\ y = t[i - Len(s)]
      BY <2>1, <2>3
    <3> QED BY <3>1 DEF SeqRange
  <2> QED BY <2>1, <2>2, <2>3
<1>2. ASSUME NEW y \in SeqRange(s) PROVE y \in SeqRange(s \o t)
  <2>1. PICK i \in DOMAIN s : y = s[i]
    BY DEF SeqRange
  <2>2. i \in DOMAIN (s \o t) /\ (s \o t)[i] = s[i]
    OBVIOUS
  <2> QED BY <2>1, <2>2 DEF SeqRange
<1>3. ASSUME NEW y \in SeqRange(t) PROVE y \in SeqRange(s \o t)
  <2>1. PICK i \in DOMAIN t : y = t[i]
    BY DEF SeqRange
  <2>2. Len(s) + i \in DOMAIN (s \o t) /\ (s \o t)[Len(s) + i] = t[i]
    OBVIOUS
  <2> QED BY <2>1, <2>2 DEF SeqRange
<1> QED BY Zenon, <1>1, <1>2, <1>3

\* Sequences without repetition.
Once(s) == \A i, j \in DOMAIN s : s[i] = s[j] => i = j

\* Appending an element a sequence lacks repeats nothing.
LEMMA OnceAppend ==
  ASSUME NEW S, NEW s \in Seq(S), NEW x \in S, Once(s), x \notin SeqRange(s)
  PROVE  Once(Append(s, x))
BY DEF Once, SeqRange

\* Disjoint sequences without repetition make one when joined.
LEMMA OnceConcat ==
  ASSUME NEW S, NEW s \in Seq(S), NEW t \in Seq(S), Once(s), Once(t),
         SeqRange(s) \cap SeqRange(t) = {}
  PROVE  Once(s \o t)
<1> SUFFICES ASSUME NEW i \in DOMAIN (s \o t), NEW j \in DOMAIN (s \o t),
                    (s \o t)[i] = (s \o t)[j]
             PROVE  i = j
  BY DEF Once
<1>1. ASSUME NEW k \in DOMAIN (s \o t)
      PROVE  \/ k \in DOMAIN s /\ (s \o t)[k] = s[k] /\ (s \o t)[k] \in SeqRange(s)
             \/ /\ k - Len(s) \in DOMAIN t /\ (s \o t)[k] = t[k - Len(s)]
                /\ (s \o t)[k] \in SeqRange(t)
  <2>1. CASE k <= Len(s)
    <3>1. k \in DOMAIN s /\ (s \o t)[k] = s[k]
      BY <2>1
    <3> QED BY Zenon, <3>1 DEF SeqRange
  <2>2. CASE k > Len(s)
    <3>1. k - Len(s) \in DOMAIN t /\ (s \o t)[k] = t[k - Len(s)]
      BY <2>2
    <3> QED BY <3>1 DEF SeqRange
  <2> QED BY <2>1, <2>2
<1>2. CASE (s \o t)[i] \in SeqRange(s)
  <2>1. i \in DOMAIN s /\ j \in DOMAIN s /\ s[i] = s[j]
    BY <1>1, <1>2
  <2> QED BY <2>1 DEF Once
<1>3. CASE (s \o t)[i] \notin SeqRange(s)
  <2>1. i - Len(s) \in DOMAIN t /\ j - Len(s) \in DOMAIN t /\ t[i - Len(s)] = t[j - Len(s)]
    BY <1>1, <1>3
  <2>2. i - Len(s) = j - Len(s)
    BY <2>1 DEF Once
  <2> QED BY <2>2
<1> QED BY <1>2, <1>3

\* Taking the last id of the free list removes that id and no other.
LEMMA OnceFront ==
  ASSUME NEW S, NEW s \in Seq(S), s # <<>>, Once(s)
  PROVE  LET f == SubSeq(s, 1, Len(s) - 1)
         IN  /\ f \in Seq(S) /\ Once(f) /\ s[Len(s)] \in S
             /\ SeqRange(f) = SeqRange(s) \ {s[Len(s)]}
             /\ s[Len(s)] \in SeqRange(s)
<1> DEFINE f == SubSeq(s, 1, Len(s) - 1)
<1>1. /\ f \in Seq(S) /\ Len(s) \in DOMAIN s /\ s[Len(s)] \in S
      /\ DOMAIN f = 1 .. (Len(s) - 1) /\ \A i \in DOMAIN f : f[i] = s[i]
  OBVIOUS
<1> HIDE DEF f
<1>2. Once(f)
  BY <1>1 DEF Once
<1>3. s[Len(s)] \in SeqRange(s)
  BY <1>1 DEF SeqRange
<1>4. ASSUME NEW y \in SeqRange(f) PROVE y \in SeqRange(s) /\ y # s[Len(s)]
  <2>1. PICK i \in DOMAIN f : y = f[i]
    BY DEF SeqRange
  <2>2. i \in DOMAIN s /\ y = s[i] /\ i # Len(s)
    BY <1>1, <2>1
  <2> QED BY <1>1, <2>2 DEF SeqRange, Once
<1>5. ASSUME NEW y \in SeqRange(s), y # s[Len(s)] PROVE y \in SeqRange(f)
  <2>1. PICK i \in DOMAIN s : y = s[i]
    BY DEF SeqRange
  <2>2. i \in DOMAIN f /\ y = f[i]
    BY <1>1, <1>5, <2>1
  <2> QED BY <2>2 DEF SeqRange
<1> QED BY <1>1, <1>2, <1>3, <1>4, <1>5 DEF f

------------------------------------------------------------------------------
(* The targets of a note *)

\* What the proofs need to know of the binary.
LEMMA BinaryFacts ==
  ASSUME TypeOK
  PROVE  /\ bin.dyn \in BOOLEAN /\ bin.base \in Int
         /\ bin.segs \subseteq Segment /\ bin.vmas \subseteq Segment
         /\ bin.notes \in Seq(Note)
BY UsdtAssumption DEF TypeOK

\* A note that is not refused lies in an executable segment.
LEMMA NoteFacts ==
  ASSUME TypeOK, NEW n \in Note, ~NoteError(n)
  PROVE  /\ NoteIp(n) \in Int /\ RelIp(n) \in Int /\ ComboOffset(n) \in {0, 1}
         /\ ElfSeg(NoteIp(n)) \in bin.segs /\ ElfSeg(NoteIp(n)).exec
         /\ InSegment(ElfSeg(NoteIp(n)), NoteIp(n))
<1>1. NoteIp(n) \in Int
  BY BinaryFacts DEF NoteIp, Note
<1>2. ElfSeg(NoteIp(n)) \in find_elf_seg(NoteIp(n))
  BY DEF NoteError, ElfSeg
<1>3. /\ ElfSeg(NoteIp(n)) \in bin.segs /\ ElfSeg(NoteIp(n)).exec
      /\ InSegment(ElfSeg(NoteIp(n)), NoteIp(n))
  BY <1>2 DEF NoteError, find_elf_seg
<1>4. RelIp(n) \in Int
  BY <1>1, <1>3, BinaryFacts DEF RelIp, Segment
<1> QED BY <1>1, <1>3, <1>4 DEF ComboOffset

\* The mapping the address of a target is computed from holds its place.
LEMMA AbsIpFacts ==
  ASSUME TypeOK, NEW n \in Note, ~NoteError(n), ~man.has_bpf_cookie
  PROVE  \E s \in Mappings(bin) :
           /\ s \in Segment /\ InFile(s, RelIp(n))
           /\ AbsIp(n) = s.start - s.offset + RelIp(n)
<1>1. CASE bin.dyn
  <2> DEFINE s == CHOOSE s \in find_vma_seg(RelIp(n)) : TRUE
  <2>1. s \in find_vma_seg(RelIp(n))
    BY <1>1 DEF NoteError
  <2>2. AbsIp(n) = s.start - s.offset + RelIp(n)
    BY <1>1 DEF AbsIp
  <2> HIDE DEF s
  <2>3. s \in bin.vmas /\ s.exec /\ InFile(s, RelIp(n))
    BY <2>1 DEF find_vma_seg
  <2>4. s \in Mappings(bin) /\ s \in Segment
    BY <1>1, <2>3, BinaryFacts DEF Mappings
  <2> QED BY <2>2, <2>3, <2>4
<1>2. CASE ~bin.dyn
  <2> DEFINE s == ElfSeg(NoteIp(n))
  <2>1. /\ s \in bin.segs /\ s.exec /\ InSegment(s, NoteIp(n))
        /\ NoteIp(n) \in Int /\ RelIp(n) \in Int
    BY NoteFacts
  <2>2. RelIp(n) = NoteIp(n) - s.start + s.offset
    BY DEF RelIp
  <2>3. AbsIp(n) = NoteIp(n)
    BY <1>2 DEF AbsIp
  <2> HIDE DEF s
  <2>4. s \in Mappings(bin) /\ s \in Segment
    BY <1>2, <2>1, BinaryFacts DEF Mappings
  <2>5. s.start \in Int /\ s.end \in Int /\ s.offset \in Int
    BY <2>4 DEF Segment
  <2>6. InFile(s, RelIp(n))
    BY <2>1, <2>2, <2>5 DEF InFile, InSegment, FileEnd
  <2>7. AbsIp(n) = s.start - s.offset + RelIp(n)
    BY <2>1, <2>2, <2>3, <2>5
  <2> QED BY Zenon, <2>4, <2>6, <2>7
<1> QED BY <1>1, <1>2, BinaryFacts

\* A target is well formed and, without cookies, the address recorded for it
\* is the only one its uprobe can fire at.
LEMMA TargetFacts ==
  ASSUME TypeOK, NEW n \in Note, ~NoteError(n)
  PROVE  LET t == usdt_target(n)
         IN  /\ t \in TargetRecord
             /\ ~man.has_bpf_cookie =>
                  \A m \in Mappings(bin) : InFile(m, t.rel_ip) =>
                    m.start - m.offset + t.rel_ip = t.abs_ip
<1> DEFINE t == usdt_target(n)
<1>0. /\ NoteIp(n) \in Int /\ RelIp(n) \in Int /\ ComboOffset(n) \in {0, 1}
  BY NoteFacts
<1>1. /\ t.abs_ip = AbsIp(n) + ComboOffset(n) /\ t.rel_ip = RelIp(n) + ComboOffset(n)
      /\ t.spec_str = n.args
      /\ t = [abs_ip |-> t.abs_ip, rel_ip |-> t.rel_ip, spec_str |-> t.spec_str]
  BY DEF usdt_target
<1> HIDE DEF t
<1>2. AbsIp(n) \in Int
  <2>1. CASE man.has_bpf_cookie
    BY <1>0, <2>1 DEF AbsIp
  <2>2. CASE ~man.has_bpf_cookie
    <3>1. PICK s \in Segment : AbsIp(n) = s.start - s.offset + RelIp(n)
      BY <2>2, AbsIpFacts
    <3>2. s.start \in Int /\ s.offset \in Int
      BY DEF Segment
    <3> QED BY <1>0, <3>1, <3>2
  <2> QED BY <2>1, <2>2
<1>3. t \in TargetRecord
  <2>1. t.abs_ip \in Int /\ t.rel_ip \in Int /\ t.spec_str \in Args
    BY <1>0, <1>1, <1>2 DEF Note
  <2> QED BY <1>1, <2>1 DEF TargetRecord
<1>4. ASSUME ~man.has_bpf_cookie, NEW m \in Mappings(bin), InFile(m, t.rel_ip)
      PROVE  m.start - m.offset + t.rel_ip = t.abs_ip
  <2>1. PICK s \in Mappings(bin) : /\ s \in Segment /\ InFile(s, RelIp(n))
                                   /\ AbsIp(n) = s.start - s.offset + RelIp(n)
    BY <1>4, AbsIpFacts
  <2>2. m \in Segment
    BY BinaryFacts DEF Mappings
  <2>3. /\ s.start \in Int /\ s.end \in Int /\ s.offset \in Int
        /\ m.start \in Int /\ m.end \in Int /\ m.offset \in Int
    BY <2>1, <2>2 DEF Segment
  <2>4. \/ s.start - s.offset = m.start - m.offset
        \/ FileEnd(s) < m.offset
        \/ FileEnd(m) < s.offset
    BY MappingAssumption DEF TypeOK
  <2>5. s.start - s.offset = m.start - m.offset
    BY <1>0, <1>1, <1>4, <2>1, <2>3, <2>4 DEF InFile, FileEnd
  <2> QED BY <1>0, <1>1, <2>1, <2>3, <2>5
<1> QED BY <1>3, <1>4 DEF t

------------------------------------------------------------------------------
(* Preservation *)

\* The manager starts in a state of the invariant.
LEMMA InitHolds == Init => UsdtInv
<1> SUFFICES ASSUME Init PROVE UsdtInv
  OBVIOUS
<1>1. TypeOK
  <2>1. op \in OpRecord
    BY UsdtAssumption DEF Init, Idle, OpRecord, None, NoId
  <2>2. man \in ManRecord /\ (man.has_uprobe_multi => man.has_bpf_cookie)
    <3>1. PICK f \in Kernels :
            man = [has_bpf_cookie |-> f.has_bpf_cookie,
                   has_sema_refcnt |-> f.has_sema_refcnt,
                   has_uprobe_multi |-> f.has_uprobe_multi,
                   has_uprobe_syscall |-> f.has_uprobe_syscall,
                   free_spec_ids |-> <<>>, list |-> FALSE, next_free_spec_id |-> 0]
      BY Zenon DEF Init
    <3>2. /\ f \in [has_bpf_cookie : BOOLEAN, has_sema_refcnt : BOOLEAN,
                    has_uprobe_multi : BOOLEAN, has_uprobe_syscall : BOOLEAN]
          /\ f.has_uprobe_multi => f.has_bpf_cookie
      BY UsdtAssumption
    <3> QED BY <3>1, <3>2, UsdtAssumption DEF ManRecord
  <2>3. links \in [Links -> LinkRecord]
    BY DEF Init, NoLink, LinkRecord
  <2>4. specs_map \in [Ids -> SpecRecord]
    BY DEF Init, Spec0, SpecRecord
  <2> QED BY Zenon, <2>1, <2>2, <2>3, <2>4 DEF Init, TypeOK
<1>2. OpOK
  BY DEF Init, Idle, OpOK, Attaching, Detaching
<1>3. IdsOK
  <2>1. /\ man.free_spec_ids = <<>> /\ man.next_free_spec_id = 0 /\ lost = {}
        /\ \A l \in Links : links[l].spec_ids = <<>>
    BY DEF Init, NoLink
  <2> QED BY <2>1 DEF IdsOK, SeqRange
<1>4. ProbesOK
  BY Zenon DEF Init, ProbesOK
<1>5. IpsOK
  <2>1. /\ probes = {} /\ op.pc = "idle" /\ op.targets = <<>>
        /\ \A l \in Links : links[l].uprobes = <<>>
    BY DEF Init, NoLink, Idle
  <2> QED BY <2>1 DEF IpsOK, Detaching
<1>6. HashOK
  BY Zenon DEF Init, Idle, HashOK, Attaching
<1>7. DetachOK
  BY DEF Init, Idle, DetachOK, Detaching
<1> QED BY Zenon, <1>1, <1>2, <1>3, <1>4, <1>5, <1>6, <1>7 DEF UsdtInv

\* The condition on the targets of an attach when there are no cookies.
TargetsOK(targets) ==
  \A i \in DOMAIN targets : \A m \in Mappings(bin) : InFile(m, targets[i].rel_ip) =>
    m.start - m.offset + targets[i].rel_ip = targets[i].abs_ip

\* What IpsOK says outside a detach, without cookies: addresses of uprobes are
\* mapped, and an address has one user.
LEMMA IpsFacts ==
  ASSUME UsdtInv, ~man.has_bpf_cookie
  PROVE  /\ \A l, m \in Links : \A i \in DOMAIN links[l].uprobes, j \in DOMAIN links[m].uprobes :
              links[l].uprobes[i] = links[m].uprobes[j] => l = m /\ i = j
         /\ \A l \in Links : \A n \in DOMAIN links[l].uprobes : \A p \in probes :
              p.abs_ip = links[l].uprobes[n] => p.owner = l /\ p.n = n
         /\ ~Detaching => \A l \in Links : \A n \in DOMAIN links[l].uprobes :
              links[l].uprobes[n] \in DOMAIN ip_map
         /\ TargetsOK(op.targets)
<1>1. /\ \A l, m \in Links : \A i \in DOMAIN links[l].uprobes, j \in DOMAIN links[m].uprobes :
           links[l].uprobes[i] = links[m].uprobes[j] => l = m /\ i = j
      /\ \A l \in Links : \A n \in DOMAIN links[l].uprobes : \A p \in probes :
           p.abs_ip = links[l].uprobes[n] => p.owner = l /\ p.n = n
  BY Zenon DEF UsdtInv, IpsOK
<1>2. ~Detaching => \A l \in Links : \A n \in DOMAIN links[l].uprobes :
        links[l].uprobes[n] \in DOMAIN ip_map
  BY Zenon DEF UsdtInv, IpsOK, Mapped
<1>3. TargetsOK(op.targets)
  BY Zenon DEF UsdtInv, IpsOK, TargetsOK, Target
<1> QED BY Zenon, <1>1, <1>2, <1>3

\* IpsOK of the next state, when no entry is being added or removed.
LEMMA IpsIntro ==
  ASSUME op'.pc # "unip", op'.pc # "probe", bin' = bin, TargetsOK(op'.targets),
         \A l \in Links : \A n \in DOMAIN links'[l].uprobes :
           Mapped(l, n)' => links'[l].uprobes[n] \in DOMAIN ip_map',
         \A l, m \in Links : \A i \in DOMAIN links'[l].uprobes, j \in DOMAIN links'[m].uprobes :
           links'[l].uprobes[i] = links'[m].uprobes[j] => l = m /\ i = j,
         \A l \in Links : \A n \in DOMAIN links'[l].uprobes : \A p \in probes' :
           p.abs_ip = links'[l].uprobes[n] => p.owner = l /\ p.n = n
  PROVE  IpsOK'
BY Zenon DEF IpsOK, TargetsOK, Target

\* A step that changes op alone, and does not go on with a detach.
LEMMA OpStep ==
  ASSUME UsdtInv, UNCHANGED <<bin, man, specs_map, ip_map, links, probes, lost>>,
         op' \in OpRecord, OpOK', HashOK', ~Detaching,
         Detaching' => op'.pc = "unmulti" /\ op'.i = 1,
         op'.pc = "probe" => man.has_bpf_cookie,
         ~man.has_bpf_cookie => TargetsOK(op'.targets)
  PROVE  UsdtInv'
<1>1. TypeOK'
  BY Zenon DEF UsdtInv, TypeOK
<1>2. IdsOK'
  BY SMTT(30) DEF UsdtInv, IdsOK
<1>3. ProbesOK'
  BY Zenon DEF UsdtInv, ProbesOK, IdFor, IdsFor, FiredIps
<1>4. IpsOK'
  <2> SUFFICES ASSUME ~man.has_bpf_cookie PROVE IpsOK'
    BY Zenon DEF IpsOK
  <2>1. \A l \in Links : \A n \in DOMAIN links[l].uprobes : links[l].uprobes[n] \in DOMAIN ip_map
    BY DEF UsdtInv, IpsOK, Mapped
  <2>2. op'.pc # "unip"
    BY Zenon DEF Detaching
  <2>3. /\ \A l, m \in Links : \A i \in DOMAIN links[l].uprobes, j \in DOMAIN links[m].uprobes :
             links[l].uprobes[i] = links[m].uprobes[j] => l = m /\ i = j
        /\ \A l \in Links : \A n \in DOMAIN links[l].uprobes : \A p \in probes :
             p.abs_ip = links[l].uprobes[n] => p.owner = l /\ p.n = n
    BY DEF UsdtInv, IpsOK
  <2> QED BY SMTT(30), <2>1, <2>2, <2>3 DEF IpsOK, TargetsOK, Target
<1>5. DetachOK'
  <2>1. \A p \in probes : p.n >= 1
    BY DEF UsdtInv, TypeOK, ProbeRecord
  <2> QED BY <2>1 DEF DetachOK
<1> QED BY Zenon, <1>1, <1>2, <1>3, <1>4, <1>5 DEF UsdtInv

\* The idle operation is well formed.
LEMMA IdleType == Idle \in OpRecord /\ Idle.pc = "idle" /\ Idle.targets = <<>> /\ Idle.i = 1
BY SMTT(30) DEF Idle, OpRecord, NoId

\* What an attach that fails leaves is undone by a detach from its start.
LEMMA ErrOutStep ==
  ASSUME UsdtInv, Attaching, op' = ErrOut,
         UNCHANGED <<bin, man, specs_map, ip_map, links, probes, lost>>
  PROVE  UsdtInv'
<1>1. op.link \in Links /\ links[op.link].live /\ ~links[op.link].disconnected
  BY DEF UsdtInv, OpOK
<1>2. /\ op'.pc = "unmulti" /\ op'.link = op.link /\ op'.i = 1 /\ op'.targets = <<>>
      /\ op' \in OpRecord
  BY ZenonT(30), <1>1, IdleType DEF ErrOut, Idle, OpRecord
<1>3. OpOK' /\ HashOK' /\ ~Detaching
  BY <1>1, <1>2 DEF UsdtInv, OpOK, HashOK, Attaching, Detaching
<1>4. TargetsOK(op'.targets)
  BY <1>2 DEF TargetsOK
<1> QED BY Zenon, <1>2, <1>3, <1>4, OpStep

\* A call that ends before anything was attached leaves the invariant.
LEMMA IdleStep ==
  ASSUME UsdtInv, ~Detaching, op' = Idle,
         UNCHANGED <<bin, man, specs_map, ip_map, links, probes, lost>>
  PROVE  UsdtInv'
<1>1. op'.pc = "idle" /\ op'.targets = <<>> /\ op' \in OpRecord
  BY Zenon, IdleType
<1>2. OpOK' /\ HashOK' /\ ~Detaching'
  BY Zenon, <1>1 DEF UsdtInv, OpOK, HashOK, Attaching, Detaching
<1>3. TargetsOK(op'.targets)
  BY <1>1 DEF TargetsOK
<1> QED BY <1>1, <1>2, <1>3, OpStep

\* A call to attach starts by collecting targets.
LEMMA AttachUsdtStep ==
  ASSUME UsdtInv, NEW l \in Links, NEW name \in Names, NEW pid \in BOOLEAN,
         AttachUsdt(l, name, pid)
  PROVE  UsdtInv'
<1>1. /\ op'.pc = "collect" /\ op'.link = l /\ op'.targets = <<>> /\ op' \in OpRecord
  BY Zenon, IdleType DEF AttachUsdt, Idle, OpRecord
<1>2. OpOK' /\ HashOK' /\ ~Detaching /\ ~Detaching'
  BY <1>1 DEF AttachUsdt, Quiet, UsdtInv, OpOK, HashOK, Attaching, Detaching
<1>3. TargetsOK(op'.targets)
  BY <1>1 DEF TargetsOK
<1> QED BY <1>1, <1>2, <1>3, OpStep DEF AttachUsdt

\* A note gives a target, is skipped, or ends the call.
LEMMA CollectNoteStep == UsdtInv /\ CollectNote => UsdtInv'
<1> SUFFICES ASSUME UsdtInv, CollectNote PROVE UsdtInv'
  OBVIOUS
<1> DEFINE n == bin.notes[op.k]
<1>0. op \in OpRecord /\ op.pc = "collect" /\ n \in Note /\ TypeOK /\ ~Detaching
  BY SMTT(30), BinaryFacts DEF CollectNote, UsdtInv, TypeOK, OpRecord, Detaching
<1>u. UNCHANGED <<bin, man, specs_map, ip_map, links, probes, lost>>
  BY Zenon DEF CollectNote
<1>t. ~man.has_bpf_cookie => TargetsOK(op.targets)
  BY DEF UsdtInv, IpsOK, TargetsOK, Target
<1>1. CASE op' = Idle
  BY Zenon, <1>0, <1>1, <1>u, IdleStep
<1>2. CASE n.name # op.name
  <2>1. /\ op'.pc = "collect" /\ op'.link = op.link /\ op'.targets = op.targets
        /\ op' \in OpRecord
    BY SMTT(30), <1>0, <1>2 DEF CollectNote, OpRecord
  <2>2. OpOK' /\ HashOK' /\ ~Detaching'
    BY Zenon, <1>0, <1>u, <2>1 DEF UsdtInv, OpOK, HashOK, Attaching, Detaching
  <2> QED BY <1>0, <1>u, <1>t, <2>1, <2>2, OpStep
<1>3. CASE n.name = op.name /\ ~NoteError(n)
  <2> DEFINE t == usdt_target(n)
  <2>1. /\ t \in TargetRecord
        /\ ~man.has_bpf_cookie => \A m \in Mappings(bin) : InFile(m, t.rel_ip) =>
                                    m.start - m.offset + t.rel_ip = t.abs_ip
    BY <1>0, <1>3, TargetFacts
  <2>2. op' = [op EXCEPT !.k = op.k + 1, !.targets = Append(op.targets, t)]
    BY <1>3 DEF CollectNote
  <2> HIDE DEF t
  <2>3. op.targets \in Seq(TargetRecord) /\ op.k \in Nat \ {0}
    BY <1>0 DEF OpRecord
  <2>4. Append(op.targets, t) \in Seq(TargetRecord) /\ op.k + 1 \in Nat \ {0}
    BY <2>1, <2>3
  <2>5. /\ op'.pc = "collect" /\ op'.link = op.link /\ op'.targets = Append(op.targets, t)
        /\ op' \in OpRecord
    BY ZenonT(30), <1>0, <2>2, <2>4 DEF OpRecord
  <2>6. OpOK' /\ HashOK' /\ ~Detaching'
    BY <1>0, <1>u, <2>5 DEF UsdtInv, OpOK, HashOK, Attaching, Detaching
  <2>7. ~man.has_bpf_cookie => TargetsOK(op'.targets)
    <3> SUFFICES ASSUME ~man.has_bpf_cookie, NEW i \in DOMAIN op'.targets,
                        NEW m \in Mappings(bin), InFile(m, op'.targets[i].rel_ip)
                 PROVE  m.start - m.offset + op'.targets[i].rel_ip = op'.targets[i].abs_ip
      BY DEF TargetsOK
    <3>1. CASE i = Len(op.targets) + 1
      <4>1. op'.targets[i] = t
        BY <2>1, <2>3, <2>5, <3>1
      <4> QED BY <2>1, <4>1
    <3>2. CASE i # Len(op.targets) + 1
      <4>1. i \in DOMAIN op.targets /\ op'.targets[i] = op.targets[i]
        BY <2>1, <2>3, <2>5, <3>2
      <4> QED BY <1>t, <4>1 DEF TargetsOK
    <3> QED BY SMTT(30), <3>1, <3>2
  <2> QED BY Zenon, <1>0, <1>u, <2>5, <2>6, <2>7, OpStep
<1> QED BY <1>1, <1>2, <1>3 DEF CollectNote

\* A failure while collecting ends the call.
LEMMA CollectFailsStep == UsdtInv /\ CollectFails => UsdtInv'
BY IdleStep DEF CollectFails, Detaching

\* A failure to allocate an id undoes the attach.
LEMMA AllocateFailsStep == UsdtInv /\ AllocateFails => UsdtInv'
BY ErrOutStep DEF AllocateFails, Attaching

\* The ids stay where they are.
LEMMA IdsSame ==
  ASSUME IdsOK, UNCHANGED <<man, lost>>,
         \A l \in Links : links'[l].spec_ids = links[l].spec_ids
  PROVE  IdsOK'
<1>1. {SeqRange(links'[l].spec_ids) : l \in Links} = {SeqRange(links[l].spec_ids) : l \in Links}
  OBVIOUS
<1> QED BY Zenon, <1>1 DEF IdsOK

\* Only the flags of links change: they hold the same ids and uprobes, and
\* none that lives dies.
LEMMA FlagsStep ==
  ASSUME UsdtInv, UNCHANGED <<bin, man, specs_map, ip_map, probes, lost>>,
         links' \in [Links -> LinkRecord],
         \A l \in Links : /\ links'[l].spec_ids = links[l].spec_ids
                          /\ links'[l].uprobes = links[l].uprobes
                          /\ links[l].live => links'[l].live,
         op' \in OpRecord, OpOK', HashOK', ~Detaching, ~Detaching', op'.pc # "probe",
         ~man.has_bpf_cookie => TargetsOK(op'.targets)
  PROVE  UsdtInv'
<1>1. TypeOK'
  BY DEF UsdtInv, TypeOK
<1>2. IdsOK'
  BY Zenon, IdsSame DEF UsdtInv
<1>3. ProbesOK'
  <2> SUFFICES ASSUME NEW p \in probes
               PROVE  /\ ~man.has_bpf_cookie =>
                           p.abs_ip \in DOMAIN ip_map /\ FiredIps(p) \subseteq {p.abs_ip}
                      /\ IdFor(p) \in IdsFor(p)'
                      /\ specs_map[IdFor(p)] = p.want
                      /\ p.owner # None /\ ~man.has_uprobe_multi =>
                           /\ p.n \in DOMAIN links'[p.owner].uprobes
                           /\ links'[p.owner].uprobes[p.n] = p.abs_ip
                      /\ p.owner # None => links'[p.owner].live
    BY DEF ProbesOK, IdFor, FiredIps
  <2>1. p.owner \in Links \cup {None}
    BY Zenon DEF UsdtInv, TypeOK, ProbeRecord
  <2>2. IdsFor(p)' = IdsFor(p)
    BY Zenon, <2>1 DEF IdsFor
  <2> QED BY SMTT(30), <2>1, <2>2 DEF UsdtInv, ProbesOK
<1>4. IpsOK'
  <2> SUFFICES ASSUME ~man.has_bpf_cookie PROVE IpsOK'
    BY Zenon DEF IpsOK
  <2>1. \A l \in Links : \A n \in DOMAIN links[l].uprobes : links[l].uprobes[n] \in DOMAIN ip_map
    BY Zenon DEF UsdtInv, IpsOK, Mapped
  <2>2. /\ \A l, m \in Links : \A i \in DOMAIN links[l].uprobes, j \in DOMAIN links[m].uprobes :
             links[l].uprobes[i] = links[m].uprobes[j] => l = m /\ i = j
        /\ \A l \in Links : \A n \in DOMAIN links[l].uprobes : \A p \in probes :
             p.abs_ip = links[l].uprobes[n] => p.owner = l /\ p.n = n
    BY Zenon DEF UsdtInv, IpsOK
  <2>3. op'.pc # "unip"
    BY DEF Detaching
  <2> QED BY SMTT(30), <2>1, <2>2, <2>3 DEF IpsOK, TargetsOK, Target
<1> QED BY <1>1, <1>2, <1>3, <1>4 DEF UsdtInv, DetachOK

\* The link is made once the targets are known.
LEMMA CollectDoneStep == UsdtInv /\ CollectDone => UsdtInv'
<1> SUFFICES ASSUME UsdtInv, CollectDone PROVE UsdtInv'
  OBVIOUS
<1>0. /\ op \in OpRecord /\ op.pc = "collect" /\ ~Detaching /\ TypeOK
      /\ op.link \in Links /\ ~links[op.link].live /\ links[op.link] = NoLink
  BY DEF CollectDone, UsdtInv, TypeOK, OpOK, Detaching
<1>1. CASE op.targets = <<>>
  BY <1>0, <1>1, IdleStep DEF CollectDone
<1>2. CASE op.targets # <<>>
  <2>1. /\ op'.pc = "alloc" /\ op'.link = op.link /\ op'.targets = op.targets /\ op'.i = 1
        /\ op'.specs_hash = [a \in Args |-> NoId] /\ op' \in OpRecord
    <3>1. op' = [Idle EXCEPT !.pc = "alloc", !.link = op.link, !.targets = op.targets]
      BY <1>2 DEF CollectDone
    <3>2. op.targets \in Seq(TargetRecord)
      BY <1>0 DEF OpRecord
    <3>3. Idle.specs_hash = [a \in Args |-> NoId]
      BY DEF Idle
    <3> QED BY Zenon, <1>0, <3>1, <3>2, <3>3, IdleType DEF Idle, OpRecord
  <2>2. links' = [links EXCEPT ![op.link] = [NoLink EXCEPT !.live = TRUE]]
    BY <1>2 DEF CollectDone
  <2>3. /\ links' \in [Links -> LinkRecord]
        /\ \A l \in Links : /\ links'[l].spec_ids = links[l].spec_ids
                            /\ links'[l].uprobes = links[l].uprobes
                            /\ links[l].live => links'[l].live
        /\ links'[op.link].live /\ ~links'[op.link].disconnected
        /\ links'[op.link].uprobes = <<>>
        /\ \A l \in Links : l # op.link => links'[l] = links[l]
    BY Zenon, <1>0, <2>2 DEF TypeOK, NoLink, LinkRecord
  <2>4. 1 \in DOMAIN op.targets
    BY <1>0, <1>2 DEF OpRecord
  <2>5. ~Detaching' /\ Attaching'
    BY <2>1 DEF Detaching, Attaching
  <2>6. OpOK'
    BY <1>0, <2>1, <2>3, <2>4, <2>5 DEF OpOK, UsdtInv
  <2>7. HashOK'
    BY SMTT(30), <2>1 DEF HashOK, Attaching, Target, OpRecord
  <2>8. ~man.has_bpf_cookie => TargetsOK(op'.targets)
    <3>1. ~man.has_bpf_cookie => TargetsOK(op.targets)
      BY Zenon DEF UsdtInv, IpsOK, TargetsOK, Target
    <3>2. op'.targets = op.targets
      BY <2>1
    <3> QED BY Zenon, <3>1, <3>2
  <2> QED BY SMTT(30), <1>0, <2>1, <2>3, <2>5, <2>6, <2>7, <2>8, FlagsStep DEF CollectDone
<1> QED BY Zenon, <1>1, <1>2

\* Disconnecting a link sets its flag.
LEMMA DisconnectStep ==
  ASSUME UsdtInv, NEW l \in Links, Disconnect(l)
  PROVE  UsdtInv'
<1>0. op.pc = "idle" /\ TypeOK /\ op' = op /\ links[l].live
  BY DEF Disconnect, Quiet, UsdtInv
<1>1. /\ links' \in [Links -> LinkRecord]
      /\ \A m \in Links : /\ links'[m].spec_ids = links[m].spec_ids
                          /\ links'[m].uprobes = links[m].uprobes
                          /\ links'[m].live = links[m].live
      /\ \A m \in Links : m # l => links'[m] = links[m]
  BY Zenon, <1>0 DEF Disconnect, TypeOK, LinkRecord
<1>2. ~Detaching /\ ~Attaching /\ ~Detaching' /\ ~Attaching' /\ op'.pc # "probe"
  BY <1>0 DEF Detaching, Attaching
<1>3. OpOK'
  BY <1>0, <1>1, <1>2 DEF OpOK, UsdtInv
<1>4. HashOK' /\ op' \in OpRecord
  BY Zenon, <1>0, <1>2 DEF HashOK, TypeOK
<1>5. ~man.has_bpf_cookie => TargetsOK(op'.targets)
  BY Zenon, <1>0 DEF UsdtInv, IpsOK, TargetsOK, Target
<1> QED BY <1>1, <1>2, <1>3, <1>4, <1>5, FlagsStep DEF Disconnect

\* Facts of an attach in progress.
LEMMA AttachFacts ==
  ASSUME UsdtInv, Attaching
  PROVE  /\ op \in OpRecord /\ ~Detaching
         /\ op.link \in Links /\ links[op.link].live /\ ~links[op.link].disconnected
         /\ op.i \in DOMAIN op.targets /\ op.i \in Nat \ {0}
         /\ DOMAIN op.targets = 1 .. Len(op.targets) /\ Len(op.targets) \in Nat
         /\ \A i \in DOMAIN op.targets : Target(i) \in TargetRecord /\ Target(i).spec_str \in Args
         /\ op.specs_hash \in [Args -> Ids \cup {NoId}]
         /\ ~man.has_bpf_cookie => TargetsOK(op.targets)
<1>1. /\ op \in OpRecord /\ op.i \in DOMAIN op.targets
      /\ op.link \in Links /\ links[op.link].live /\ ~links[op.link].disconnected
  BY DEF UsdtInv, TypeOK, OpOK
<1>2. ~Detaching
  BY DEF Attaching, Detaching
<1>3. /\ op.targets \in Seq(TargetRecord) /\ op.i \in Nat \ {0}
      /\ op.specs_hash \in [Args -> Ids \cup {NoId}]
  BY <1>1 DEF OpRecord
<1>4. ASSUME NEW i \in DOMAIN op.targets
      PROVE  Target(i) \in TargetRecord /\ Target(i).spec_str \in Args
  <2>1. Target(i) \in TargetRecord
    BY SMTT(30), <1>3 DEF Target
  <2> QED BY Zenon, <2>1 DEF TargetRecord
<1>5. ~man.has_bpf_cookie => TargetsOK(op.targets)
  BY Zenon DEF UsdtInv, IpsOK, TargetsOK, Target
<1>6. DOMAIN op.targets = 1 .. Len(op.targets) /\ Len(op.targets) \in Nat
  BY SMTT(30), <1>3
<1> QED BY SMTT(30), <1>1, <1>2, <1>3, <1>4, <1>5, <1>6

\* The hash of an attach that is not between taking an id and storing its
\* specification.
LEMMA HashStored ==
  ASSUME UsdtInv, Attaching, op.pc # "spec"
  PROVE  /\ \A a \in Args : op.specs_hash[a] # NoId =>
              /\ op.specs_hash[a] \in SeqRange(links[op.link].spec_ids)
              /\ specs_map[op.specs_hash[a]] = [args |-> a, cookie |-> op.link]
         /\ \A a, b \in Args :
              op.specs_hash[a] = op.specs_hash[b] => a = b \/ op.specs_hash[a] = NoId
         /\ \A i \in DOMAIN op.targets :
              (i < op.i \/ op.pc = "multi") => op.specs_hash[Target(i).spec_str] # NoId
BY Zenon DEF UsdtInv, HashOK

\* HashOK of the next state, when no specification is being stored.
LEMMA HashIntro ==
  ASSUME op'.pc # "spec",
         \A a \in Args : op'.specs_hash[a] # NoId =>
           /\ op'.specs_hash[a] \in SeqRange(links'[op'.link].spec_ids)
           /\ specs_map'[op'.specs_hash[a]] = [args |-> a, cookie |-> op'.link],
         \A a, b \in Args :
           op'.specs_hash[a] = op'.specs_hash[b] => a = b \/ op'.specs_hash[a] = NoId,
         op'.pc \in {"ip", "probe"} =>
           op'.id # NoId /\ op'.id = op'.specs_hash[op'.targets[op'.i].spec_str],
         \A i \in DOMAIN op'.targets :
           (i < op'.i \/ op'.pc = "multi") => op'.specs_hash[op'.targets[i].spec_str] # NoId
  PROVE  HashOK'
BY DEF HashOK, Target

\* A specification already stored in this call is shared.
LEMMA FindSpecIdStep == UsdtInv /\ FindSpecId => UsdtInv'
<1> SUFFICES ASSUME UsdtInv, FindSpecId PROVE UsdtInv'
  OBVIOUS
<1> DEFINE a == Target(op.i).spec_str
<1>0. /\ op \in OpRecord /\ op.pc = "alloc" /\ ~Detaching /\ Attaching
      /\ op.i \in DOMAIN op.targets /\ a \in Args /\ op.specs_hash[a] # NoId
  BY Zenon, AttachFacts DEF FindSpecId, Attaching
<1>1. /\ op'.pc = AfterSpec /\ op'.id = op.specs_hash[a]
      /\ op'.link = op.link /\ op'.i = op.i /\ op'.targets = op.targets
      /\ op'.specs_hash = op.specs_hash
      /\ AfterSpec \in {"probe", "ip"} /\ op' \in OpRecord
  BY ZenonT(30), <1>0 DEF FindSpecId, OpRecord, AfterSpec
<1>2. Attaching' /\ ~Detaching'
  BY <1>1 DEF Attaching, Detaching
<1>3. OpOK'
  BY <1>0, <1>1, <1>2 DEF FindSpecId, UsdtInv, OpOK, AfterSpec
<1>4. HashOK'
  <2>1. op'.pc \notin {"spec", "multi"} /\ op.pc \notin {"spec", "multi"}
    BY SMTT(30), <1>0, <1>1
  <2>2. op'.id # NoId /\ op'.id = op'.specs_hash[op'.targets[op'.i].spec_str]
    BY <1>0, <1>1 DEF Target
  <2>3. UNCHANGED <<links, specs_map>>
    BY Zenon DEF FindSpecId
  <2>4. \A i \in DOMAIN op.targets : i < op.i => op.specs_hash[op.targets[i].spec_str] # NoId
    BY Zenon, <1>0, <2>1, HashStored DEF Target
  <2>5. \A b \in Args : op'.specs_hash[b] # NoId =>
          /\ op'.specs_hash[b] \in SeqRange(links'[op'.link].spec_ids)
          /\ specs_map'[op'.specs_hash[b]] = [args |-> b, cookie |-> op'.link]
    BY Zenon, <1>0, <1>1, <2>1, <2>3, HashStored
  <2>6. \A b, c \in Args :
          op'.specs_hash[b] = op'.specs_hash[c] => b = c \/ op'.specs_hash[b] = NoId
    BY <1>0, <1>1, <2>1, HashStored
  <2>7. \A i \in DOMAIN op'.targets :
          (i < op'.i \/ op'.pc = "multi") => op'.specs_hash[op'.targets[i].spec_str] # NoId
    BY Zenon, <1>1, <2>1, <2>4
  <2> QED BY <2>1, <2>2, <2>5, <2>6, <2>7, HashIntro
<1>5. ~man.has_bpf_cookie => TargetsOK(op'.targets)
  BY <1>1 DEF UsdtInv, IpsOK, TargetsOK, Target
<1>6. op'.pc = "probe" => man.has_bpf_cookie
  BY <1>1 DEF AfterSpec
<1> QED BY ZenonT(30), <1>0, <1>1, <1>2, <1>3, <1>4, <1>5, <1>6, OpStep DEF FindSpecId

\* A target of a multi-uprobe link is attached with the others.
LEMMA RecordCookieStep == UsdtInv /\ RecordCookie => UsdtInv'
<1> SUFFICES ASSUME UsdtInv, RecordCookie PROVE UsdtInv'
  OBVIOUS
<1>0. /\ op \in OpRecord /\ op.pc = "probe" /\ ~Detaching /\ Attaching
      /\ op.i \in DOMAIN op.targets /\ man.has_uprobe_multi /\ man.has_bpf_cookie
      /\ DOMAIN op.targets = 1 .. Len(op.targets) /\ Len(op.targets) \in Nat
      /\ op.i \in Nat \ {0}
  BY DEF RecordCookie, UsdtInv, TypeOK, OpOK, Detaching, Attaching, OpRecord
<1>1. /\ op'.link = op.link /\ op'.targets = op.targets /\ op'.id = op.id
      /\ op'.specs_hash = op.specs_hash /\ op' \in OpRecord
      /\ \/ op'.pc = "alloc" /\ op'.i = op.i + 1 /\ op'.i \in DOMAIN op.targets
         \/ op'.pc = "multi" /\ op'.i = op.i /\ op.i = Len(op.targets)
  <2>1. CASE op.i < Len(op.targets)
    <3>1. op' = [op EXCEPT !.pc = "alloc", !.i = @ + 1]
      BY <2>1 DEF RecordCookie, NextTarget
    <3>2. op.i + 1 \in Nat \ {0} /\ op.i + 1 \in DOMAIN op.targets
      BY <1>0, <2>1
    <3> QED BY Zenon, <1>0, <3>1, <3>2 DEF OpRecord
  <2>2. CASE ~(op.i < Len(op.targets))
    <3>1. op' = [op EXCEPT !.pc = "multi"]
      BY <2>2 DEF RecordCookie, NextTarget
    <3> QED BY SMTT(30), <1>0, <2>2, <3>1 DEF OpRecord
  <2> QED BY <2>1, <2>2
<1>2. Attaching' /\ ~Detaching' /\ op'.pc # "probe"
  BY <1>1 DEF Attaching, Detaching
<1>3. OpOK'
  BY Zenon, <1>0, <1>1, <1>2 DEF RecordCookie, UsdtInv, OpOK
<1>4. HashOK'
  <2>1. \A i \in DOMAIN op.targets :
          (i < op'.i \/ op'.pc = "multi") => op.specs_hash[Target(i).spec_str] # NoId
    BY SMTT(30), <1>0, <1>1 DEF UsdtInv, HashOK
  <2>2. op'.pc \notin {"spec", "ip", "probe"}
    BY <1>1
  <2> QED BY SMTT(30), <1>0, <1>1, <2>1, <2>2, HashStored DEF RecordCookie, HashOK, Target
<1> QED BY Zenon, <1>0, <1>1, <1>2, <1>3, <1>4, OpStep DEF RecordCookie

\* Storing a specification changes no other: no uprobe resolves to the id.
LEMMA UpdateSpecStep == UsdtInv /\ UpdateSpec => UsdtInv'
<1> SUFFICES ASSUME UsdtInv, UpdateSpec PROVE UsdtInv'
  OBVIOUS
<1>0. op.pc = "spec" /\ Attaching /\ TypeOK
  BY DEF UpdateSpec, Attaching, UsdtInv
<1>u. UNCHANGED <<bin, man, ip_map, links, probes, lost>>
  BY DEF UpdateSpec
<1>1. CASE op' = ErrOut /\ UNCHANGED specs_map
  BY Zenon, <1>0, <1>1, <1>u, ErrOutStep
<1>2. CASE /\ specs_map' = [specs_map EXCEPT ![op.id] =
                             [args |-> Target(op.i).spec_str, cookie |-> op.link]]
           /\ op' = [op EXCEPT !.pc = AfterSpec]
  <2> DEFINE a == Target(op.i).spec_str
             new == [args |-> a, cookie |-> op.link]
  <2>0. /\ op \in OpRecord /\ ~Detaching /\ op.i \in DOMAIN op.targets /\ a \in Args
        /\ op.link \in Links /\ op.id # NoId /\ op.id \in Ids
        /\ op.id = op.specs_hash[a]
    BY Zenon, <1>0, AttachFacts DEF UsdtInv, HashOK, OpRecord
  <2>1. /\ op'.pc = AfterSpec /\ op'.id = op.id /\ op'.link = op.link /\ op'.i = op.i
        /\ op'.targets = op.targets /\ op'.specs_hash = op.specs_hash
        /\ AfterSpec \in {"probe", "ip"} /\ op' \in OpRecord
    BY Zenon, <1>2, <2>0 DEF OpRecord, AfterSpec
  <2>2. Attaching' /\ ~Detaching'
    BY <2>1 DEF Attaching, Detaching
  <2>3. new \in SpecRecord
    BY <2>0 DEF SpecRecord
  <2>4. /\ specs_map' \in [Ids -> SpecRecord] /\ specs_map'[op.id] = new
        /\ \A id \in Ids : id # op.id => specs_map'[id] = specs_map[id]
    BY Zenon, <1>0, <1>2, <2>0, <2>3 DEF TypeOK
  <2> HIDE DEF new
  <2>5. TypeOK'
    BY Zenon, <1>0, <1>u, <2>1, <2>4 DEF TypeOK
  <2>6. OpOK'
    BY ZenonT(30), <1>0, <1>u, <2>0, <2>1, <2>2 DEF UsdtInv, OpOK, AfterSpec
  <2>7. IdsOK'
    BY <1>u DEF UsdtInv, IdsOK
  <2>8. ProbesOK'
    <3> SUFFICES ASSUME NEW p \in probes
                 PROVE  specs_map'[IdFor(p)] = p.want
      BY ZenonT(30), <1>u DEF UsdtInv, ProbesOK, IdFor, IdsFor, FiredIps
    <3>1. IdFor(p) # op.id
      BY ZenonT(30), <1>0 DEF UsdtInv, HashOK
    <3>2. IdFor(p) \in IdsFor(p) /\ specs_map[IdFor(p)] = p.want
      BY Zenon DEF UsdtInv, ProbesOK
    <3>3. IdFor(p) \in Ids
      <4>1. p.owner \in Links \cup {None} /\ lost \subseteq Ids
        BY <1>0 DEF TypeOK, ProbeRecord
      <4>2. ASSUME NEW l \in Links PROVE SeqRange(links[l].spec_ids) \subseteq Ids
        <5>1. links[l].spec_ids \in Seq(Ids)
          BY Zenon, <1>0 DEF TypeOK, LinkRecord
        <5> QED BY <5>1 DEF SeqRange
      <4> QED BY <3>2, <4>1, <4>2 DEF IdsFor
    <3> QED BY Zenon, <2>4, <3>1, <3>2, <3>3
  <2>9. IpsOK'
    <3> SUFFICES ASSUME ~man.has_bpf_cookie PROVE IpsOK'
      BY <1>u DEF IpsOK
    <3>1. op'.pc = "ip"
      BY <2>1 DEF AfterSpec
    <3>2. op'.pc # "unip" /\ op'.pc # "probe"
      BY <3>1
    <3>3. TargetsOK(op'.targets)
      BY Zenon, <2>1, IpsFacts
    <3>4. \A l \in Links : \A n \in DOMAIN links'[l].uprobes :
            Mapped(l, n)' => links'[l].uprobes[n] \in DOMAIN ip_map'
      BY Zenon, <1>u, <2>0, IpsFacts
    <3>5. \A l, m \in Links : \A i \in DOMAIN links'[l].uprobes, j \in DOMAIN links'[m].uprobes :
            links'[l].uprobes[i] = links'[m].uprobes[j] => l = m /\ i = j
      BY <1>u, IpsFacts
    <3>6. \A l \in Links : \A n \in DOMAIN links'[l].uprobes : \A p \in probes' :
            p.abs_ip = links'[l].uprobes[n] => p.owner = l /\ p.n = n
      BY <1>u, IpsFacts
    <3> QED BY Zenon, <1>u, <3>2, <3>3, <3>4, <3>5, <3>6, IpsIntro
  <2>10. HashOK'
    <3>1. ASSUME NEW b \in Args, op.specs_hash[b] # NoId
          PROVE  /\ op.specs_hash[b] \in SeqRange(links[op.link].spec_ids)
                 /\ specs_map'[op.specs_hash[b]] = [args |-> b, cookie |-> op.link]
      <4>1. op.specs_hash[b] \in SeqRange(links[op.link].spec_ids)
        BY ZenonT(30), <1>0, <3>1 DEF UsdtInv, HashOK
      <4>2. CASE b = a
        BY <2>0, <2>4, <4>1, <4>2 DEF new
      <4>3. CASE b # a
        <5>1. op.specs_hash[b] # op.id
          BY ZenonT(30), <1>0, <2>0, <3>1, <4>3 DEF UsdtInv, HashOK
        <5>2. specs_map[op.specs_hash[b]] = [args |-> b, cookie |-> op.link]
          BY SMTT(30), <1>0, <3>1, <4>3 DEF UsdtInv, HashOK
        <5>3. op.specs_hash[b] \in Ids
          BY Zenon, <2>0, <3>1 DEF OpRecord
        <5> QED BY Zenon, <2>4, <4>1, <5>1, <5>2, <5>3
      <4> QED BY ZenonT(30), <4>1, <4>2, <4>3
    <3>2. op'.pc \notin {"spec", "multi"}
      BY Zenon, <2>1
    <3>3. /\ \A b, c \in Args :
               op.specs_hash[b] = op.specs_hash[c] => b = c \/ op.specs_hash[b] = NoId
          /\ \A i \in DOMAIN op.targets : i < op.i => op.specs_hash[op.targets[i].spec_str] # NoId
      BY ZenonT(30), <1>0 DEF UsdtInv, HashOK, Target
    <3>4. op.id = op.specs_hash[op.targets[op.i].spec_str]
      BY <2>0 DEF Target
    <3>5. \A b \in Args : op'.specs_hash[b] # NoId =>
            /\ op'.specs_hash[b] \in SeqRange(links'[op'.link].spec_ids)
            /\ specs_map'[op'.specs_hash[b]] = [args |-> b, cookie |-> op'.link]
      BY <1>u, <2>1, <3>1
    <3>6. op'.id # NoId /\ op'.id = op'.specs_hash[op'.targets[op'.i].spec_str]
      BY Zenon, <2>0, <2>1, <3>4
    <3>7. \A i \in DOMAIN op'.targets :
            (i < op'.i \/ op'.pc = "multi") => op'.specs_hash[op'.targets[i].spec_str] # NoId
      BY Zenon, <2>1, <3>2, <3>3
    <3> QED BY ZenonT(30), <2>1, <3>2, <3>3, <3>5, <3>6, <3>7, HashIntro
  <2> QED BY Zenon, <2>2, <2>5, <2>6, <2>7, <2>8, <2>9, <2>10 DEF UsdtInv, DetachOK
<1> QED BY Zenon, <1>1, <1>2 DEF UpdateSpec

\* A new entry of the address map is for an address nothing uses.
LEMMA MapIpStep == UsdtInv /\ MapIp => UsdtInv'
<1> SUFFICES ASSUME UsdtInv, MapIp PROVE UsdtInv'
  OBVIOUS
<1>0. op.pc = "ip" /\ Attaching /\ TypeOK /\ ~man.has_bpf_cookie
  BY DEF MapIp, Attaching, UsdtInv, OpOK
<1>u. UNCHANGED <<bin, man, specs_map, links, probes, lost>>
  BY DEF MapIp
<1>1. CASE op' = ErrOut /\ UNCHANGED ip_map
  BY Zenon, <1>0, <1>1, <1>u, ErrOutStep
<1>2. CASE /\ Target(op.i).abs_ip \notin DOMAIN ip_map
           /\ ip_map' = [ip \in DOMAIN ip_map \cup {Target(op.i).abs_ip} |->
                          IF ip = Target(op.i).abs_ip THEN op.id ELSE ip_map[ip]]
           /\ op' = [op EXCEPT !.pc = "probe"]
  <2> DEFINE t == Target(op.i)
  <2>0. /\ op \in OpRecord /\ ~Detaching /\ op.i \in DOMAIN op.targets /\ t \in TargetRecord
        /\ op.link \in Links /\ op.id # NoId /\ op.id \in Ids
        /\ op.id = op.specs_hash[t.spec_str] /\ t.abs_ip \in Int
    BY ZenonT(30), <1>0, AttachFacts DEF UsdtInv, HashOK, OpRecord, TargetRecord
  <2>1. /\ op'.pc = "probe" /\ op'.id = op.id /\ op'.link = op.link /\ op'.i = op.i
        /\ op'.targets = op.targets /\ op'.specs_hash = op.specs_hash /\ op' \in OpRecord
    BY Zenon, <1>2, <2>0 DEF OpRecord
  <2>2. Attaching' /\ ~Detaching'
    BY <2>1 DEF Attaching, Detaching
  <2>3. /\ DOMAIN ip_map' = DOMAIN ip_map \cup {t.abs_ip} /\ ip_map'[t.abs_ip] = op.id
        /\ \A ip \in DOMAIN ip_map : ip_map'[ip] = ip_map[ip]
        /\ t.abs_ip \notin DOMAIN ip_map
    BY <1>2
  <2>4. Target(op.i)' = t
    BY <2>1 DEF Target
  <2> HIDE DEF t
  <2>5. TypeOK'
    BY <1>0, <1>u, <2>0, <2>1, <2>3 DEF TypeOK
  <2>6. OpOK'
    BY ZenonT(30), <1>0, <1>u, <2>0, <2>1, <2>2 DEF UsdtInv, OpOK
  <2>7. IdsOK'
    BY Zenon, <1>u DEF UsdtInv, IdsOK
  <2>8. ASSUME NEW p \in probes PROVE p.abs_ip \in DOMAIN ip_map
    BY <1>0 DEF UsdtInv, ProbesOK
  <2>9. ProbesOK'
    <3>1. ASSUME NEW p \in probes PROVE IdFor(p)' = IdFor(p)
      BY Zenon, <1>0, <1>u, <2>3, <2>8 DEF IdFor
    <3> QED BY SMTT(30), <1>u, <2>3, <2>8, <3>1 DEF UsdtInv, ProbesOK, IdsFor, FiredIps
  <2>10. IpsOK'
    <3>1. ASSUME NEW l \in Links, NEW n \in DOMAIN links[l].uprobes
          PROVE  links[l].uprobes[n] \in DOMAIN ip_map
      BY Zenon, <1>0, <2>0 DEF UsdtInv, IpsOK, Mapped
    <3>2. \A p \in probes : p.abs_ip # t.abs_ip
      BY <2>3, <2>8
    <3>3. op'.pc # "unip"
      BY Zenon, <2>1
    <3>4. /\ \A l, m \in Links : \A i \in DOMAIN links[l].uprobes, j \in DOMAIN links[m].uprobes :
             links[l].uprobes[i] = links[m].uprobes[j] => l = m /\ i = j
          /\ \A l \in Links : \A n \in DOMAIN links[l].uprobes : \A p \in probes :
             p.abs_ip = links[l].uprobes[n] => p.owner = l /\ p.n = n
      BY Zenon, <1>0 DEF UsdtInv, IpsOK
    <3>5. \A i \in DOMAIN op.targets :
            \A m \in Mappings(bin) : InFile(m, Target(i).rel_ip) =>
              m.start - m.offset + Target(i).rel_ip = Target(i).abs_ip
      BY Zenon, <1>0 DEF UsdtInv, IpsOK
    <3> QED BY SMTT(30), <1>u, <2>1, <2>2, <2>3, <2>4, <3>1, <3>2, <3>3, <3>4, <3>5 DEF IpsOK, Target
  <2>11. HashOK'
    <3>1. op'.pc \notin {"spec", "multi"} /\ op.pc \notin {"spec", "multi"}
      BY Zenon, <1>0, <2>1
    <3>2. op'.id # NoId /\ op'.id = op'.specs_hash[op'.targets[op'.i].spec_str]
      BY Zenon, <2>0, <2>1 DEF Target, t
    <3>3. \A i \in DOMAIN op.targets : i < op.i => op.specs_hash[op.targets[i].spec_str] # NoId
      BY <1>0, <3>1, HashStored DEF Target
    <3> QED BY Zenon, <1>0, <1>u, <2>1, <3>1, <3>2, <3>3, HashStored, HashIntro
  <2> QED BY <2>2, <2>5, <2>6, <2>7, <2>9, <2>10, <2>11 DEF UsdtInv, DetachOK
<1> QED BY <1>1, <1>2 DEF MapIp

\* Ids the links hold are ids.
LEMMA LinkIds ==
  ASSUME TypeOK, NEW l \in Links
  PROVE  /\ links[l] \in LinkRecord /\ links[l].spec_ids \in Seq(Ids)
         /\ links[l].uprobes \in Seq(Int) /\ SeqRange(links[l].spec_ids) \subseteq Ids
<1>1. links[l] \in LinkRecord
  BY DEF TypeOK
<1>2. links[l].spec_ids \in Seq(Ids) /\ links[l].uprobes \in Seq(Int)
  BY <1>1 DEF LinkRecord
<1> QED BY <1>1, <1>2 DEF SeqRange

\* The id of a uprobe is one its link holds, or one given up.
LEMMA ProbeId ==
  ASSUME UsdtInv, NEW p \in probes
  PROVE  /\ p \in ProbeRecord /\ p.owner \in Links \cup {None}
         /\ IdFor(p) \in Ids
         /\ IdFor(p) \in lost \/ \E l \in Links : IdFor(p) \in SeqRange(links[l].spec_ids)
<1>1. p \in ProbeRecord /\ TypeOK /\ lost \subseteq Ids
  BY DEF UsdtInv, TypeOK
<1>2. p.owner \in Links \cup {None}
  BY <1>1 DEF ProbeRecord
<1>3. IdFor(p) \in IdsFor(p)
  BY DEF UsdtInv, ProbesOK
<1> QED BY <1>1, <1>2, <1>3, LinkIds DEF IdsFor

\* A new id is taken from the free list or from the ids never used, and so
\* is in no other place.
LEMMA NewIdFacts ==
  ASSUME UsdtInv, NEW id \in Ids, NewSpecId(id)
  PROVE  /\ man' \in ManRecord
         /\ man'.has_bpf_cookie = man.has_bpf_cookie
         /\ man'.has_uprobe_multi = man.has_uprobe_multi
         /\ Once(man'.free_spec_ids)
         /\ SeqRange(man'.free_spec_ids) = SeqRange(man.free_spec_ids) \ {id}
         /\ id \notin lost /\ \A l \in Links : id \notin SeqRange(links[l].spec_ids)
         /\ 0 .. (man'.next_free_spec_id - 1) = (0 .. (man.next_free_spec_id - 1)) \cup {id}
<1>0. /\ man \in ManRecord /\ man.free_spec_ids \in Seq(Ids) /\ Once(man.free_spec_ids)
      /\ man.next_free_spec_id \in 0 .. MaxSpecs /\ MaxSpecs \in Nat /\ IdsOK
  BY Zenon, NoIdFresh DEF UsdtInv, TypeOK, ManRecord, IdsOK, Once
<1>1. CASE man.free_spec_ids # <<>>
  <2> DEFINE f == SubSeq(man.free_spec_ids, 1, Len(man.free_spec_ids) - 1)
  <2>1. id = man.free_spec_ids[Len(man.free_spec_ids)] /\ man' = [man EXCEPT !.free_spec_ids = f]
    BY <1>1 DEF NewSpecId
  <2>2. /\ f \in Seq(Ids) /\ Once(f) /\ SeqRange(f) = SeqRange(man.free_spec_ids) \ {id}
        /\ id \in SeqRange(man.free_spec_ids)
    BY <1>0, <1>1, <2>1, OnceFront
  <2> HIDE DEF f
  <2>3. /\ man' \in ManRecord /\ man'.free_spec_ids = f
        /\ man'.has_bpf_cookie = man.has_bpf_cookie
        /\ man'.has_uprobe_multi = man.has_uprobe_multi
        /\ man'.next_free_spec_id = man.next_free_spec_id
    BY Zenon, <1>0, <2>1, <2>2 DEF ManRecord
  <2>4. id \notin lost /\ \A l \in Links : id \notin SeqRange(links[l].spec_ids)
    BY <1>0, <2>2 DEF IdsOK
  <2>5. id \in 0 .. (man.next_free_spec_id - 1)
    BY <1>0, <2>2 DEF IdsOK
  <2> QED BY <2>2, <2>3, <2>4, <2>5
<1>2. CASE man.free_spec_ids = <<>>
  <2> PICK one \in Nat \ {0} : one = 1
    OBVIOUS
  <2>1. /\ id = man.next_free_spec_id /\ man.next_free_spec_id < MaxSpecs
        /\ man' = [man EXCEPT !.next_free_spec_id = man.next_free_spec_id + one]
    BY <1>2 DEF NewSpecId
  <2>2. man.next_free_spec_id + one \in 0 .. MaxSpecs
    BY <1>0, <2>1
  <2>3. /\ man' \in ManRecord /\ man'.free_spec_ids = man.free_spec_ids
        /\ man'.has_bpf_cookie = man.has_bpf_cookie
        /\ man'.has_uprobe_multi = man.has_uprobe_multi
        /\ man'.next_free_spec_id = man.next_free_spec_id + one
    BY Zenon, <1>0, <2>1, <2>2 DEF ManRecord
  <2>4. id \notin 0 .. (man.next_free_spec_id - 1)
    BY <1>0, <2>1
  <2>5. /\ id \notin lost /\ id \notin SeqRange(man.free_spec_ids)
        /\ \A l \in Links : id \notin SeqRange(links[l].spec_ids)
    BY <1>0, <2>4 DEF IdsOK
  <2>6. 0 .. (man'.next_free_spec_id - 1) = (0 .. (man.next_free_spec_id - 1)) \cup {id}
    BY SMTT(30), <1>0, <2>1, <2>3
  <2> QED BY Zenon, <1>0, <2>3, <2>5, <2>6
<1> QED BY Zenon, <1>1, <1>2

\* A new id goes to the link and to the hash of the attach.
LEMMA AllocateSpecIdStep == UsdtInv /\ AllocateSpecId => UsdtInv'
<1> SUFFICES ASSUME UsdtInv, AllocateSpecId PROVE UsdtInv'
  OBVIOUS
<1> DEFINE a == Target(op.i).spec_str
<1>0. /\ op.pc = "alloc" /\ Attaching /\ TypeOK /\ IdsOK /\ op.specs_hash[a] = NoId
      /\ UNCHANGED <<bin, specs_map, ip_map, probes, lost>>
  BY Zenon DEF AllocateSpecId, Attaching, UsdtInv
<1>1. PICK id \in Ids :
        /\ NewSpecId(id)
        /\ links' = [links EXCEPT ![op.link].spec_ids = Append(@, id)]
        /\ op' = [op EXCEPT !.pc = "spec", !.id = id, !.specs_hash[a] = id]
  BY Zenon DEF AllocateSpecId
<1>2. /\ op \in OpRecord /\ ~Detaching /\ op.link \in Links /\ op.i \in DOMAIN op.targets
      /\ a \in Args /\ op.specs_hash \in [Args -> Ids \cup {NoId}]
      /\ links[op.link].live /\ ~links[op.link].disconnected
      /\ ~man.has_bpf_cookie => TargetsOK(op.targets)
  BY <1>0, AttachFacts
<1>3. /\ man' \in ManRecord
      /\ man'.has_bpf_cookie = man.has_bpf_cookie
      /\ man'.has_uprobe_multi = man.has_uprobe_multi
      /\ Once(man'.free_spec_ids)
      /\ SeqRange(man'.free_spec_ids) = SeqRange(man.free_spec_ids) \ {id}
      /\ id \notin lost /\ \A l \in Links : id \notin SeqRange(links[l].spec_ids)
      /\ 0 .. (man'.next_free_spec_id - 1) = (0 .. (man.next_free_spec_id - 1)) \cup {id}
  BY Zenon, <1>1, NewIdFacts
<1>4. op'.specs_hash = [op.specs_hash EXCEPT ![a] = id]
  BY Zenon, <1>1, <1>2 DEF OpRecord
<1>5. op'.specs_hash \in [Args -> Ids \cup {NoId}]
  BY Zenon, <1>2, <1>4
<1>6. /\ op'.pc = "spec" /\ op'.id = id /\ op'.link = op.link /\ op'.i = op.i
      /\ op'.targets = op.targets /\ op' \in OpRecord
  BY Zenon, <1>1, <1>2, <1>4, <1>5 DEF OpRecord
<1>7. Attaching' /\ ~Detaching'
  BY <1>6 DEF Attaching, Detaching
<1> HIDE DEF a
<1>8. Append(links[op.link].spec_ids, id) \in Seq(Ids)
  BY <1>0, <1>2, LinkIds
<1>9. /\ links'[op.link] = [links[op.link] EXCEPT !.spec_ids = Append(links[op.link].spec_ids, id)]
      /\ \A l \in Links : l # op.link => links'[l] = links[l]
      /\ DOMAIN links' = Links /\ links' = [l \in Links |-> links'[l]]
  BY Zenon, <1>0, <1>1, <1>2 DEF TypeOK
<1>10. /\ links'[op.link] \in LinkRecord
       /\ links'[op.link].spec_ids = Append(links[op.link].spec_ids, id)
       /\ links'[op.link].uprobes = links[op.link].uprobes
       /\ links'[op.link].live = links[op.link].live
       /\ links'[op.link].disconnected = links[op.link].disconnected
  BY ZenonT(30), <1>0, <1>2, <1>8, <1>9, LinkIds DEF LinkRecord
<1>11. SeqRange(links'[op.link].spec_ids) = SeqRange(links[op.link].spec_ids) \cup {id}
  BY <1>0, <1>1, <1>2, <1>10, LinkIds, RangeAppend
<1>12. \A l \in Links : links'[l].uprobes = links[l].uprobes
  BY Zenon, <1>9, <1>10
<1>13. TypeOK'
  <2>1. links' \in [Links -> LinkRecord]
    BY <1>0, <1>9, <1>10 DEF TypeOK
  <2> QED BY <1>0, <1>3, <1>6, <2>1 DEF TypeOK
<1>14. OpOK'
  <2>1. /\ \A l \in Links : ~links[l].live => links[l] = NoLink
        /\ ~man.has_uprobe_multi => Len(links[op.link].uprobes) = op.i - 1
    BY Zenon, <1>0 DEF UsdtInv, OpOK
  <2>2. \A l \in Links : ~links'[l].live => links'[l] = NoLink
    BY ZenonT(30), <1>2, <1>9, <1>10, <2>1
  <2> QED BY SMTT(30), <1>2, <1>3, <1>6, <1>7, <1>10, <2>1, <2>2 DEF OpOK
<1>15. IdsOK'
  <2> DEFINE R(l) == SeqRange(links[l].spec_ids)
             Free == SeqRange(man.free_spec_ids)
  <2>0. /\ \A l \in Links : Once(links[l].spec_ids)
        /\ \A l, m \in Links : l # m => R(l) \cap R(m) = {}
        /\ \A l \in Links : R(l) \cap (Free \cup lost) = {}
        /\ Free \cap lost = {}
        /\ Free \cup lost \cup UNION {R(l) : l \in Links} = 0 .. (man.next_free_spec_id - 1)
    BY Zenon, <1>0 DEF IdsOK, Once
  <2>1. Once(links'[op.link].spec_ids)
    <3>1. Once(links[op.link].spec_ids) /\ id \notin SeqRange(links[op.link].spec_ids)
      BY <1>2, <1>3, <2>0
    <3>2. links[op.link].spec_ids \in Seq(Ids)
      BY <1>0, <1>2, LinkIds
    <3>3. Once(Append(links[op.link].spec_ids, id))
      BY <3>1, <3>2, OnceAppend
    <3> QED BY <1>10, <3>3
  <2>2. \A l \in Links : Once(links'[l].spec_ids)
    BY ZenonT(30), <1>9, <2>0, <2>1
  <2>3. \A l \in Links : SeqRange(links'[l].spec_ids) =
          IF l = op.link THEN R(l) \cup {id} ELSE R(l)
    BY Zenon, <1>9, <1>11
  <2>f. /\ SeqRange(man'.free_spec_ids) = Free \ {id}
        /\ id \notin lost /\ \A l \in Links : id \notin R(l)
    BY <1>3
  <2> HIDE DEF R, Free
  <2>4. ASSUME NEW l \in Links, NEW m \in Links, l # m
        PROVE  SeqRange(links'[l].spec_ids) \cap SeqRange(links'[m].spec_ids) = {}
    <3>0. R(l) \cap R(m) = {} /\ id \notin R(l) /\ id \notin R(m)
      BY <2>0, <2>4, <2>f
    <3>1. /\ SeqRange(links'[l].spec_ids) = R(l) \/ SeqRange(links'[m].spec_ids) = R(m)
          /\ SeqRange(links'[l].spec_ids) \in {R(l), R(l) \cup {id}}
          /\ SeqRange(links'[m].spec_ids) \in {R(m), R(m) \cup {id}}
      BY Zenon, <2>3, <2>4
    <3> QED BY <3>0, <3>1
  <2>5. ASSUME NEW l \in Links
        PROVE  SeqRange(links'[l].spec_ids) \cap (SeqRange(man'.free_spec_ids) \cup lost) = {}
    <3>1. R(l) \cap (Free \cup lost) = {}
      BY Zenon, <2>0
    <3>2. SeqRange(links'[l].spec_ids) \in {R(l), R(l) \cup {id}}
      BY Zenon, <2>3
    <3> QED BY <2>f, <3>1, <3>2
  <2>6. SeqRange(man'.free_spec_ids) \cap lost = {}
    BY <2>0, <2>f
  <2> DEFINE U == UNION {SeqRange(links'[l].spec_ids) : l \in Links}
             V == UNION {R(l) : l \in Links}
             A == 0 .. (man.next_free_spec_id - 1)
             B == 0 .. (man'.next_free_spec_id - 1)
  <2>7. U = V \cup {id}
    <3>1. ASSUME NEW x \in U PROVE x \in V \cup {id}
      <4>1. PICK l \in Links : x \in SeqRange(links'[l].spec_ids)
        OBVIOUS
      <4>2. x \in R(l) \cup {id}
        BY ZenonT(30), <2>3, <4>1
      <4> QED BY <4>2
    <3>2. ASSUME NEW x \in V PROVE x \in U
      <4>1. PICK l \in Links : x \in R(l)
        OBVIOUS
      <4>2. x \in SeqRange(links'[l].spec_ids)
        BY Zenon, <2>3, <4>1
      <4> QED BY <4>2
    <3>3. id \in U
      BY ZenonT(30), <1>2, <2>3
    <3> HIDE DEF U, V
    <3> QED BY <3>1, <3>2, <3>3
  <2>8. SeqRange(man'.free_spec_ids) \cup lost \cup U = B
    <3>1. Free \cup lost \cup V = A
      BY <2>0
    <3>2. B = A \cup {id}
      BY <1>3
    <3> HIDE DEF U, V, A, B
    <3> QED BY <2>f, <2>7, <3>1, <3>2
  <2> QED BY Zenon, <1>0, <1>3, <2>2, <2>4, <2>5, <2>6, <2>8 DEF IdsOK, Once
<1>16. ASSUME NEW p \in probes PROVE IdFor(p)' = IdFor(p) /\ IdFor(p) # id
  BY <1>0, <1>3, ProbeId DEF IdFor
<1>17. ProbesOK'
  <2> SUFFICES ASSUME NEW p \in probes
               PROVE  /\ ~man.has_bpf_cookie =>
                           p.abs_ip \in DOMAIN ip_map /\ FiredIps(p) \subseteq {p.abs_ip}
                      /\ IdFor(p) \in IdsFor(p)'
                      /\ specs_map[IdFor(p)] = p.want
                      /\ p.owner # None /\ ~man.has_uprobe_multi =>
                           /\ p.n \in DOMAIN links'[p.owner].uprobes
                           /\ links'[p.owner].uprobes[p.n] = p.abs_ip
                      /\ p.owner # None => links'[p.owner].live
    BY <1>0, <1>3, <1>16 DEF ProbesOK, FiredIps
  <2>1. p.owner \in Links \cup {None}
    BY ProbeId
  <2>2. IdsFor(p) \subseteq IdsFor(p)'
    BY Zenon, <1>0, <1>9, <1>11, <2>1 DEF IdsFor
  <2>3. p.owner # None => links'[p.owner].live = links[p.owner].live
    BY Zenon, <1>9, <1>10, <2>1
  <2> QED BY Zenon, <1>12, <2>1, <2>2, <2>3 DEF UsdtInv, ProbesOK
<1>18. IpsOK'
  <2> SUFFICES ASSUME ~man.has_bpf_cookie PROVE IpsOK'
    BY Zenon, <1>3 DEF IpsOK
  <2>1. \A l \in Links : \A n \in DOMAIN links[l].uprobes : links[l].uprobes[n] \in DOMAIN ip_map
    BY Zenon, <1>2 DEF UsdtInv, IpsOK, Mapped
  <2>2. /\ \A l, m \in Links : \A i \in DOMAIN links[l].uprobes, j \in DOMAIN links[m].uprobes :
             links[l].uprobes[i] = links[m].uprobes[j] => l = m /\ i = j
        /\ \A l \in Links : \A n \in DOMAIN links[l].uprobes : \A p \in probes :
             p.abs_ip = links[l].uprobes[n] => p.owner = l /\ p.n = n
    BY Zenon DEF UsdtInv, IpsOK
  <2> QED BY <1>0, <1>2, <1>6, <1>7, <1>12, <2>1, <2>2 DEF IpsOK, TargetsOK, Target
<1>19. HashOK'
  <2>0. Target(op.i)'.spec_str = a /\ op.pc \notin {"spec", "multi"}
    BY Zenon, <1>0, <1>6 DEF Target, a
  <2>1. ASSUME NEW b \in Args, op'.specs_hash[b] # NoId
        PROVE  /\ op'.specs_hash[b] \in SeqRange(links'[op.link].spec_ids)
               /\ \/ b = a
                  \/ specs_map[op'.specs_hash[b]] = [args |-> b, cookie |-> op.link]
    <3>1. CASE b = a
      BY Zenon, <1>2, <1>4, <1>11, <3>1
    <3>2. CASE b # a
      <4>1. op'.specs_hash[b] = op.specs_hash[b]
        BY Zenon, <1>2, <1>4, <3>2
      <4>2. /\ op.specs_hash[b] \in SeqRange(links[op.link].spec_ids)
            /\ specs_map[op.specs_hash[b]] = [args |-> b, cookie |-> op.link]
        BY SMTT(30), <1>0, <2>0, <2>1, <4>1, HashStored
      <4> QED BY SMTT(30), <1>11, <4>1, <4>2
    <3> QED BY <3>1, <3>2
  <2>2. ASSUME NEW b \in Args, NEW c \in Args, op'.specs_hash[b] = op'.specs_hash[c],
               op'.specs_hash[b] # NoId
        PROVE  b = c
    <3>1. \A d \in Args : d # a => op'.specs_hash[d] = op.specs_hash[d]
      BY Zenon, <1>2, <1>4
    <3>2. ASSUME NEW d \in Args, d # a, op.specs_hash[d] # NoId
          PROVE  op.specs_hash[d] # id
      <4>1. op.specs_hash[d] \in SeqRange(links[op.link].spec_ids)
        BY Zenon, <1>0, <2>0, <3>2, HashStored
      <4>2. id \notin SeqRange(links[op.link].spec_ids)
        BY Zenon, <1>2, <1>3
      <4> QED BY Zenon, <4>1, <4>2
    <3>3. op'.specs_hash[a] = id
      BY <1>2, <1>4
    <3>4. CASE b # a /\ c # a
      BY <1>0, <2>0, <2>2, <3>1, <3>4, HashStored
    <3> QED BY SMTT(30), <2>2, <3>1, <3>2, <3>3, <3>4
  <2>3. id # NoId /\ op'.specs_hash[a] = id
    BY <1>2, <1>4, NoIdFresh
  <2>4. ASSUME NEW i \in DOMAIN op.targets, i < op.i
        PROVE  op'.specs_hash[op.targets[i].spec_str] # NoId
    <3>1. op.specs_hash[op.targets[i].spec_str] # NoId /\ op.targets[i].spec_str \in Args
      BY <1>0, <2>0, <2>4, HashStored, AttachFacts DEF Target
    <3> QED BY <1>2, <1>4, <2>3, <3>1
  <2>5. \A p \in probes : IdFor(p)' # id
    BY Zenon, <1>16
  <2> QED BY ZenonT(30), <1>0, <1>6, <1>7, <2>0, <2>1, <2>2, <2>3, <2>4, <2>5 DEF HashOK, Target
<1> QED BY ZenonT(30), <1>7, <1>13, <1>14, <1>15, <1>17, <1>18, <1>19 DEF UsdtInv, DetachOK

\* The uprobe of a target that has its id is one ProbesOK allows.
LEMMA NewProbe ==
  ASSUME UsdtInv, Attaching, op.pc # "spec", NEW i \in DOMAIN op.targets, NEW c \in Int,
         op.specs_hash[Target(i).spec_str] \in Ids,
         man.has_bpf_cookie => c = op.specs_hash[Target(i).spec_str],
         ~man.has_bpf_cookie =>
           /\ Target(i).abs_ip \in DOMAIN ip_map
           /\ ip_map[Target(i).abs_ip] = op.specs_hash[Target(i).spec_str]
  PROVE  LET p == Probe(i, c)
             id == op.specs_hash[Target(i).spec_str]
         IN  /\ p \in ProbeRecord /\ p.owner = op.link /\ p.n = i /\ p.abs_ip = Target(i).abs_ip
             /\ ~man.has_bpf_cookie =>
                  p.abs_ip \in DOMAIN ip_map /\ FiredIps(p) \subseteq {p.abs_ip}
             /\ IdFor(p) = id /\ id \in SeqRange(links[op.link].spec_ids)
             /\ specs_map[id] = p.want
<1> DEFINE p == Probe(i, c)
           t == Target(i)
           id == op.specs_hash[Target(i).spec_str]
<1>1. /\ op.link \in Links /\ t \in TargetRecord /\ i \in Nat \ {0} /\ t.spec_str \in Args
      /\ ~man.has_bpf_cookie => TargetsOK(op.targets)
  BY AttachFacts
<1>2. t.abs_ip \in Int /\ t.rel_ip \in Int
  BY Zenon, <1>1 DEF TargetRecord
<1>3. /\ p.owner = op.link /\ p.n = i /\ p.abs_ip = t.abs_ip /\ p.rel_ip = t.rel_ip
      /\ p.cookie = c /\ p.want = [args |-> t.spec_str, cookie |-> op.link]
      /\ p = [owner |-> op.link, n |-> i, rel_ip |-> t.rel_ip, cookie |-> c,
              abs_ip |-> t.abs_ip, want |-> p.want]
  BY Zenon DEF Probe
<1>4. id \in SeqRange(links[op.link].spec_ids) /\ specs_map[id] = p.want
  BY <1>1, <1>3, HashStored, NoIdFresh
<1> HIDE DEF p
<1>5. p.want \in SpecRecord
  BY <1>1, <1>3 DEF SpecRecord
<1>6. p \in ProbeRecord
  BY <1>1, <1>2, <1>3, <1>5 DEF ProbeRecord
<1>7. IdFor(p) = id
  BY <1>3 DEF IdFor
<1>8. ASSUME ~man.has_bpf_cookie PROVE FiredIps(p) \subseteq {p.abs_ip}
  <2>1. \A m \in Mappings(bin) : InFile(m, t.rel_ip) =>
          m.start - m.offset + t.rel_ip = t.abs_ip
    BY <1>1, <1>8 DEF TargetsOK, Target
  <2> QED BY SMTT(30), <1>3, <2>1 DEF FiredIps
<1> QED BY SMTT(30), <1>3, <1>4, <1>6, <1>7, <1>8 DEF p

\* The uprobe at the place of the next target, and its address in the link.
LEMMA AttachUprobeStep == UsdtInv /\ AttachUprobe => UsdtInv'
<1> SUFFICES ASSUME UsdtInv, AttachUprobe PROVE UsdtInv'
  OBVIOUS
<1>0. op.pc = "probe" /\ Attaching /\ TypeOK /\ ~man.has_uprobe_multi
  BY DEF AttachUprobe, Attaching, UsdtInv
<1>u. UNCHANGED <<bin, man, specs_map, ip_map, lost>>
  BY DEF AttachUprobe
<1>1. CASE op' = ErrOut /\ UNCHANGED <<links, probes>>
  BY <1>0, <1>1, <1>u, ErrOutStep
<1>2. CASE /\ probes' = probes \cup {Probe(op.i, IF man.has_bpf_cookie THEN op.id ELSE 0)}
           /\ links' = [links EXCEPT ![op.link].uprobes = Append(@, Target(op.i).abs_ip)]
           /\ op' = NextTarget(Idle)
  <2> DEFINE t == Target(op.i)
             c == IF man.has_bpf_cookie THEN op.id ELSE 0
             q == Probe(op.i, c)
             k == links[op.link]
  <2>0. /\ op \in OpRecord /\ ~Detaching /\ op.i \in DOMAIN op.targets /\ t \in TargetRecord
        /\ op.link \in Links /\ op.id # NoId /\ op.id \in Ids
        /\ op.id = op.specs_hash[t.spec_str] /\ t.abs_ip \in Int /\ k.live /\ ~k.disconnected
        /\ op.i \in Nat \ {0} /\ ~man.has_bpf_cookie => TargetsOK(op.targets)
        /\ DOMAIN op.targets = 1 .. Len(op.targets) /\ Len(op.targets) \in Nat
    <3>1. op.id # NoId /\ op.id = op.specs_hash[Target(op.i).spec_str]
      BY Zenon, <1>0 DEF UsdtInv, HashOK
    <3>2. op \in OpRecord /\ t \in TargetRecord
      BY Zenon, <1>0, AttachFacts
    <3>3. op.id \in Ids \cup {NoId} /\ t.abs_ip \in Int
      BY Zenon, <3>2 DEF OpRecord, TargetRecord
    <3> QED BY Zenon, <1>0, <3>1, <3>2, <3>3, AttachFacts
  <2>1. c \in Int
    <3>0. op.id \in Ids /\ Ids \subseteq Int
      BY <2>0, NoIdFresh
    <3>1. op.id \in Int
      BY <3>0, Zenon
    <3>2. CASE man.has_bpf_cookie
      BY <3>1, <3>2
    <3>3. CASE ~man.has_bpf_cookie
      BY SMTT(30), <3>3
    <3> QED BY Zenon, <3>2, <3>3
  <2>2. ~man.has_bpf_cookie => /\ t.abs_ip \in DOMAIN ip_map
                               /\ ip_map[t.abs_ip] = op.id
                               /\ \A p \in probes : p.abs_ip # t.abs_ip
                               /\ \A l \in Links : \A n \in DOMAIN links[l].uprobes :
                                    links[l].uprobes[n] # t.abs_ip
    BY ZenonT(30), <1>0 DEF UsdtInv, IpsOK
  <2>3. /\ q \in ProbeRecord /\ q.owner = op.link /\ q.n = op.i /\ q.abs_ip = t.abs_ip
        /\ ~man.has_bpf_cookie =>
             q.abs_ip \in DOMAIN ip_map /\ FiredIps(q) \subseteq {q.abs_ip}
        /\ IdFor(q) = op.id /\ op.id \in SeqRange(links[op.link].spec_ids)
        /\ specs_map[op.id] = q.want
    <3>1. /\ op.pc # "spec" /\ (man.has_bpf_cookie => c = op.id)
          /\ op.id = op.specs_hash[Target(op.i).spec_str]
      BY <1>0, <2>0
    <3>2. ~man.has_bpf_cookie => /\ Target(op.i).abs_ip \in DOMAIN ip_map
                                 /\ ip_map[Target(op.i).abs_ip] = op.id
      BY Zenon, <2>2
    <3> DEFINE id == op.specs_hash[Target(op.i).spec_str]
    <3>3. /\ op.i \in DOMAIN op.targets /\ id \in Ids
          /\ man.has_bpf_cookie => c = id
          /\ ~man.has_bpf_cookie => /\ Target(op.i).abs_ip \in DOMAIN ip_map
                                    /\ ip_map[Target(op.i).abs_ip] = id
      BY Zenon, <2>0, <3>1, <3>2
    <3> HIDE DEF c
    <3>4. LET p == Probe(op.i, c)
          IN  /\ p \in ProbeRecord /\ p.owner = op.link /\ p.n = op.i
              /\ p.abs_ip = Target(op.i).abs_ip
              /\ ~man.has_bpf_cookie =>
                   p.abs_ip \in DOMAIN ip_map /\ FiredIps(p) \subseteq {p.abs_ip}
              /\ IdFor(p) = id /\ id \in SeqRange(links[op.link].spec_ids)
              /\ specs_map[id] = p.want
      BY Zenon, <1>0, <2>1, <3>1, <3>3, NewProbe
    <3>5. op.id = id
      BY Zenon, <3>1
    <3> QED BY Zenon, <3>4, <3>5
  <2>4. /\ probes' = probes \cup {q}
        /\ links' = [links EXCEPT ![op.link].uprobes = Append(@, t.abs_ip)]
    BY <1>2
  <2>5. /\ k \in LinkRecord /\ k.uprobes \in Seq(Int) /\ Len(k.uprobes) = op.i - 1
    BY <1>0, <2>0, LinkIds DEF UsdtInv, OpOK
  <2>6. /\ links'[op.link] = [k EXCEPT !.uprobes = Append(k.uprobes, t.abs_ip)]
        /\ \A l \in Links : l # op.link => links'[l] = links[l]
        /\ DOMAIN links' = Links /\ links' = [l \in Links |-> links'[l]]
    BY Zenon, <1>0, <2>0, <2>4 DEF TypeOK
  <2> HIDE DEF c, q, t, k
  <2>7. Append(k.uprobes, t.abs_ip) \in Seq(Int)
    BY <2>0, <2>5
  <2>8. /\ links'[op.link] \in LinkRecord
        /\ links'[op.link].uprobes = Append(k.uprobes, t.abs_ip)
        /\ links'[op.link].spec_ids = k.spec_ids
        /\ links'[op.link].live = k.live
        /\ links'[op.link].disconnected = k.disconnected
    BY Zenon, <2>5, <2>6, <2>7 DEF LinkRecord
  <2>9. /\ DOMAIN links'[op.link].uprobes = DOMAIN k.uprobes \cup {op.i}
        /\ DOMAIN k.uprobes = 1 .. (op.i - 1)
        /\ Len(links'[op.link].uprobes) = op.i
        /\ links'[op.link].uprobes[op.i] = t.abs_ip
        /\ \A n \in DOMAIN k.uprobes : links'[op.link].uprobes[n] = k.uprobes[n]
    <3> DEFINE u == k.uprobes
    <3>1. u \in Seq(Int) /\ t.abs_ip \in Int /\ Len(u) = op.i - 1 /\ op.i \in Nat \ {0}
      BY <2>0, <2>5
    <3>2. links'[op.link].uprobes = Append(u, t.abs_ip)
      BY <2>8
    <3> HIDE DEF u
    <3>3. DOMAIN u = 1 .. (op.i - 1) /\ Len(u) + 1 = op.i
      BY <3>1
    <3>4. /\ DOMAIN Append(u, t.abs_ip) = DOMAIN u \cup {op.i}
          /\ Len(Append(u, t.abs_ip)) = op.i
          /\ Append(u, t.abs_ip)[op.i] = t.abs_ip
          /\ \A n \in DOMAIN u : Append(u, t.abs_ip)[n] = u[n]
      BY <3>1, <3>3
    <3> QED BY <3>2, <3>3, <3>4 DEF u
  <2>10. \/ /\ op'.pc = "alloc" /\ op'.i = op.i + 1 /\ op'.i \in DOMAIN op.targets
            /\ op'.link = op.link /\ op'.targets = op.targets
            /\ op'.specs_hash = op.specs_hash /\ op' \in OpRecord
         \/ op'.pc = "idle" /\ op'.targets = <<>> /\ op' \in OpRecord
    <3>1. CASE op.i < Len(op.targets)
      <4>1. op' = [op EXCEPT !.pc = "alloc", !.i = @ + 1]
        BY <1>2, <3>1 DEF NextTarget
      <4>2. op.i + 1 \in Nat \ {0} /\ op.i + 1 \in DOMAIN op.targets
        BY <2>0, <3>1
      <4> QED BY ZenonT(30), <2>0, <4>1, <4>2 DEF OpRecord
    <3>2. CASE ~(op.i < Len(op.targets))
      <4>1. op' = Idle
        BY <1>2, <3>2 DEF NextTarget
      <4> QED BY <4>1, IdleType
    <3> QED BY <3>1, <3>2
  <2>11. ~Detaching' /\ op'.pc \notin {"spec", "ip", "probe", "multi", "collect", "unip"}
    BY <2>10 DEF Detaching
  <2>12. TypeOK'
    <3>1. links' \in [Links -> LinkRecord]
      BY <1>0, <2>6, <2>8 DEF TypeOK
    <3>2. op' \in OpRecord
      BY <2>10
    <3>3. probes' \subseteq ProbeRecord
      BY <1>0, <2>3, <2>4 DEF TypeOK
    <3> QED BY <1>0, <1>u, <3>1, <3>2, <3>3 DEF TypeOK
  <2>13. OpOK'
    <3>1. \A l \in Links : ~links'[l].live => links'[l] = NoLink
      BY ZenonT(30), <2>0, <2>6, <2>8 DEF UsdtInv, OpOK, k
    <3>2. Attaching' => /\ op'.link = op.link /\ op'.i \in DOMAIN op'.targets
                        /\ op'.i = op.i + 1
      BY <2>10, <2>11 DEF Attaching
    <3>3. op.i = op.i + 1 - 1
      BY <2>0
    <3>4. (Attaching \/ Detaching)' => Attaching'
      BY <2>11
    <3>5. links'[op.link].live /\ ~links'[op.link].disconnected
      BY Zenon, <2>0, <2>8 DEF k
    <3>6. Attaching' => Len(links'[op'.link].uprobes) = op'.i - 1
      BY <2>9, <3>2, <3>3
    <3>7. op.link \in Links
      BY <2>0
    <3> QED BY ZenonT(30), <2>11, <3>1, <3>2, <3>4, <3>5, <3>6, <3>7 DEF OpOK
  <2>14. IdsOK'
    <3>1. \A l \in Links : links'[l].spec_ids = links[l].spec_ids
      BY Zenon, <2>6, <2>8 DEF k
    <3> QED BY Zenon, <1>u, <3>1, IdsSame DEF UsdtInv
  <2>15. ProbesOK'
    <3> SUFFICES ASSUME NEW p \in probes'
                 PROVE  /\ ~man.has_bpf_cookie =>
                             p.abs_ip \in DOMAIN ip_map /\ FiredIps(p) \subseteq {p.abs_ip}
                        /\ IdFor(p) \in IdsFor(p)'
                        /\ specs_map[IdFor(p)] = p.want
                        /\ p.owner # None /\ ~man.has_uprobe_multi =>
                             /\ p.n \in DOMAIN links'[p.owner].uprobes
                             /\ links'[p.owner].uprobes[p.n] = p.abs_ip
                        /\ p.owner # None => links'[p.owner].live
      BY ZenonT(30), <1>u DEF ProbesOK, IdFor, FiredIps
    <3>1. CASE p = q
      <4>1. IdsFor(p)' = SeqRange(links[op.link].spec_ids)
        BY <2>0, <2>3, <2>8, <3>1, UsdtAssumption DEF IdsFor, k
      <4> QED BY ZenonT(30), <2>0, <2>3, <2>8, <2>9, <3>1, <4>1
    <3>2. CASE p \in probes
      <4>1. p.owner \in Links \cup {None}
        BY SMTT(30), <3>2, ProbeId
      <4>2. IdsFor(p)' = IdsFor(p)
        BY ZenonT(30), <1>u, <2>6, <2>8, <4>1 DEF IdsFor, k
      <4>3. ASSUME p.owner # None
            PROVE  /\ p.n \in DOMAIN links'[p.owner].uprobes
                   /\ links'[p.owner].uprobes[p.n] = p.abs_ip
                   /\ links'[p.owner].live
        <5>1. /\ p.n \in DOMAIN links[p.owner].uprobes
              /\ links[p.owner].uprobes[p.n] = p.abs_ip /\ links[p.owner].live
          BY <1>0, <3>2, <4>3 DEF UsdtInv, ProbesOK
        <5>2. CASE p.owner = op.link
          BY Zenon, <2>0, <2>8, <2>9, <5>1, <5>2 DEF k
        <5>3. CASE p.owner # op.link
          BY Zenon, <2>6, <4>1, <4>3, <5>1, <5>3
        <5> QED BY <5>2, <5>3
      <4> QED BY SMTT(30), <3>2, <4>2, <4>3 DEF UsdtInv, ProbesOK
    <3> QED BY <2>4, <3>1, <3>2
  <2>16. IpsOK'
    <3> SUFFICES ASSUME ~man.has_bpf_cookie PROVE IpsOK'
      BY Zenon, <1>u DEF IpsOK
    <3>1. ASSUME NEW l \in Links, NEW n \in DOMAIN links'[l].uprobes
          PROVE  \/ /\ l = op.link /\ n = op.i /\ links'[l].uprobes[n] = t.abs_ip
                 \/ /\ n \in DOMAIN links[l].uprobes /\ links'[l].uprobes[n] = links[l].uprobes[n]
                    /\ links'[l].uprobes[n] # t.abs_ip
                    /\ links'[l].uprobes[n] \in DOMAIN ip_map
      <4>1. \A m \in Links : \A j \in DOMAIN links[m].uprobes : links[m].uprobes[j] \in DOMAIN ip_map
        BY Zenon, <2>0, IpsFacts
      <4>2. CASE l = op.link
        BY SMTT(30), <2>2, <2>9, <4>1, <4>2 DEF k
      <4>3. CASE l # op.link
        BY <2>2, <2>6, <4>1, <4>3
      <4> QED BY Zenon, <4>2, <4>3
    <3>2. ASSUME NEW l \in Links, NEW n \in DOMAIN links'[l].uprobes
          PROVE  links'[l].uprobes[n] \in DOMAIN ip_map
      BY Zenon, <2>2, <3>1
    <3>3. ASSUME NEW l \in Links, NEW m \in Links, NEW i \in DOMAIN links'[l].uprobes,
                 NEW j \in DOMAIN links'[m].uprobes, links'[l].uprobes[i] = links'[m].uprobes[j]
          PROVE  l = m /\ i = j
      <4>1. CASE links'[l].uprobes[i] = t.abs_ip
        BY ZenonT(30), <3>1, <3>3, <4>1
      <4>2. CASE links'[l].uprobes[i] # t.abs_ip
        <5>1. /\ i \in DOMAIN links[l].uprobes /\ j \in DOMAIN links[m].uprobes
              /\ links[l].uprobes[i] = links[m].uprobes[j]
          BY <3>1, <3>3, <4>2
        <5> QED BY <5>1, IpsFacts
      <4> QED BY <4>1, <4>2
    <3>4. ASSUME NEW l \in Links, NEW n \in DOMAIN links'[l].uprobes, NEW p \in probes',
                 p.abs_ip = links'[l].uprobes[n]
          PROVE  p.owner = l /\ p.n = n
      <4>1. CASE p = q
        BY ZenonT(30), <2>3, <3>1, <3>4, <4>1
      <4>2. CASE p \in probes
        <5>1. p.abs_ip # t.abs_ip
          BY Zenon, <2>2, <4>2
        <5>2. n \in DOMAIN links[l].uprobes /\ p.abs_ip = links[l].uprobes[n]
          BY Zenon, <3>1, <3>4, <5>1
        <5> QED BY <4>2, <5>2, IpsFacts
      <4> QED BY ZenonT(30), <2>4, <4>1, <4>2
    <3>5. TargetsOK(op'.targets)
      BY SMTT(30), <2>0, <2>10 DEF TargetsOK
    <3> QED BY ZenonT(30), <1>u, <2>11, <3>2, <3>3, <3>4, <3>5 DEF IpsOK, TargetsOK, Target
  <2>17. HashOK'
    <3>1. CASE op'.pc = "idle"
      BY Zenon, <3>1 DEF HashOK, Attaching
    <3>2. CASE op'.pc = "alloc"
      <4>1. /\ op'.i = op.i + 1 /\ op'.link = op.link /\ op'.targets = op.targets
            /\ op'.specs_hash = op.specs_hash
        BY Zenon, <2>10, <3>2
      <4>2. \A a \in Args : op'.specs_hash[a] # NoId =>
              /\ op'.specs_hash[a] \in SeqRange(links'[op'.link].spec_ids)
              /\ specs_map'[op'.specs_hash[a]] = [args |-> a, cookie |-> op'.link]
        BY ZenonT(30), <1>0, <1>u, <2>8, <4>1, HashStored DEF k
      <4>3. \A a, b \in Args :
              op'.specs_hash[a] = op'.specs_hash[b] => a = b \/ op'.specs_hash[a] = NoId
        BY ZenonT(30), <1>0, <4>1, HashStored
      <4>4. \A i \in DOMAIN op'.targets :
              (i < op'.i \/ op'.pc = "multi") => op'.specs_hash[op'.targets[i].spec_str] # NoId
        <5> SUFFICES ASSUME NEW i \in DOMAIN op.targets, i < op.i + 1
                     PROVE  op.specs_hash[op.targets[i].spec_str] # NoId
          BY <3>2, <4>1
        <5>1. CASE i = op.i
          BY Zenon, <2>0, <5>1 DEF Target, t
        <5>2. CASE i # op.i
          <6>1. i < op.i
            BY <2>0, <5>2
          <6> QED BY Zenon, <1>0, <6>1, HashStored DEF Target
        <5> QED BY <5>1, <5>2
      <4> QED BY SMTT(30), <3>2, <4>2, <4>3, <4>4, HashIntro
    <3> QED BY <2>10, <3>1, <3>2
  <2> QED BY ZenonT(30), <2>11, <2>12, <2>13, <2>14, <2>15, <2>16, <2>17 DEF UsdtInv, DetachOK
<1> QED BY <1>1, <1>2 DEF AttachUprobe

\* All the uprobes of a multi-uprobe link at once, each with its own id.
LEMMA AttachUprobeMultiStep == UsdtInv /\ AttachUprobeMulti => UsdtInv'
<1> SUFFICES ASSUME UsdtInv, AttachUprobeMulti PROVE UsdtInv'
  OBVIOUS
<1>0. /\ op.pc = "multi" /\ Attaching /\ TypeOK
      /\ man.has_uprobe_multi /\ man.has_bpf_cookie
  BY DEF AttachUprobeMulti, Attaching, UsdtInv, OpOK, TypeOK
<1>u. UNCHANGED <<bin, man, specs_map, ip_map, links, lost>>
  BY DEF AttachUprobeMulti
<1>1. CASE op' = ErrOut /\ UNCHANGED probes
  BY Zenon, <1>0, <1>1, <1>u, ErrOutStep
<1>2. CASE /\ probes' = probes \cup
                {Probe(i, op.specs_hash[Target(i).spec_str]) : i \in DOMAIN op.targets}
           /\ op' = Idle
  <2>0. op.link \in Links /\ links[op.link].live
    BY Zenon, <1>0, AttachFacts
  <2>1. op'.pc = "idle" /\ op'.targets = <<>> /\ op' \in OpRecord
    BY <1>2, IdleType
  <2>2. ~Attaching' /\ ~Detaching'
    BY Zenon, <2>1 DEF Attaching, Detaching
  <2>3. ASSUME NEW i \in DOMAIN op.targets
        PROVE  LET p == Probe(i, op.specs_hash[Target(i).spec_str])
               IN  /\ p \in ProbeRecord /\ p.owner = op.link
                   /\ IdFor(p) \in SeqRange(links[op.link].spec_ids)
                   /\ specs_map[IdFor(p)] = p.want
    <3> DEFINE id == op.specs_hash[Target(i).spec_str]
    <3>1. id # NoId
      BY Zenon, <1>0, HashStored
    <3>2. id \in Ids
      BY <1>0, <3>1, AttachFacts
    <3>3. id \in Int
      BY Zenon, <3>2, NoIdFresh
    <3> HIDE DEF id
    <3>4. id = op.specs_hash[Target(i).spec_str] /\ op.pc # "spec"
      BY <1>0 DEF id
    <3>5. LET p == Probe(i, id)
          IN  /\ p \in ProbeRecord /\ p.owner = op.link
              /\ IdFor(p) = id /\ id \in SeqRange(links[op.link].spec_ids)
              /\ specs_map[id] = p.want
      BY <1>0, <3>2, <3>3, <3>4, NewProbe
    <3> QED BY Zenon, <3>5 DEF id
  <2>4. ASSUME NEW p \in probes'
        PROVE  \/ p \in probes
               \/ /\ p \in ProbeRecord /\ p.owner = op.link
                  /\ IdFor(p) \in SeqRange(links[op.link].spec_ids)
                  /\ specs_map[IdFor(p)] = p.want
    BY <1>2, <2>3
  <2>5. TypeOK'
    <3>1. probes' \subseteq ProbeRecord
      BY Zenon, <1>0, <2>4 DEF TypeOK
    <3> QED BY Zenon, <1>0, <1>u, <2>1, <3>1 DEF TypeOK
  <2>6. OpOK'
    BY ZenonT(30), <1>u, <2>1, <2>2 DEF UsdtInv, OpOK
  <2>7. IdsOK'
    BY ZenonT(30), <1>u DEF UsdtInv, IdsOK
  <2>8. ProbesOK'
    <3> SUFFICES ASSUME NEW p \in probes'
                 PROVE  /\ IdFor(p) \in IdsFor(p) /\ specs_map[IdFor(p)] = p.want
                        /\ p.owner # None => links[p.owner].live
      BY Zenon, <1>0, <1>u DEF ProbesOK, IdFor, IdsFor
    <3>1. CASE p \in probes
      BY <3>1 DEF UsdtInv, ProbesOK
    <3>2. CASE p \notin probes
      BY <2>0, <2>4, <3>2, UsdtAssumption DEF IdsFor
    <3> QED BY <3>1, <3>2
  <2>9. IpsOK' /\ HashOK' /\ DetachOK'
    BY Zenon, <1>0, <1>u, <2>2 DEF IpsOK, HashOK, DetachOK
  <2> QED BY Zenon, <2>5, <2>6, <2>7, <2>8, <2>9 DEF UsdtInv
<1> QED BY <1>1, <1>2 DEF AttachUprobeMulti

------------------------------------------------------------------------------
(* The detach *)

\* Facts of a detach in progress.
LEMMA DetachFacts ==
  ASSUME UsdtInv, Detaching
  PROVE  /\ TypeOK /\ op \in OpRecord /\ ~Attaching /\ op.i \in Nat \ {0}
         /\ op.link \in Links /\ links[op.link].live /\ ~links[op.link].disconnected
<1>1. /\ TypeOK /\ op \in OpRecord
      /\ op.link \in Links /\ links[op.link].live /\ ~links[op.link].disconnected
  BY DEF UsdtInv, TypeOK, OpOK
<1>2. ~Attaching
  BY DEF Attaching, Detaching
<1> QED BY <1>1, <1>2 DEF OpRecord

\* A step of a detach that removes uprobes and goes on with the same link.
LEMMA FewerProbes ==
  ASSUME UsdtInv, Detaching, UNCHANGED <<bin, man, specs_map, ip_map, links, lost>>,
         probes' \subseteq probes, op' \in OpRecord, Detaching', op'.link = op.link,
         op'.targets = op.targets, DetachOK',
         op'.pc = "unip" => /\ ~man.has_bpf_cookie /\ op'.i <= Len(links[op.link].uprobes)
                            /\ \A p \in probes' : ~(p.owner = op.link /\ p.n = op'.i),
         ~man.has_bpf_cookie => op'.i = op.i
  PROVE  UsdtInv'
<1>0. /\ TypeOK /\ op \in OpRecord /\ ~Attaching /\ op.i \in Nat \ {0}
      /\ op.link \in Links /\ links[op.link].live /\ ~links[op.link].disconnected
  BY DetachFacts
<1>1. TypeOK'
  BY <1>0 DEF TypeOK
<1>2. ~Attaching' /\ op'.pc \notin {"collect", "ip", "multi", "probe"}
  BY DEF Attaching, Detaching
<1>3. OpOK'
  <2>1. \A l \in Links : ~links[l].live => links[l] = NoLink
    BY Zenon DEF UsdtInv, OpOK
  <2> QED BY Zenon, <1>0, <1>2, <2>1 DEF OpOK, UprobeCnt
<1>4. IdsOK'
  BY ZenonT(30) DEF UsdtInv, IdsOK
<1>5. ProbesOK'
  BY DEF UsdtInv, ProbesOK, IdFor, IdsFor, FiredIps
<1>6. IpsOK'
  <2> SUFFICES ASSUME ~man.has_bpf_cookie PROVE IpsOK'
    BY DEF IpsOK
  <2>1. \A l \in Links : \A n \in DOMAIN links[l].uprobes :
          Mapped(l, n)' => links[l].uprobes[n] \in DOMAIN ip_map
    BY Zenon DEF UsdtInv, IpsOK, Mapped
  <2>2. /\ \A l, m \in Links : \A i \in DOMAIN links[l].uprobes, j \in DOMAIN links[m].uprobes :
             links[l].uprobes[i] = links[m].uprobes[j] => l = m /\ i = j
        /\ \A l \in Links : \A n \in DOMAIN links[l].uprobes : \A p \in probes :
             p.abs_ip = links[l].uprobes[n] => p.owner = l /\ p.n = n
    BY Zenon DEF UsdtInv, IpsOK
  <2>3. TargetsOK(op.targets)
    BY Zenon DEF UsdtInv, IpsOK, TargetsOK, Target
  <2> QED BY <1>2, <2>1, <2>2, <2>3 DEF IpsOK, TargetsOK, Target
<1>7. HashOK'
  BY <1>2 DEF HashOK
<1> QED BY Zenon, <1>1, <1>3, <1>4, <1>5, <1>6, <1>7 DEF UsdtInv

\* Closing the multi-uprobe link removes all its uprobes.
LEMMA DetachMultiStep == UsdtInv /\ DetachMulti => UsdtInv'
<1> SUFFICES ASSUME UsdtInv, DetachMulti PROVE UsdtInv'
  OBVIOUS
<1>0. op.pc = "unmulti" /\ Detaching
  BY Zenon DEF DetachMulti, Detaching
<1>1. op \in OpRecord
  BY <1>0, DetachFacts
<1>2. /\ op' \in OpRecord /\ op'.pc = "unprobe" /\ op'.link = op.link
      /\ op'.targets = op.targets /\ op'.i = op.i
  BY Zenon, <1>1 DEF DetachMulti, OpRecord
<1>3. Detaching'
  BY <1>2 DEF Detaching
<1>4. probes' \subseteq probes /\ (man.has_uprobe_multi => \A p \in probes' : p.owner # op.link)
  BY DEF DetachMulti
<1>5. UNCHANGED <<bin, man, specs_map, ip_map, links, lost>>
  BY DEF DetachMulti
<1>6. DetachOK'
  BY <1>0, <1>2, <1>4, <1>5 DEF UsdtInv, DetachOK
<1>7. op'.pc # "unip"
  BY <1>2
<1> QED BY SMTT(30), <1>0, <1>2, <1>3, <1>4, <1>5, <1>6, <1>7, FewerProbes

\* A detach removes the uprobes one by one.
LEMMA DetachUprobeStep == UsdtInv /\ DetachUprobe => UsdtInv'
<1> SUFFICES ASSUME UsdtInv, DetachUprobe PROVE UsdtInv'
  OBVIOUS
<1>0. op.pc = "unprobe" /\ Detaching /\ op.i <= Len(links[op.link].uprobes)
  BY DEF DetachUprobe, Detaching, UprobeCnt
<1>1. op \in OpRecord /\ op.i \in Nat \ {0} /\ TypeOK
  BY <1>0, DetachFacts
<1>2. UNCHANGED <<bin, man, specs_map, ip_map, links, lost>>
  BY DEF DetachUprobe
<1>3. /\ probes' \subseteq probes
      /\ \A p \in probes' : ~(p.owner = op.link /\ p.n = op.i)
  BY DEF DetachUprobe
<1>4. /\ ~man.has_uprobe_multi => \A p \in probes : p.owner = op.link => p.n >= op.i
      /\ man.has_uprobe_multi => \A p \in probes : p.owner # op.link
  BY Zenon, <1>0 DEF UsdtInv, DetachOK
<1>5. CASE man.has_bpf_cookie
  <2> PICK one \in Nat \ {0} : one = 1
    OBVIOUS
  <2>1. op' = [op EXCEPT !.i = op.i + one]
    BY Zenon, <1>5 DEF DetachUprobe
  <2>2. op.i + one \in Nat \ {0}
    BY SMTT(30), <1>1
  <2>3. /\ op' \in OpRecord /\ op'.pc = "unprobe" /\ op'.link = op.link
        /\ op'.targets = op.targets /\ op'.i = op.i + one
    BY Zenon, <1>0, <1>1, <2>1, <2>2 DEF OpRecord
  <2>4. Detaching' /\ op'.pc # "unip"
    BY <2>3 DEF Detaching
  <2>5. \A p \in probes : p.n \in Nat
    BY Zenon, <1>1 DEF TypeOK, ProbeRecord
  <2>6. ~man.has_uprobe_multi => \A p \in probes' : p.owner = op.link => p.n >= op.i + one
    BY SMTT(30), <1>1, <1>3, <1>4, <2>5
  <2>7. DetachOK'
    BY <1>2, <1>3, <1>4, <2>3, <2>6 DEF DetachOK
  <2> QED BY ZenonT(30), <1>0, <1>2, <1>3, <1>5, <2>3, <2>4, <2>7, FewerProbes
<1>6. CASE ~man.has_bpf_cookie
  <2>1. op' = [op EXCEPT !.pc = "unip"]
    BY <1>6 DEF DetachUprobe
  <2>2. /\ op' \in OpRecord /\ op'.pc = "unip" /\ op'.link = op.link
        /\ op'.targets = op.targets /\ op'.i = op.i
    BY <1>1, <2>1 DEF OpRecord
  <2>3. Detaching'
    BY <2>2 DEF Detaching
  <2>4. DetachOK'
    BY <1>2, <1>3, <1>4, <2>2 DEF DetachOK
  <2> QED BY Zenon, <1>0, <1>2, <1>3, <1>6, <2>2, <2>3, <2>4, FewerProbes
<1> QED BY <1>5, <1>6

\* The entry that goes is that of the uprobe just removed, and of no other.
LEMMA UnmapIpStep == UsdtInv /\ UnmapIp => UsdtInv'
<1> SUFFICES ASSUME UsdtInv, UnmapIp PROVE UsdtInv'
  OBVIOUS
<1> DEFINE gone == links[op.link].uprobes[op.i]
<1>0. op.pc = "unip" /\ Detaching
  BY DEF UnmapIp, Detaching
<1>1. /\ op \in OpRecord /\ op.i \in Nat \ {0} /\ TypeOK /\ ~Attaching
      /\ op.link \in Links /\ links[op.link].live /\ ~links[op.link].disconnected
  BY <1>0, DetachFacts
<1>2. ~man.has_bpf_cookie /\ ~man.has_uprobe_multi /\ op.i <= Len(links[op.link].uprobes)
  BY <1>0 DEF UsdtInv, OpOK, UprobeCnt, TypeOK
<1>3. UNCHANGED <<bin, man, specs_map, links, probes, lost>>
  BY DEF UnmapIp
<1>4. op.i \in DOMAIN links[op.link].uprobes
  <2>1. links[op.link].uprobes \in Seq(Int)
    BY Zenon, <1>1, LinkIds
  <2> QED BY <1>1, <1>2, <2>1
<1>5. /\ DOMAIN ip_map' = DOMAIN ip_map \ {gone}
      /\ \A ip \in DOMAIN ip_map' : ip_map'[ip] = ip_map[ip]
  BY DEF UnmapIp
<1> PICK one \in Nat \ {0} : one = 1
  OBVIOUS
<1>6. /\ op' \in OpRecord /\ op'.pc = "unprobe" /\ op'.link = op.link
      /\ op'.targets = op.targets /\ op'.i = op.i + one
  <2>1. op' = [op EXCEPT !.pc = "unprobe", !.i = op.i + one]
    BY DEF UnmapIp
  <2>2. op.i + one \in Nat \ {0}
    BY <1>1
  <2> QED BY Zenon, <1>1, <2>1, <2>2 DEF OpRecord
<1>7. Detaching' /\ ~Attaching' /\ op'.pc \notin {"unip", "collect", "ip", "multi", "probe"}
  BY <1>6 DEF Detaching, Attaching
<1>8. ASSUME NEW p \in probes PROVE p.abs_ip \in DOMAIN ip_map'
  <2>1. p.abs_ip \in DOMAIN ip_map
    BY ZenonT(30), <1>2 DEF UsdtInv, ProbesOK
  <2>2. p.abs_ip = gone => p.owner = op.link /\ p.n = op.i
    BY <1>1, <1>2, <1>4, IpsFacts
  <2>3. ~(p.owner = op.link /\ p.n = op.i)
    BY Zenon, <1>0, <1>2 DEF UsdtInv, IpsOK
  <2> QED BY <1>5, <2>1, <2>2, <2>3
<1>9. TypeOK'
  BY <1>1, <1>3, <1>5, <1>6 DEF TypeOK
<1>10. OpOK'
  <2>1. \A l \in Links : ~links[l].live => links[l] = NoLink
    BY DEF UsdtInv, OpOK
  <2> QED BY SMTT(30), <1>1, <1>3, <1>6, <1>7, <2>1 DEF OpOK
<1>11. IdsOK'
  BY ZenonT(30), <1>3 DEF UsdtInv, IdsOK
<1>12. ProbesOK'
  <2>1. ASSUME NEW p \in probes PROVE IdFor(p)' = IdFor(p)
    BY Zenon, <1>2, <1>3, <1>5, <1>8 DEF IdFor
  <2> QED BY ZenonT(30), <1>3, <1>8, <2>1 DEF UsdtInv, ProbesOK, IdsFor, FiredIps
<1>13. IpsOK'
  <2>1. /\ \A l, m \in Links : \A i \in DOMAIN links[l].uprobes, j \in DOMAIN links[m].uprobes :
             links[l].uprobes[i] = links[m].uprobes[j] => l = m /\ i = j
        /\ \A l \in Links : \A n \in DOMAIN links[l].uprobes : \A p \in probes :
             p.abs_ip = links[l].uprobes[n] => p.owner = l /\ p.n = n
    BY Zenon, <1>2 DEF UsdtInv, IpsOK
  <2>2. ASSUME NEW l \in Links, NEW n \in DOMAIN links[l].uprobes,
               ~(l = op.link /\ n < op.i + one)
        PROVE  links[l].uprobes[n] \in DOMAIN ip_map'
    <3>0. n \in Nat
      <4>1. links[l].uprobes \in Seq(Int)
        BY <1>1, LinkIds
      <4> QED BY <4>1
    <3>1. ~(l = op.link /\ n < op.i) /\ ~(l = op.link /\ n = op.i)
      BY SMTT(30), <1>1, <2>2, <3>0
    <3>2. links[l].uprobes[n] \in DOMAIN ip_map
      BY ZenonT(30), <1>2, <3>1 DEF UsdtInv, IpsOK, Mapped
    <3>3. links[l].uprobes[n] # gone
      BY SMTT(30), <1>1, <1>4, <2>1, <3>1
    <3> QED BY <1>5, <3>2, <3>3
  <2>3. \A l \in Links : \A n \in DOMAIN links[l].uprobes :
          Mapped(l, n)' => links[l].uprobes[n] \in DOMAIN ip_map'
    BY Zenon, <1>3, <1>6, <1>7, <2>2 DEF Mapped
  <2>4. TargetsOK(op'.targets) /\ op'.pc # "unip" /\ op'.pc # "probe"
    BY Zenon, <1>2, <1>6, <1>7, IpsFacts
  <2>5. \A l, m \in Links : \A i \in DOMAIN links'[l].uprobes, j \in DOMAIN links'[m].uprobes :
          links'[l].uprobes[i] = links'[m].uprobes[j] => l = m /\ i = j
    BY <1>3, <2>1
  <2>6. \A l \in Links : \A n \in DOMAIN links'[l].uprobes : \A p \in probes' :
          p.abs_ip = links'[l].uprobes[n] => p.owner = l /\ p.n = n
    BY <1>3, <2>1
  <2>7. \A l \in Links : \A n \in DOMAIN links'[l].uprobes :
          Mapped(l, n)' => links'[l].uprobes[n] \in DOMAIN ip_map'
    BY Zenon, <1>3, <2>3
  <2> QED BY Zenon, <1>3, <2>4, <2>5, <2>6, <2>7, IpsIntro
<1>14. DetachOK'
  <2>1. \A p \in probes : p.n \in Nat
    BY ZenonT(30), <1>1 DEF TypeOK, ProbeRecord
  <2>2. \A p \in probes : p.owner = op.link => p.n >= op.i /\ p.n # op.i
    <3>1. \A p \in probes : p.owner = op.link => p.n >= op.i
      BY Zenon, <1>0, <1>2 DEF UsdtInv, DetachOK
    <3>2. \A p \in probes : ~(p.owner = op.link /\ p.n = op.i)
      BY Zenon, <1>0, <1>2 DEF UsdtInv, IpsOK
    <3> QED BY Zenon, <3>1, <3>2
  <2>3. \A p \in probes : p.owner = op.link => p.n >= op.i + one
    BY <1>1, <2>1, <2>2
  <2> QED BY SMTT(30), <1>2, <1>3, <1>6, <2>3 DEF DetachOK
<1>15. HashOK'
  BY Zenon, <1>7 DEF HashOK
<1> QED BY ZenonT(30), <1>9, <1>10, <1>11, <1>12, <1>13, <1>14, <1>15 DEF UsdtInv

\* The ids of a link that goes move to the free list or are given up.
LEMMA IdsMoved ==
  ASSUME TypeOK, IdsOK, NEW k \in Links, links' = [links EXCEPT ![k] = NoLink],
         man'.next_free_spec_id = man.next_free_spec_id, Once(man'.free_spec_ids),
         SeqRange(man'.free_spec_ids) \cup lost' =
           SeqRange(man.free_spec_ids) \cup lost \cup SeqRange(links[k].spec_ids),
         SeqRange(man'.free_spec_ids) \cap lost' = {}
  PROVE  IdsOK'
<1> DEFINE R(l) == SeqRange(links[l].spec_ids)
           Q(l) == SeqRange(links'[l].spec_ids)
           Free == SeqRange(man.free_spec_ids)
           Free1 == SeqRange(man'.free_spec_ids)
           V == UNION {R(l) : l \in Links}
           U == UNION {Q(l) : l \in Links}
<1>0. /\ \A l \in Links : Once(links[l].spec_ids)
      /\ \A l, m \in Links : l # m => R(l) \cap R(m) = {}
      /\ \A l \in Links : R(l) \cap (Free \cup lost) = {}
      /\ Free \cup lost \cup V = 0 .. (man.next_free_spec_id - 1)
  BY Zenon DEF IdsOK, Once
<1>1. links'[k] = NoLink /\ \A l \in Links : l # k => links'[l] = links[l]
  BY DEF TypeOK
<1>2. links'[k].spec_ids = <<>>
  BY <1>1 DEF NoLink
<1>3. \A l \in Links : Once(links'[l].spec_ids)
  BY SMTT(30), <1>0, <1>1, <1>2 DEF Once
<1>4. Q(k) = {} /\ \A l \in Links : l # k => Q(l) = R(l)
  BY Zenon, <1>1, <1>2, RangeEmpty
<1>5. Free1 \cup lost' = Free \cup lost \cup R(k) /\ Free1 \cap lost' = {}
  OBVIOUS
<1>6. ASSUME NEW x \in V PROVE x \in R(k) \cup U
  <2>1. PICK l \in Links : x \in R(l)
    OBVIOUS
  <2>2. CASE l = k
    BY <2>1, <2>2
  <2>3. CASE l # k
    <3>1. x \in Q(l)
      BY <1>4, <2>1, <2>3
    <3> QED BY <3>1
  <2> QED BY <2>2, <2>3
<1>7. ASSUME NEW x \in U PROVE x \in V
  <2>1. PICK l \in Links : x \in Q(l)
    OBVIOUS
  <2>2. x \in R(l)
    BY <1>4, <2>1
  <2> QED BY <2>2
<1>8. ASSUME NEW x \in R(k) PROVE x \in V
  OBVIOUS
<1> HIDE DEF R, Q, Free, Free1, U, V
<1>9. Free1 \cup lost' \cup U = 0 .. (man.next_free_spec_id - 1)
  BY Zenon, <1>0, <1>5, <1>6, <1>7, <1>8
<1>10. \A l, m \in Links : l # m => Q(l) \cap Q(m) = {}
  BY Zenon, <1>0, <1>4
<1>11. ASSUME NEW l \in Links PROVE Q(l) \cap (Free1 \cup lost') = {}
  <2>1. CASE l = k
    BY Zenon, <1>4, <2>1
  <2>2. CASE l # k
    BY SMTT(30), <1>0, <1>4, <1>5, <2>2
  <2> QED BY Zenon, <2>1, <2>2
<1> QED BY Zenon, <1>3, <1>5, <1>9, <1>10, <1>11 DEF IdsOK, Once, Q, Free1, U

\* What the end of a link k leaves, when the uprobes that stay are as before.
LEMMA LinkGone ==
  ASSUME UsdtInv, NEW k \in Links, links' = [links EXCEPT ![k] = NoLink],
         UNCHANGED <<bin, specs_map, ip_map>>,
         man' \in ManRecord, man'.has_bpf_cookie = man.has_bpf_cookie,
         man'.has_uprobe_multi = man.has_uprobe_multi, IdsOK',
         lost \subseteq lost', lost' \subseteq Ids,
         op' \in OpRecord, op'.pc = "idle", ~man.has_bpf_cookie => TargetsOK(op'.targets),
         Detaching => op.link = k,
         \A q \in probes' : \E p \in probes :
           /\ q.n = p.n /\ q.rel_ip = p.rel_ip /\ q.cookie = p.cookie
           /\ q.abs_ip = p.abs_ip /\ q.want = p.want /\ q \in ProbeRecord
           /\ \/ p.owner # k /\ q.owner = p.owner
              \/ p.owner = k /\ q.owner = None /\ SeqRange(links[k].spec_ids) \subseteq lost'
  PROVE  UsdtInv'
<1>0. TypeOK /\ k # None
  BY Zenon, UsdtAssumption DEF UsdtInv
<1>1. links'[k] = NoLink /\ \A l \in Links : l # k => links'[l] = links[l]
  BY Zenon, <1>0 DEF TypeOK
<1>2. links' \in [Links -> LinkRecord]
  BY <1>0 DEF TypeOK, NoLink, LinkRecord
<1>3. ~Attaching' /\ ~Detaching'
  BY Zenon DEF Attaching, Detaching
<1>4. TypeOK'
  <2>1. probes' \subseteq ProbeRecord
    OBVIOUS
  <2> QED BY <1>0, <1>2, <2>1 DEF TypeOK
<1>5. OpOK'
  <2>1. \A l \in Links : ~links[l].live => links[l] = NoLink
    BY DEF UsdtInv, OpOK
  <2>2. \A l \in Links : ~links'[l].live => links'[l] = NoLink
    BY ZenonT(30), <1>1, <2>1
  <2> QED BY ZenonT(30), <1>3, <2>2 DEF OpOK
<1>6. ProbesOK'
  <2> SUFFICES ASSUME NEW q \in probes'
               PROVE  /\ ~man.has_bpf_cookie =>
                           q.abs_ip \in DOMAIN ip_map /\ FiredIps(q) \subseteq {q.abs_ip}
                      /\ IdFor(q) \in IdsFor(q)'
                      /\ specs_map[IdFor(q)] = q.want
                      /\ q.owner # None /\ ~man.has_uprobe_multi =>
                           /\ q.n \in DOMAIN links'[q.owner].uprobes
                           /\ links'[q.owner].uprobes[q.n] = q.abs_ip
                      /\ q.owner # None => links'[q.owner].live
    BY DEF ProbesOK, IdFor, FiredIps
  <2>1. PICK p \in probes :
          /\ q.n = p.n /\ q.rel_ip = p.rel_ip /\ q.cookie = p.cookie
          /\ q.abs_ip = p.abs_ip /\ q.want = p.want
          /\ \/ p.owner # k /\ q.owner = p.owner
             \/ p.owner = k /\ q.owner = None /\ SeqRange(links[k].spec_ids) \subseteq lost'
    BY Zenon
  <2>2. IdFor(q) = IdFor(p) /\ FiredIps(q) = FiredIps(p)
    BY Zenon, <2>1 DEF IdFor, FiredIps
  <2>3. p.owner \in Links \cup {None}
    BY Zenon, ProbeId
  <2>4. IdsFor(p) \subseteq IdsFor(q)'
    <3>1. CASE p.owner = k
      BY Zenon, <1>0, <2>1, <3>1 DEF IdsFor
    <3>2. CASE p.owner = None
      BY Zenon, <1>0, <2>1, <3>2 DEF IdsFor
    <3>3. CASE p.owner # k /\ p.owner # None
      BY SMTT(30), <1>1, <2>1, <2>3, <3>3 DEF IdsFor
    <3> QED BY Zenon, <3>1, <3>2, <3>3
  <2>5. q.owner # None => q.owner = p.owner /\ links'[q.owner] = links[p.owner]
    BY ZenonT(30), <1>1, <2>1, <2>3
  <2> QED BY ZenonT(30), <2>1, <2>2, <2>4, <2>5 DEF UsdtInv, ProbesOK
<1>7. IpsOK'
  <2> SUFFICES ASSUME ~man.has_bpf_cookie PROVE IpsOK'
    BY Zenon DEF IpsOK
  <2>0. links'[k].uprobes = <<>>
    BY SMTT(30), <1>1 DEF NoLink
  <2>1. ASSUME NEW l \in Links, NEW n \in DOMAIN links'[l].uprobes
        PROVE  l # k /\ links'[l] = links[l] /\ n \in DOMAIN links[l].uprobes
    BY SMTT(30), <1>1, <2>0
  <2>2. ASSUME NEW l \in Links, NEW n \in DOMAIN links'[l].uprobes
        PROVE  links'[l].uprobes[n] \in DOMAIN ip_map
    BY ZenonT(30), <2>1 DEF UsdtInv, IpsOK, Mapped
  <2>3. ASSUME NEW l \in Links, NEW m \in Links, NEW i \in DOMAIN links'[l].uprobes,
               NEW j \in DOMAIN links'[m].uprobes, links'[l].uprobes[i] = links'[m].uprobes[j]
        PROVE  l = m /\ i = j
    <3>1. /\ i \in DOMAIN links[l].uprobes /\ j \in DOMAIN links[m].uprobes
          /\ links[l].uprobes[i] = links[m].uprobes[j]
      BY Zenon, <2>1, <2>3
    <3> QED BY <3>1, IpsFacts
  <2>4. ASSUME NEW l \in Links, NEW n \in DOMAIN links'[l].uprobes, NEW q \in probes',
               q.abs_ip = links'[l].uprobes[n]
        PROVE  q.owner = l /\ q.n = n
    <3>1. PICK p \in probes : /\ q.n = p.n /\ q.abs_ip = p.abs_ip
                              /\ p.owner # k => q.owner = p.owner
      BY Zenon
    <3>2. l # k /\ n \in DOMAIN links[l].uprobes /\ p.abs_ip = links[l].uprobes[n]
      BY ZenonT(30), <2>1, <2>4, <3>1
    <3>3. \A j \in Links : \A i \in DOMAIN links[j].uprobes : \A r \in probes :
            r.abs_ip = links[j].uprobes[i] => r.owner = j /\ r.n = i
      BY ZenonT(30), IpsFacts
    <3>4. p.owner = l /\ p.n = n
      BY SMTT(30), <3>2, <3>3
    <3> QED BY Zenon, <3>1, <3>2, <3>4
  <2>5. op'.pc \notin {"unip", "probe"}
    BY Zenon
  <2> QED BY Zenon, <1>3, <2>2, <2>3, <2>4, <2>5 DEF IpsOK, TargetsOK, Target
<1>8. HashOK' /\ DetachOK'
  BY <1>3 DEF HashOK, DetachOK
<1> QED BY Zenon, <1>4, <1>5, <1>6, <1>7, <1>8 DEF UsdtInv

\* Freeing a disconnected link gives up its ids with its uprobes; any other
\* link is detached.
LEMMA DestroyStep ==
  ASSUME UsdtInv, NEW l \in Links, Destroy(l)
  PROVE  UsdtInv'
<1>0. op.pc = "idle" /\ TypeOK /\ links[l].live /\ ~Detaching /\ l # None /\ op \in OpRecord
  BY UsdtAssumption DEF Destroy, Quiet, UsdtInv, TypeOK, Detaching
<1>1. CASE ~links[l].disconnected
  <2>1. /\ op' = [Idle EXCEPT !.pc = "unmulti", !.link = l]
        /\ UNCHANGED <<bin, man, specs_map, ip_map, links, probes, lost>>
    BY <1>1 DEF Destroy
  <2>2. /\ op'.pc = "unmulti" /\ op'.link = l /\ op'.i = 1 /\ op'.targets = <<>>
        /\ op' \in OpRecord
    BY ZenonT(30), <2>1, IdleType DEF Idle, OpRecord
  <2>3. OpOK' /\ HashOK'
    BY <1>0, <1>1, <2>1, <2>2 DEF UsdtInv, OpOK, HashOK, Attaching, Detaching
  <2>4. TargetsOK(op'.targets)
    BY <2>2 DEF TargetsOK
  <2>5. op'.pc # "probe"
    BY <2>2
  <2> QED BY SMTT(30), <1>0, <2>1, <2>2, <2>3, <2>4, <2>5, OpStep
<1>2. CASE links[l].disconnected
  <2>1. /\ links' = [links EXCEPT ![l] = NoLink]
        /\ probes' = {[p EXCEPT !.owner = IF @ = l THEN None ELSE @] : p \in probes}
        /\ lost' = lost \cup SeqRange(links[l].spec_ids)
        /\ UNCHANGED <<bin, man, specs_map, ip_map, op>>
    BY <1>2 DEF Destroy
  <2>2. /\ man \in ManRecord /\ lost \subseteq lost' /\ lost' \subseteq Ids
        /\ SeqRange(links[l].spec_ids) \subseteq lost'
    BY <1>0, <2>1, LinkIds DEF TypeOK
  <2>3. IdsOK'
    <3>1. IdsOK /\ Once(man.free_spec_ids)
      BY Zenon DEF UsdtInv, IdsOK, Once
    <3>2. SeqRange(man.free_spec_ids) \cap lost' = {}
      BY <2>1, <3>1 DEF IdsOK
    <3> QED BY ZenonT(30), <1>0, <2>1, <3>1, <3>2, IdsMoved
  <2>4. ASSUME NEW q \in probes'
        PROVE  \E p \in probes :
                 /\ q.n = p.n /\ q.rel_ip = p.rel_ip /\ q.cookie = p.cookie
                 /\ q.abs_ip = p.abs_ip /\ q.want = p.want /\ q \in ProbeRecord
                 /\ \/ p.owner # l /\ q.owner = p.owner
                    \/ p.owner = l /\ q.owner = None /\ SeqRange(links[l].spec_ids) \subseteq lost'
    <3>1. PICK p \in probes : q = [p EXCEPT !.owner = IF p.owner = l THEN None ELSE p.owner]
      BY <2>1
    <3>2. p \in ProbeRecord
      BY Zenon, <1>0 DEF TypeOK
    <3>3. CASE p.owner = l
      <4>1. q = [p EXCEPT !.owner = None]
        BY <3>1, <3>3
      <4>2. /\ q.n = p.n /\ q.rel_ip = p.rel_ip /\ q.cookie = p.cookie
            /\ q.abs_ip = p.abs_ip /\ q.want = p.want /\ q \in ProbeRecord /\ q.owner = None
        BY Zenon, <3>2, <4>1 DEF ProbeRecord
      <4> QED BY <2>2, <3>3, <4>2
    <3>4. CASE p.owner # l
      <4>1. q = [p EXCEPT !.owner = p.owner]
        BY <3>1, <3>4
      <4>2. /\ q.n = p.n /\ q.rel_ip = p.rel_ip /\ q.cookie = p.cookie
            /\ q.abs_ip = p.abs_ip /\ q.want = p.want /\ q \in ProbeRecord /\ q.owner = p.owner
        BY SMTT(30), <3>2, <4>1 DEF ProbeRecord
      <4> QED BY <3>4, <4>2
    <3> QED BY <3>3, <3>4
  <2>5. ~man.has_bpf_cookie => TargetsOK(op'.targets)
    BY ZenonT(30), <2>1 DEF UsdtInv, IpsOK, TargetsOK, Target
  <2> QED BY Zenon, <1>0, <2>1, <2>2, <2>3, <2>4, <2>5, LinkGone
<1> QED BY <1>1, <1>2

\* At the end of a detach no uprobe of the link is left, so that its ids can
\* be used again.
LEMMA ReturnIdsStep == UsdtInv /\ ReturnIds => UsdtInv'
<1> SUFFICES ASSUME UsdtInv, ReturnIds PROVE UsdtInv'
  OBVIOUS
<1> DEFINE k == op.link
           ids == links[k].spec_ids
<1>0. op.pc = "unprobe" /\ Detaching /\ op.i > Len(links[k].uprobes)
  BY Zenon DEF ReturnIds, Detaching, UprobeCnt
<1>1. TypeOK /\ k \in Links /\ op.i \in Nat /\ IdsOK
  BY <1>0, DetachFacts DEF UsdtInv
<1>2. /\ links' = [links EXCEPT ![k] = NoLink] /\ op' = Idle
      /\ UNCHANGED <<bin, specs_map, ip_map, probes>>
  BY ZenonT(30) DEF ReturnIds
<1>3. /\ links[k].uprobes \in Seq(Int) /\ ids \in Seq(Ids) /\ SeqRange(ids) \subseteq Ids
      /\ man \in ManRecord /\ man.free_spec_ids \in Seq(Ids) /\ lost \subseteq Ids
  BY <1>1, LinkIds DEF TypeOK, ManRecord
<1>4. ASSUME NEW p \in probes PROVE p.owner # k /\ p \in ProbeRecord
  <2>1. p \in ProbeRecord /\ p.n \in Nat
    BY <1>1 DEF TypeOK, ProbeRecord
  <2>2. CASE man.has_uprobe_multi
    BY SMTT(30), <1>0, <2>1, <2>2 DEF UsdtInv, DetachOK
  <2>3. CASE ~man.has_uprobe_multi
    <3> SUFFICES ASSUME p.owner = k PROVE FALSE
      BY <2>1
    <3>1. p.n >= op.i
      BY SMTT(30), <1>0, <2>3 DEF UsdtInv, DetachOK
    <3>2. p.n \in DOMAIN links[k].uprobes
      BY ZenonT(30), <1>1, <2>3, UsdtAssumption DEF UsdtInv, ProbesOK
    <3> QED BY SMTT(30), <1>0, <1>1, <1>3, <2>1, <3>1, <3>2
  <2> QED BY <2>2, <2>3
<1>5. /\ Once(man.free_spec_ids) /\ Once(ids)
      /\ SeqRange(man.free_spec_ids) \cap SeqRange(ids) = {}
      /\ SeqRange(man.free_spec_ids) \cap lost = {} /\ SeqRange(ids) \cap lost = {}
  <2>1. \A l \in Links : /\ Once(links[l].spec_ids)
                         /\ SeqRange(links[l].spec_ids) \cap (SeqRange(man.free_spec_ids) \cup lost) = {}
    BY <1>1 DEF IdsOK, Once
  <2>2. Once(man.free_spec_ids) /\ SeqRange(man.free_spec_ids) \cap lost = {}
    BY Zenon, <1>1 DEF IdsOK, Once
  <2>3. Once(ids) /\ SeqRange(ids) \cap (SeqRange(man.free_spec_ids) \cup lost) = {}
    BY Zenon, <1>1, <2>1
  <2> QED BY Zenon, <2>2, <2>3
<1>6. op' \in OpRecord /\ op'.pc = "idle" /\ TargetsOK(op'.targets)
  BY SMTT(30), <1>2, IdleType DEF TargetsOK
<1>7. /\ man' \in ManRecord /\ man'.has_bpf_cookie = man.has_bpf_cookie
      /\ man'.has_uprobe_multi = man.has_uprobe_multi
      /\ IdsOK' /\ lost \subseteq lost' /\ lost' \subseteq Ids
  <2>1. ASSUME NEW list \in BOOLEAN,
               man' = [man EXCEPT !.free_spec_ids = man.free_spec_ids \o ids, !.list = list],
               lost' = lost
        PROVE  /\ man' \in ManRecord /\ man'.has_bpf_cookie = man.has_bpf_cookie
               /\ man'.has_uprobe_multi = man.has_uprobe_multi
               /\ IdsOK' /\ lost \subseteq lost' /\ lost' \subseteq Ids
    <3>1. man.free_spec_ids \o ids \in Seq(Ids)
      BY <1>3
    <3>2. /\ man' \in ManRecord /\ man'.has_bpf_cookie = man.has_bpf_cookie
          /\ man'.has_uprobe_multi = man.has_uprobe_multi
          /\ man'.free_spec_ids = man.free_spec_ids \o ids
          /\ man'.next_free_spec_id = man.next_free_spec_id
      BY ZenonT(30), <1>3, <2>1, <3>1 DEF ManRecord
    <3>3. /\ Once(man'.free_spec_ids)
          /\ SeqRange(man'.free_spec_ids) = SeqRange(man.free_spec_ids) \cup SeqRange(ids)
      BY <1>3, <1>5, <3>2, OnceConcat, RangeConcat
    <3>4. /\ SeqRange(man'.free_spec_ids) \cup lost' =
               SeqRange(man.free_spec_ids) \cup lost \cup SeqRange(ids)
          /\ SeqRange(man'.free_spec_ids) \cap lost' = {}
      BY <1>5, <2>1, <3>3
    <3>5. IdsOK'
      BY ZenonT(30), <1>1, <1>2, <3>2, <3>3, <3>4, IdsMoved
    <3> QED BY <1>3, <2>1, <3>2, <3>5
  <2>2. ASSUME lost' = lost \cup SeqRange(ids), man' = man
        PROVE  /\ man' \in ManRecord /\ man'.has_bpf_cookie = man.has_bpf_cookie
               /\ man'.has_uprobe_multi = man.has_uprobe_multi
               /\ IdsOK' /\ lost \subseteq lost' /\ lost' \subseteq Ids
    <3>1. /\ SeqRange(man'.free_spec_ids) \cup lost' =
               SeqRange(man.free_spec_ids) \cup lost \cup SeqRange(ids)
          /\ SeqRange(man'.free_spec_ids) \cap lost' = {}
      BY <1>5, <2>2
    <3>2. IdsOK'
      BY ZenonT(30), <1>1, <1>2, <1>5, <2>2, <3>1, IdsMoved
    <3> QED BY <1>3, <2>2, <3>2
  <2> QED BY Zenon, <2>1, <2>2 DEF ReturnIds
<1>8. \A q \in probes' : \E p \in probes :
        /\ q.n = p.n /\ q.rel_ip = p.rel_ip /\ q.cookie = p.cookie
        /\ q.abs_ip = p.abs_ip /\ q.want = p.want /\ q \in ProbeRecord
        /\ p.owner # k /\ q.owner = p.owner
  BY <1>2, <1>4
<1>9. /\ k \in Links /\ links' = [links EXCEPT ![k] = NoLink]
      /\ UNCHANGED <<bin, specs_map, ip_map>> /\ (Detaching => op.link = k)
  BY Zenon, <1>1, <1>2
<1> HIDE DEF k
<1>10. \A q \in probes' : \E p \in probes :
         /\ q.n = p.n /\ q.rel_ip = p.rel_ip /\ q.cookie = p.cookie
         /\ q.abs_ip = p.abs_ip /\ q.want = p.want /\ q \in ProbeRecord
         /\ \/ p.owner # k /\ q.owner = p.owner
            \/ p.owner = k /\ q.owner = None /\ SeqRange(links[k].spec_ids) \subseteq lost'
  BY Zenon, <1>8
<1> QED BY Zenon, <1>6, <1>7, <1>9, <1>10, LinkGone

------------------------------------------------------------------------------
(* The theorems *)

\* Every step of the USDT manager preserves the inductive invariant, so it
\* holds in every state of every instance.
THEOREM UsdtInvariant == Spec => []UsdtInv
<1>1. Init => UsdtInv
  BY InitHolds
<1>2. UsdtInv /\ [Next]_vars => UsdtInv'
  <2> SUFFICES ASSUME UsdtInv, [Next]_vars PROVE UsdtInv'
    OBVIOUS
  <2>1. CASE UNCHANGED vars
    <3>1. UNCHANGED <<bin, man, specs_map, ip_map, links, probes, op, lost>>
      BY SMTT(30), <2>1 DEF vars
    <3>2. TypeOK' /\ IdsOK'
      BY ZenonT(30), <3>1 DEF UsdtInv, TypeOK, IdsOK
    <3>0. OpOK'
      BY <3>1 DEF UsdtInv, OpOK, Attaching, Detaching, UprobeCnt
    <3>3. ProbesOK'
      BY ZenonT(30), <3>1 DEF UsdtInv, ProbesOK, IdFor, IdsFor, FiredIps
    <3>4. IpsOK'
      <4>1. IpsOK
        BY DEF UsdtInv
      <4>2. \A l, n : Mapped(l, n)' <=> Mapped(l, n)
        BY <3>1 DEF Mapped, Detaching
      <4>3. \A i : Target(i)' = Target(i)
        BY ZenonT(30), <3>1 DEF Target
      <4>4. ~man.has_bpf_cookie =>
              /\ \A l \in Links : \A n \in DOMAIN links'[l].uprobes :
                   Mapped(l, n)' => links'[l].uprobes[n] \in DOMAIN ip_map'
              /\ \A l, m \in Links :
                   \A i \in DOMAIN links'[l].uprobes, j \in DOMAIN links'[m].uprobes :
                     links'[l].uprobes[i] = links'[m].uprobes[j] => l = m /\ i = j
              /\ \A l \in Links : \A n \in DOMAIN links'[l].uprobes : \A p \in probes' :
                   p.abs_ip = links'[l].uprobes[n] => p.owner = l /\ p.n = n
        <5> SUFFICES ASSUME ~man.has_bpf_cookie
                     PROVE  /\ \A l \in Links : \A n \in DOMAIN links[l].uprobes :
                                 Mapped(l, n)' => links[l].uprobes[n] \in DOMAIN ip_map
                            /\ \A l, m \in Links :
                                 \A i \in DOMAIN links[l].uprobes, j \in DOMAIN links[m].uprobes :
                                   links[l].uprobes[i] = links[m].uprobes[j] => l = m /\ i = j
                            /\ \A l \in Links : \A n \in DOMAIN links[l].uprobes : \A p \in probes :
                                 p.abs_ip = links[l].uprobes[n] => p.owner = l /\ p.n = n
          BY SMTT(30), ZenonT(30), <3>1
        <5>1. \A l \in Links : \A n \in DOMAIN links[l].uprobes :
                Mapped(l, n)' => links[l].uprobes[n] \in DOMAIN ip_map
          BY ZenonT(30), <4>1, <4>2 DEF IpsOK
        <5> QED BY ZenonT(30), <5>1, IpsFacts
      <4>5. ~man.has_bpf_cookie =>
              /\ op'.pc = "unip" => \A p \in probes' : ~(p.owner = op'.link /\ p.n = op'.i)
              /\ op'.pc = "probe" =>
                   /\ Target(op.i)'.abs_ip \in DOMAIN ip_map'
                   /\ ip_map'[Target(op.i)'.abs_ip] = op'.id
                   /\ \A p \in probes' : p.abs_ip # Target(op.i)'.abs_ip
                   /\ \A l \in Links : \A n \in DOMAIN links'[l].uprobes :
                        links'[l].uprobes[n] # Target(op.i)'.abs_ip
        <5>1. Target(op.i)' = Target(op.i)
          BY Zenon, <3>1 DEF Target
        <5>2. ~man.has_bpf_cookie =>
                /\ op.pc = "unip" => \A p \in probes : ~(p.owner = op.link /\ p.n = op.i)
                /\ op.pc = "probe" =>
                     /\ Target(op.i).abs_ip \in DOMAIN ip_map
                     /\ ip_map[Target(op.i).abs_ip] = op.id
                     /\ \A p \in probes : p.abs_ip # Target(op.i).abs_ip
                     /\ \A l \in Links : \A n \in DOMAIN links[l].uprobes :
                          links[l].uprobes[n] # Target(op.i).abs_ip
          BY ZenonT(30), <4>1 DEF IpsOK
        <5> QED BY Zenon, <3>1, <5>1, <5>2
      <4>6. ~man.has_bpf_cookie => \A i \in DOMAIN op'.targets : \A m \in Mappings(bin') :
              InFile(m, Target(i)'.rel_ip) =>
                m.start - m.offset + Target(i)'.rel_ip = Target(i)'.abs_ip
        BY Zenon, <3>1, <4>1, <4>3 DEF IpsOK
      <4> QED BY <3>1, <4>4, <4>5, <4>6 DEF IpsOK
    <3>5. DetachOK' /\ HashOK'
      BY <3>1 DEF UsdtInv, DetachOK, HashOK, Attaching, Detaching, Target, IdFor
    <3> QED BY <3>0, <3>2, <3>3, <3>4, <3>5 DEF UsdtInv
  <2>2. CASE \E l \in Links, name \in Names, pid \in BOOLEAN : AttachUsdt(l, name, pid)
    BY <2>2, AttachUsdtStep
  <2>3. CASE CollectNote \/ CollectFails \/ CollectDone
    BY <2>3, CollectNoteStep, CollectFailsStep, CollectDoneStep
  <2>4. CASE FindSpecId \/ AllocateSpecId \/ AllocateFails
    BY <2>4, FindSpecIdStep, AllocateSpecIdStep, AllocateFailsStep
  <2>5. CASE UpdateSpec \/ MapIp
    BY <2>5, UpdateSpecStep, MapIpStep
  <2>6. CASE AttachUprobe \/ RecordCookie \/ AttachUprobeMulti
    BY <2>6, AttachUprobeStep, RecordCookieStep, AttachUprobeMultiStep
  <2>7. CASE \E l \in Links : Disconnect(l) \/ Destroy(l)
    BY <2>7, DisconnectStep, DestroyStep
  <2>8. CASE DetachMulti \/ DetachUprobe \/ UnmapIp \/ ReturnIds
    BY <2>8, DetachMultiStep, DetachUprobeStep, UnmapIpStep, ReturnIdsStep
  <2> QED BY <2>1, <2>2, <2>3, <2>4, <2>5, <2>6, <2>7, <2>8 DEF Next
<1> QED BY <1>1, <1>2, PTL DEF Spec

\* A uprobe that fires finds, by its cookie or by its address, the
\* specification of its own place with the cookie of its own link.
THEOREM UsdtFires == Spec => []FiresWithItsSpec
<1>1. UsdtInv => FiresWithItsSpec
  <2> SUFFICES ASSUME UsdtInv, NEW p \in probes, NEW ip \in FiredIps(p)
               PROVE  /\ bpf_usdt_spec_id(p, ip) \in Ids
                      /\ specs_map[bpf_usdt_spec_id(p, ip)] = p.want
    BY ZenonT(30) DEF FiresWithItsSpec
  <2>1. IdFor(p) \in Ids /\ specs_map[IdFor(p)] = p.want
    BY ProbeId DEF UsdtInv, ProbesOK
  <2>2. bpf_usdt_spec_id(p, ip) = IdFor(p)
    <3>1. CASE man.has_bpf_cookie
      BY <3>1 DEF bpf_usdt_spec_id, IdFor
    <3>2. CASE ~man.has_bpf_cookie
      <4>1. p.abs_ip \in DOMAIN ip_map /\ ip = p.abs_ip
        BY <3>2 DEF UsdtInv, ProbesOK
      <4> QED BY ZenonT(30), <3>2, <4>1 DEF bpf_usdt_spec_id, IdFor
    <3> QED BY <3>1, <3>2
  <2> QED BY <2>1, <2>2
<1> QED BY <1>1, UsdtInvariant, PTL

\* Every id handed out is in exactly one place: the free list, one link, or
\* among those given up.  An id never handed out is in none.
THEOREM UsdtIds == Spec => []IdsConserved
<1>1. UsdtInv => IdsConserved
  <2> SUFFICES ASSUME UsdtInv, NEW id \in Ids
               PROVE  Cardinality(PlacesOf(id)) =
                        IF id < man.next_free_spec_id THEN 1 ELSE 0
    BY Zenon DEF IdsConserved
  <2> DEFINE F == {<<"free", i>> : i \in {j \in DOMAIN man.free_spec_ids : man.free_spec_ids[j] = id}}
             L(l) == {<<l, i>> : i \in {j \in DOMAIN links[l].spec_ids : links[l].spec_ids[j] = id}}
             G == IF id \in lost THEN {<<"lost", 0>>} ELSE {}
             Free == SeqRange(man.free_spec_ids)
             R(l) == SeqRange(links[l].spec_ids)
  <2>0. PlacesOf(id) = F \cup (UNION {L(l) : l \in Links}) \cup G
    BY Zenon DEF PlacesOf
  <2>1. /\ Once(man.free_spec_ids) /\ \A l \in Links : Once(links[l].spec_ids)
        /\ \A l, m \in Links : l # m => R(l) \cap R(m) = {}
        /\ \A l \in Links : R(l) \cap (Free \cup lost) = {}
        /\ Free \cap lost = {}
        /\ Free \cup lost \cup UNION {R(l) : l \in Links} = 0 .. (man.next_free_spec_id - 1)
    BY DEF UsdtInv, IdsOK, Once
  <2>2. id \notin Free => F = {}
    BY DEF SeqRange
  <2>3. \A l \in Links : id \notin R(l) => L(l) = {}
    BY DEF SeqRange
  <2>4. id \in Free => \E x : F = {x}
    <3> SUFFICES ASSUME id \in Free PROVE \E x : F = {x}
      OBVIOUS
    <3>1. PICK i \in DOMAIN man.free_spec_ids : man.free_spec_ids[i] = id
      BY DEF SeqRange
    <3>2. \A j \in DOMAIN man.free_spec_ids : man.free_spec_ids[j] = id => j = i
      BY <2>1, <3>1 DEF Once
    <3>3. F = {<<"free", i>>}
      BY Zenon, <3>1, <3>2
    <3> QED BY Zenon, <3>3
  <2>5. ASSUME NEW l \in Links, id \in R(l) PROVE \E x : L(l) = {x}
    <3>1. PICK i \in DOMAIN links[l].spec_ids : links[l].spec_ids[i] = id
      BY <2>5 DEF SeqRange
    <3>2. \A j \in DOMAIN links[l].spec_ids : links[l].spec_ids[j] = id => j = i
      BY <2>1, <3>1 DEF Once
    <3>3. L(l) = {<<l, i>>}
      BY <3>1, <3>2
    <3> QED BY Zenon, <3>3
  <2>6. (id \in lost => \E x : G = {x}) /\ (id \notin lost => G = {})
    BY Zenon
  <2>7. id \in Nat /\ man.next_free_spec_id \in Nat
    BY UsdtAssumption DEF UsdtInv, TypeOK, ManRecord, Ids
  <2> HIDE DEF F, L, G, Free, R
  <2>8. id < man.next_free_spec_id <=> id \in Free \cup lost \cup UNION {R(l) : l \in Links}
    BY <2>1, <2>7
  <2>9. CASE id < man.next_free_spec_id
    <3>1. \E x : PlacesOf(id) = {x}
      <4>1. CASE id \in Free
        <5>1. G = {} /\ \A l \in Links : L(l) = {}
          BY <2>1, <2>3, <2>6, <4>1
        <5>2. UNION {L(l) : l \in Links} = {}
          BY Zenon, <5>1
        <5>3. PlacesOf(id) = F
          BY Zenon, <2>0, <5>1, <5>2
        <5> QED BY <2>4, <4>1, <5>3
      <4>2. CASE id \in lost
        <5>1. F = {} /\ \A l \in Links : L(l) = {}
          BY <2>1, <2>2, <2>3, <4>2
        <5>2. UNION {L(l) : l \in Links} = {}
          BY <5>1
        <5>3. PlacesOf(id) = G
          BY Zenon, <2>0, <5>1, <5>2
        <5> QED BY Zenon, <2>6, <4>2, <5>3
      <4>3. CASE \E l \in Links : id \in R(l)
        <5>0. PICK l \in Links : id \in R(l)
          BY <4>3
        <5>1. F = {} /\ G = {} /\ \A m \in Links : m # l => L(m) = {}
          BY <2>1, <2>2, <2>3, <2>6, <5>0
        <5>2. UNION {L(m) : m \in Links} = L(l)
          BY <5>1
        <5>3. PlacesOf(id) = L(l)
          BY Zenon, <2>0, <5>1, <5>2
        <5> QED BY Zenon, <2>5, <5>0, <5>3
      <4> QED BY Zenon, <2>8, <2>9, <4>1, <4>2, <4>3
    <3>2. Cardinality(PlacesOf(id)) = 1
      BY <3>1, FS_Singleton
    <3> QED BY <2>9, <3>2
  <2>10. CASE ~(id < man.next_free_spec_id)
    <3>1. id \notin Free /\ id \notin lost /\ \A l \in Links : id \notin R(l)
      BY <2>8, <2>10
    <3>2. F = {} /\ G = {} /\ \A l \in Links : L(l) = {}
      BY Zenon, <2>2, <2>3, <2>6, <3>1
    <3>3. PlacesOf(id) = {}
      BY <2>0, <3>2
    <3>4. Cardinality(PlacesOf(id)) = 0
      BY <3>3, FS_EmptySet
    <3> QED BY <2>10, <3>4
  <2> QED BY <2>9, <2>10
<1> QED BY <1>1, UsdtInvariant, PTL
==============================================================================

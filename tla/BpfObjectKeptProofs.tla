------------------------- MODULE BpfObjectKeptProofs -------------------------
(***************************************************************************)
(* KeptInv, inductive relative to ObjectInv, and what follows from it: the *)
(* race of two auto-pins ends in agreement, outer maps hold the object's   *)
(* inner maps, and the data of MANUAL programs outlives the load.          *)
(***************************************************************************)
EXTENDS BpfObjectProofs

LEMMA CountOfMaps == NMaps \in Nat
BY ObjectAssumption

\* A step that changes one object keeps the local part of the others.
LEMMA OthersKept ==
  ASSUME KeptInv, NEW o \in Objs, inserted' = inserted,
         \A x \in Objs : x # o => obj'[x] = obj[x],
         KeptLocal(o, obj'[o], inserted), PinsAgree'
  PROVE  KeptInv'
<1>1. (\A x \in Objs : KeptLocal(x, obj[x], inserted))'
  <2> SUFFICES ASSUME NEW x \in Objs PROVE KeptLocal(x, obj'[x], inserted')
    BY Zenon DEF KeptLocal, ManualOK, PinnedLate, CreatedOK, SlotsOK, OwnTargets, InMapLoop
  <2>1. CASE x = o
    BY <2>1
  <2>2. CASE x # o
    BY <2>2 DEF KeptInv
  <2> QED BY Zenon, <2>1, <2>2
<1> QED BY <1>1 DEF KeptInv

\* A step that makes r of object o and touches no pin keeps KeptInv if r
\* satisfies the local part, and each map pinned in r was pinned before with
\* the descriptor it has, or one of the application's, or now refers to what
\* is pinned.
LEMMA KeptStep ==
  ASSUME ObjectInv, KeptInv, NEW o \in Objs, NEW r, r = obj'[o],
         pins' = pins, inserted' = inserted,
         \A x \in Objs : x # o => obj'[x] = obj[x],
         r.ok => obj[o].ok,
         \A m \in Maps : r.pinned[m] /\ r.state # "CLOSED" =>
           \/ /\ obj[o].pinned[m] /\ obj[o].state # "CLOSED"
              /\ r.fd[m] = obj[o].fd[m] \/ r.fd[m] = <<User, m, 1>>
           \/ /\ PinPath[m] # NoPath /\ pins[PinPath[m]] # None
              /\ r.fd[m] = pins[PinPath[m]],
         KeptLocal(o, r, inserted)
  PROVE  KeptInv'
<1>1. PinsAgree'
  <2> SUFFICES ASSUME \A x \in Objs : obj'[x].ok,
                      NEW x \in Objs, NEW m \in Maps,
                      obj'[x].pinned[m], obj'[x].state # "CLOSED"
               PROVE  /\ PinPath[m] # NoPath /\ pins[PinPath[m]] # None
                      /\ obj'[x].fd[m] \in {<<User, m, 1>>, pins[PinPath[m]]}
    BY DEF PinsAgree
  <2>1. \A y \in Objs : obj[y].ok
    OBVIOUS
  <2>2. \A y \in Objs, k \in Maps : obj[y].pinned[k] /\ obj[y].state # "CLOSED" =>
          /\ PinPath[k] # NoPath /\ pins[PinPath[k]] # None
          /\ obj[y].fd[k] \in {<<User, k, 1>>, pins[PinPath[k]]}
    BY <2>1 DEF KeptInv, PinsAgree
  <2>3. CASE x = o
    BY Zenon, <2>2, <2>3
  <2>4. CASE x # o
    BY <2>2, <2>4
  <2> QED BY <2>3, <2>4
<1> QED BY <1>1, OthersKept

\* A step that fails, or cleans up after a failure.
LEMMA FailStep ==
  ASSUME KeptInv, NEW o \in Objs, NEW r, r = obj'[o], inserted' = inserted,
         \A x \in Objs : x # o => obj'[x] = obj[x],
         ~r.ok, r.pc = "unpin" \/ (r.pc = "idle" /\ r.state = "LOADED"),
         r.creations = obj[o].creations, r.init_slots = obj[o].init_slots
  PROVE  KeptInv'
<1>1. PinsAgree'
  BY DEF PinsAgree
<1>2. CreatedOK(obj[o])
  BY DEF KeptInv, KeptLocal
<1>3. KeptLocal(o, r, inserted)
  BY <1>2 DEF KeptLocal, ManualOK, PinnedLate, CreatedOK, SlotsOK, InMapLoop
<1> QED BY <1>1, <1>3, OthersKept

\* SlotsOK looks at descriptors and their history only.
LEMMA SameSlots ==
  ASSUME NEW o, NEW s, NEW r, NEW ins, SlotsOK(o, s, ins),
         r.fd = s.fd, r.creations = s.creations, r.reused = s.reused,
         r.ok => s.ok, r.state # "CLOSED" => s.state # "CLOSED"
  PROVE  SlotsOK(o, r, ins)
<1> SUFFICES ASSUME r.ok, r.state # "CLOSED", NEW m \in Maps,
                    r.creations[m] = 1, ~r.reused[m]
             PROVE  /\ r.fd[m] = <<o, m, 1>>
                    /\ OwnTargets(r, m) => ins[<<o, m, 1>>] = {r.fd[t] : t \in Slots[m]}
  BY DEF SlotsOK
<1>1. /\ s.fd[m] = <<o, m, 1>>
      /\ OwnTargets(s, m) => ins[<<o, m, 1>>] = {s.fd[t] : t \in Slots[m]}
  BY DEF SlotsOK
<1>2. {r.fd[t] : t \in Slots[m]} = {s.fd[t] : t \in Slots[m]}
  OBVIOUS
<1> QED BY <1>1, <1>2 DEF OwnTargets

\* What the two invariants say of one object.
LEMMA Before ==
  ASSUME ObjectInv, KeptInv, NEW o \in Objs, NEW s, s = obj[o]
  PROVE  /\ obj \in [Objs -> ObjectRecord] /\ s \in ObjectRecord
         /\ s.idx \in Nat /\ ObjectLocal(o, s)
         /\ s.pc = "prog" => s.ok /\ s.state = "PREPARED"
         /\ s.pc = "idle" /\ s.state = "PREPARED" => s.ok
         /\ ManualOK(s) /\ PinnedLate(s) /\ CreatedOK(s)
         /\ SlotsOK(o, s, inserted)
<1>1. /\ obj \in [Objs -> ObjectRecord] /\ s \in ObjectRecord
      /\ ObjectLocal(o, s) /\ KeptLocal(o, s, inserted)
  BY DEF ObjectInv, TypeOK, KeptInv
<1>2. s.idx \in Nat
  BY <1>1 DEF ObjectRecord
<1> QED BY <1>1, <1>2 DEF ObjectLocal, OkOnTheWay, KeptLocal

LEMMA set_load_strategyKept ==
  ASSUME ObjectInv, KeptInv, NEW o \in Objs, NEW p \in Progs, set_load_strategy(o, p)
  PROVE  KeptInv'
<1>r. PICK s, r : s = obj[o] /\ r = obj'[o]
  OBVIOUS
<1>0. /\ obj \in [Objs -> ObjectRecord] /\ s \in ObjectRecord
      /\ s.idx \in Nat
      /\ s.pc = "prog" => s.ok /\ s.state = "PREPARED"
      /\ s.pc = "idle" /\ s.state = "PREPARED" => s.ok
  BY <1>r, Before
<1>k. /\ ManualOK(s) /\ PinnedLate(s) /\ CreatedOK(s)
      /\ SlotsOK(o, s, inserted)
  BY <1>r, Before
<1>1. /\ pins' = pins /\ inserted' = inserted
      /\ \A x \in Objs : x # o => obj'[x] = obj[x]
  BY <1>0 DEF set_load_strategy, fsVars
<1>2. s.pc = "idle" /\ s.state = "OPEN"
  BY <1>r DEF set_load_strategy, Idle
<1>3. /\ r.state = s.state /\ r.pc = s.pc
      /\ r.idx = s.idx /\ r.ok = s.ok
      /\ r.fd = s.fd /\ r.creations = s.creations
      /\ r.reused = s.reused /\ r.pinned = s.pinned
      /\ r.autocreate = s.autocreate /\ r.init_slots = s.init_slots
      /\ r.has_manual = s.has_manual /\ r.btf = s.btf
  BY <1>0, <1>r DEF set_load_strategy, Idle, ObjectRecord
<1>4. ManualOK(r)
  BY <1>k, <1>2, <1>3 DEF ManualOK, InMapLoop
<1>5. PinnedLate(r)
  BY <1>0, <1>k, <1>2, <1>3 DEF PinnedLate, InMapLoop
<1>6. CreatedOK(r)
  BY <1>0, <1>k, <1>2, <1>3 DEF CreatedOK, InMapLoop
<1>7. SlotsOK(o, r, inserted)
  BY <1>0, <1>k, <1>2, <1>3, SameSlots
<1>8. KeptLocal(o, r, inserted)
  BY <1>4, <1>5, <1>6, <1>7 DEF KeptLocal
<1> QED BY <1>0, <1>1, <1>2, <1>3, <1>8, <1>r, KeptStep

LEMMA set_autocreateKept ==
  ASSUME ObjectInv, KeptInv, NEW o \in Objs, NEW m \in Maps, set_autocreate(o, m)
  PROVE  KeptInv'
<1>r. PICK s, r : s = obj[o] /\ r = obj'[o]
  OBVIOUS
<1>0. /\ obj \in [Objs -> ObjectRecord] /\ s \in ObjectRecord
      /\ s.idx \in Nat
      /\ s.pc = "prog" => s.ok /\ s.state = "PREPARED"
      /\ s.pc = "idle" /\ s.state = "PREPARED" => s.ok
  BY <1>r, Before
<1>k. /\ ManualOK(s) /\ PinnedLate(s) /\ CreatedOK(s)
      /\ SlotsOK(o, s, inserted)
  BY <1>r, Before
<1>1. /\ pins' = pins /\ inserted' = inserted
      /\ \A x \in Objs : x # o => obj'[x] = obj[x]
  BY <1>0 DEF set_autocreate, fsVars
<1>2. s.pc = "idle" /\ s.state = "OPEN"
  BY <1>r DEF set_autocreate, Idle, map_is_created
<1>3. /\ r.state = s.state /\ r.pc = s.pc
      /\ r.idx = s.idx /\ r.ok = s.ok
      /\ r.fd = s.fd /\ r.creations = s.creations
      /\ r.reused = s.reused /\ r.pinned = s.pinned
      /\ r.init_slots = s.init_slots /\ r.strat = s.strat
      /\ r.has_manual = s.has_manual /\ r.btf = s.btf
  BY <1>0, <1>r DEF set_autocreate, Idle, map_is_created, ObjectRecord
<1>4. ManualOK(r)
  BY <1>k, <1>2, <1>3 DEF ManualOK, InMapLoop
<1>5. PinnedLate(r)
  BY <1>0, <1>k, <1>2, <1>3 DEF PinnedLate, InMapLoop
<1>6. CreatedOK(r)
  BY <1>0, <1>k, <1>2, <1>3 DEF CreatedOK, InMapLoop
<1>7. SlotsOK(o, r, inserted)
  BY <1>0, <1>k, <1>2, <1>3, SameSlots
<1>8. KeptLocal(o, r, inserted)
  BY <1>4, <1>5, <1>6, <1>7 DEF KeptLocal
<1> QED BY <1>0, <1>1, <1>2, <1>3, <1>8, <1>r, KeptStep

LEMMA reuse_fdKept ==
  ASSUME ObjectInv, KeptInv, NEW o \in Objs, NEW m \in Maps, reuse_fd(o, m)
  PROVE  KeptInv'
<1>r. PICK s, r : s = obj[o] /\ r = obj'[o]
  OBVIOUS
<1>0. /\ obj \in [Objs -> ObjectRecord] /\ s \in ObjectRecord
      /\ s.idx \in Nat
      /\ s.pc = "prog" => s.ok /\ s.state = "PREPARED"
      /\ s.pc = "idle" /\ s.state = "PREPARED" => s.ok
  BY <1>r, Before
<1>k. /\ ManualOK(s) /\ PinnedLate(s) /\ CreatedOK(s)
      /\ SlotsOK(o, s, inserted)
  BY <1>r, Before
<1>1. /\ pins' = pins /\ inserted' = inserted
      /\ \A x \in Objs : x # o => obj'[x] = obj[x]
  BY <1>0 DEF reuse_fd, fsVars
<1>2. s.pc = "idle" /\ s.state # "CLOSED"
  BY <1>r DEF reuse_fd, Idle
<1>3. /\ r.fd[m] = <<User, m, 1>> /\ r.reused[m]
      /\ \A k \in Maps : k # m => r.fd[k] = s.fd[k] /\ r.reused[k] = s.reused[k]
      /\ r.state = s.state /\ r.pc = s.pc
      /\ r.idx = s.idx /\ r.ok = s.ok
      /\ r.creations = s.creations /\ r.pinned = s.pinned
      /\ r.autocreate = s.autocreate /\ r.init_slots = s.init_slots
      /\ r.strat = s.strat /\ r.has_manual = s.has_manual
      /\ r.btf = s.btf
  BY <1>0, <1>r DEF reuse_fd, Idle, ObjectRecord
<1>4. ManualOK(r)
  BY <1>k, <1>2, <1>3 DEF ManualOK, InMapLoop
<1>5. PinnedLate(r)
  BY <1>0, <1>k, <1>2, <1>3 DEF PinnedLate, InMapLoop
<1>6. CreatedOK(r)
  BY <1>0, <1>k, <1>2, <1>3 DEF CreatedOK, InMapLoop
<1>7. SlotsOK(o, r, inserted)
  <2> SUFFICES ASSUME r.ok, r.state # "CLOSED", NEW k \in Maps,
                      r.creations[k] = 1, ~r.reused[k]
               PROVE  /\ r.fd[k] = <<o, k, 1>>
                      /\ OwnTargets(r, k) =>
                           inserted[<<o, k, 1>>] = {r.fd[t] : t \in Slots[k]}
    BY DEF SlotsOK
  <2>1. k # m /\ ~s.reused[k]
    BY <1>3
  <2>2. \A t \in Slots[k] : t \in Maps
    BY ObjectAssumption DEF Maps
  <2>3. OwnTargets(r, k) => \A t \in Slots[k] : r.fd[t] = s.fd[t]
    BY <2>2, <1>3 DEF OwnTargets
  <2>4. /\ s.fd[k] = <<o, k, 1>>
        /\ OwnTargets(s, k) => inserted[<<o, k, 1>>] = {s.fd[t] : t \in Slots[k]}
    BY <2>1, <1>k, <1>3 DEF SlotsOK
  <2>5. ASSUME OwnTargets(r, k)
        PROVE  inserted[<<o, k, 1>>] = {r.fd[t] : t \in Slots[k]}
    <3>1. {r.fd[t] : t \in Slots[k]} = {s.fd[t] : t \in Slots[k]}
      BY <2>3, <2>5
    <3>2. OwnTargets(s, k)
      BY <2>3, <2>5 DEF OwnTargets
    <3> QED BY <3>1, <3>2, <2>4
  <2> QED BY <2>1, <2>4, <2>5, <1>3
<1>8. KeptLocal(o, r, inserted)
  BY <1>4, <1>5, <1>6, <1>7 DEF KeptLocal
<1> QED BY <1>0, <1>1, <1>2, <1>3, <1>8, <1>r, KeptStep

LEMMA CallPrepareKept ==
  ASSUME ObjectInv, KeptInv, NEW o \in Objs, CallPrepare(o)
  PROVE  KeptInv'
<1>r. PICK s, r : s = obj[o] /\ r = obj'[o]
  OBVIOUS
<1>0. /\ obj \in [Objs -> ObjectRecord] /\ s \in ObjectRecord
      /\ s.idx \in Nat
      /\ s.pc = "prog" => s.ok /\ s.state = "PREPARED"
      /\ s.pc = "idle" /\ s.state = "PREPARED" => s.ok
  BY <1>r, Before
<1>k. /\ ManualOK(s) /\ PinnedLate(s) /\ CreatedOK(s)
      /\ SlotsOK(o, s, inserted)
  BY <1>r, Before
<1>1. /\ pins' = pins /\ inserted' = inserted
      /\ \A x \in Objs : x # o => obj'[x] = obj[x]
  BY <1>0 DEF CallPrepare, fsVars
<1>2. s.pc = "idle" /\ s.state = "OPEN"
  BY <1>r DEF CallPrepare, Idle
<1>3. /\ r.pc = "before_maps"
      /\ r.state = s.state /\ r.idx = s.idx
      /\ r.ok = s.ok /\ r.fd = s.fd
      /\ r.creations = s.creations /\ r.reused = s.reused
      /\ r.pinned = s.pinned /\ r.autocreate = s.autocreate
      /\ r.init_slots = s.init_slots /\ r.strat = s.strat
      /\ r.has_manual = s.has_manual /\ r.btf = s.btf
  BY <1>0, <1>r DEF CallPrepare, Idle, ObjectRecord
<1>4. ManualOK(r)
  BY <1>k, <1>2, <1>3 DEF ManualOK, InMapLoop
<1>5. PinnedLate(r)
  BY <1>0, <1>k, <1>2, <1>3 DEF PinnedLate, InMapLoop
<1>6. CreatedOK(r)
  BY <1>0, <1>k, <1>2, <1>3 DEF CreatedOK, InMapLoop
<1>7. SlotsOK(o, r, inserted)
  BY <1>0, <1>k, <1>2, <1>3, SameSlots
<1>8. KeptLocal(o, r, inserted)
  BY <1>4, <1>5, <1>6, <1>7 DEF KeptLocal
<1> QED BY <1>0, <1>1, <1>2, <1>3, <1>8, <1>r, KeptStep

LEMMA SkipMapKept ==
  ASSUME ObjectInv, KeptInv, NEW o \in Objs, SkipMap(o)
  PROVE  KeptInv'
<1>r. PICK s, r : s = obj[o] /\ r = obj'[o]
  OBVIOUS
<1>0. /\ obj \in [Objs -> ObjectRecord] /\ s \in ObjectRecord
      /\ s.idx \in Nat
      /\ s.pc = "prog" => s.ok /\ s.state = "PREPARED"
      /\ s.pc = "idle" /\ s.state = "PREPARED" => s.ok
  BY <1>r, Before
<1>k. /\ ManualOK(s) /\ PinnedLate(s) /\ CreatedOK(s)
      /\ SlotsOK(o, s, inserted)
  BY <1>r, Before
<1>1. /\ pins' = pins /\ inserted' = inserted
      /\ \A x \in Objs : x # o => obj'[x] = obj[x]
  BY <1>0 DEF SkipMap, fsVars
<1>2. s.pc = "map" /\ s.idx \in Maps /\ ~s.autocreate[s.idx]
  BY <1>r DEF SkipMap, At, InMaps, CurMap
<1>3. /\ r.idx = s.idx + 1
      /\ r.state = s.state /\ r.pc = s.pc
      /\ r.ok = s.ok /\ r.fd = s.fd
      /\ r.creations = s.creations /\ r.reused = s.reused
      /\ r.pinned = s.pinned /\ r.autocreate = s.autocreate
      /\ r.init_slots = s.init_slots /\ r.strat = s.strat
      /\ r.has_manual = s.has_manual /\ r.btf = s.btf
  BY <1>0, <1>r DEF SkipMap, At, InMaps, CurMap, ObjectRecord
<1>4. ManualOK(r)
  BY <1>k, <1>2, <1>3 DEF ManualOK, InMapLoop
<1>5. PinnedLate(r)
  BY <1>0, <1>k, <1>2, <1>3, CountOfMaps DEF PinnedLate, InMapLoop, Maps
<1>6. CreatedOK(r)
  BY <1>0, <1>k, <1>2, <1>3, CountOfMaps DEF CreatedOK, InMapLoop, Maps
<1>7. SlotsOK(o, r, inserted)
  BY <1>0, <1>k, <1>2, <1>3, SameSlots
<1>8. KeptLocal(o, r, inserted)
  BY <1>4, <1>5, <1>6, <1>7 DEF KeptLocal
<1> QED BY <1>0, <1>1, <1>2, <1>3, <1>8, <1>r, KeptStep

LEMMA StartMapKept ==
  ASSUME ObjectInv, KeptInv, NEW o \in Objs, StartMap(o)
  PROVE  KeptInv'
<1>r. PICK s, r : s = obj[o] /\ r = obj'[o]
  OBVIOUS
<1>0. /\ obj \in [Objs -> ObjectRecord] /\ s \in ObjectRecord
      /\ s.idx \in Nat
      /\ s.pc = "prog" => s.ok /\ s.state = "PREPARED"
      /\ s.pc = "idle" /\ s.state = "PREPARED" => s.ok
  BY <1>r, Before
<1>k. /\ ManualOK(s) /\ PinnedLate(s) /\ CreatedOK(s)
      /\ SlotsOK(o, s, inserted)
  BY <1>r, Before
<1>1. /\ pins' = pins /\ inserted' = inserted
      /\ \A x \in Objs : x # o => obj'[x] = obj[x]
  BY <1>0 DEF StartMap, fsVars
<1>2. s.pc = "map" /\ s.idx \in Maps
  BY <1>r DEF StartMap, At, InMaps
<1>3. /\ r.pc = "reuse"
      /\ r.state = s.state /\ r.idx = s.idx
      /\ r.ok = s.ok /\ r.fd = s.fd
      /\ r.creations = s.creations /\ r.reused = s.reused
      /\ r.pinned = s.pinned /\ r.autocreate = s.autocreate
      /\ r.init_slots = s.init_slots /\ r.strat = s.strat
      /\ r.has_manual = s.has_manual /\ r.btf = s.btf
  BY <1>0, <1>r DEF StartMap, At, InMaps, ObjectRecord
<1>4. ManualOK(r)
  BY <1>k, <1>2, <1>3 DEF ManualOK, InMapLoop
<1>5. PinnedLate(r)
  BY <1>0, <1>k, <1>2, <1>3 DEF PinnedLate, InMapLoop
<1>6. CreatedOK(r)
  BY <1>0, <1>k, <1>2, <1>3 DEF CreatedOK, InMapLoop
<1>7. SlotsOK(o, r, inserted)
  BY SMTT(30), <1>0, <1>k, <1>2, <1>3, SameSlots
<1>8. KeptLocal(o, r, inserted)
  BY <1>4, <1>5, <1>6, <1>7 DEF KeptLocal
<1> QED BY <1>0, <1>1, <1>2, <1>3, <1>8, <1>r, KeptStep

LEMMA ReuseNoneKept ==
  ASSUME ObjectInv, KeptInv, NEW o \in Objs, ReuseNone(o)
  PROVE  KeptInv'
<1>r. PICK s, r : s = obj[o] /\ r = obj'[o]
  OBVIOUS
<1>0. /\ obj \in [Objs -> ObjectRecord] /\ s \in ObjectRecord
      /\ s.idx \in Nat
      /\ s.pc = "prog" => s.ok /\ s.state = "PREPARED"
      /\ s.pc = "idle" /\ s.state = "PREPARED" => s.ok
  BY <1>r, Before
<1>k. /\ ManualOK(s) /\ PinnedLate(s) /\ CreatedOK(s)
      /\ SlotsOK(o, s, inserted)
  BY <1>r, Before
<1>1. /\ pins' = pins /\ inserted' = inserted
      /\ \A x \in Objs : x # o => obj'[x] = obj[x]
  BY <1>0 DEF ReuseNone, fsVars
<1>2. s.pc = "reuse"
  BY <1>r DEF ReuseNone, At, AfterReuse, CurMap
<1>3. /\ r.pc \in {"create", "pin"} /\ (r.pc = "pin" => s.reused[s.idx])
      /\ r.state = s.state /\ r.idx = s.idx
      /\ r.ok = s.ok /\ r.fd = s.fd
      /\ r.creations = s.creations /\ r.reused = s.reused
      /\ r.pinned = s.pinned /\ r.autocreate = s.autocreate
      /\ r.init_slots = s.init_slots /\ r.strat = s.strat
      /\ r.has_manual = s.has_manual /\ r.btf = s.btf
  BY <1>0, <1>r DEF ReuseNone, At, AfterReuse, CurMap, ObjectRecord
<1>4. ManualOK(r)
  BY <1>k, <1>2, <1>3 DEF ManualOK, InMapLoop
<1>5. PinnedLate(r)
  BY <1>0, <1>k, <1>2, <1>3 DEF PinnedLate, InMapLoop
<1>6. CreatedOK(r)
  BY <1>0, <1>k, <1>2, <1>3 DEF CreatedOK, InMapLoop
<1>7. SlotsOK(o, r, inserted)
  BY <1>0, <1>k, <1>2, <1>3, SameSlots
<1>8. KeptLocal(o, r, inserted)
  BY <1>4, <1>5, <1>6, <1>7 DEF KeptLocal
<1> QED BY <1>0, <1>1, <1>2, <1>3, <1>8, <1>r, KeptStep

LEMMA NoPinKept ==
  ASSUME ObjectInv, KeptInv, NEW o \in Objs, NoPin(o)
  PROVE  KeptInv'
<1>r. PICK s, r : s = obj[o] /\ r = obj'[o]
  OBVIOUS
<1>0. /\ obj \in [Objs -> ObjectRecord] /\ s \in ObjectRecord
      /\ s.idx \in Nat
      /\ s.pc = "prog" => s.ok /\ s.state = "PREPARED"
      /\ s.pc = "idle" /\ s.state = "PREPARED" => s.ok
  BY <1>r, Before
<1>k. /\ ManualOK(s) /\ PinnedLate(s) /\ CreatedOK(s)
      /\ SlotsOK(o, s, inserted)
  BY <1>r, Before
<1>1. /\ pins' = pins /\ inserted' = inserted
      /\ \A x \in Objs : x # o => obj'[x] = obj[x]
  BY <1>0 DEF NoPin, fsVars
<1>2. s.pc = "pin"
  BY <1>r DEF NoPin, At
<1>3. /\ r.pc = "map" /\ r.idx = s.idx + 1
      /\ r.state = s.state /\ r.ok = s.ok
      /\ r.fd = s.fd /\ r.creations = s.creations
      /\ r.reused = s.reused /\ r.pinned = s.pinned
      /\ r.autocreate = s.autocreate /\ r.init_slots = s.init_slots
      /\ r.strat = s.strat /\ r.has_manual = s.has_manual
      /\ r.btf = s.btf
  BY <1>0, <1>r DEF NoPin, At, ObjectRecord
<1>4. ManualOK(r)
  BY <1>k, <1>2, <1>3 DEF ManualOK, InMapLoop
<1>5. PinnedLate(r)
  BY SMTT(30), <1>0, <1>k, <1>2, <1>3, CountOfMaps DEF PinnedLate, InMapLoop, Maps
<1>6. CreatedOK(r)
  BY <1>0, <1>k, <1>2, <1>3, CountOfMaps DEF CreatedOK, InMapLoop, Maps
<1>7. SlotsOK(o, r, inserted)
  BY SMTT(30), <1>0, <1>k, <1>2, <1>3, SameSlots
<1>8. KeptLocal(o, r, inserted)
  BY <1>4, <1>5, <1>6, <1>7 DEF KeptLocal
<1> QED BY <1>0, <1>1, <1>2, <1>3, <1>8, <1>r, KeptStep

LEMMA CallLoadKept ==
  ASSUME ObjectInv, KeptInv, NEW o \in Objs, CallLoad(o)
  PROVE  KeptInv'
<1>r. PICK s, r : s = obj[o] /\ r = obj'[o]
  OBVIOUS
<1>0. /\ obj \in [Objs -> ObjectRecord] /\ s \in ObjectRecord
      /\ s.idx \in Nat
      /\ s.pc = "prog" => s.ok /\ s.state = "PREPARED"
      /\ s.pc = "idle" /\ s.state = "PREPARED" => s.ok
  BY <1>r, Before
<1>k. /\ ManualOK(s) /\ PinnedLate(s) /\ CreatedOK(s)
      /\ SlotsOK(o, s, inserted)
  BY <1>r, Before
<1>1. /\ pins' = pins /\ inserted' = inserted
      /\ \A x \in Objs : x # o => obj'[x] = obj[x]
  BY <1>0 DEF CallLoad, fsVars
<1>2. s.pc = "idle" /\ s.state \in {"OPEN", "PREPARED"}
  BY <1>r DEF CallLoad, Idle
<1>3. /\ r.pc = IF s.state = "OPEN" THEN "before_maps" ELSE "prog"
      /\ r.state = s.state /\ r.ok = s.ok
      /\ r.fd = s.fd /\ r.creations = s.creations
      /\ r.reused = s.reused /\ r.pinned = s.pinned
      /\ r.autocreate = s.autocreate /\ r.init_slots = s.init_slots
      /\ r.strat = s.strat /\ r.has_manual = s.has_manual
      /\ r.btf = s.btf
  BY <1>0, <1>r DEF CallLoad, Idle, ObjectRecord
<1>4. ManualOK(r)
  BY <1>k, <1>2, <1>3 DEF ManualOK, InMapLoop
<1>5. PinnedLate(r)
  BY <1>0, <1>k, <1>2, <1>3 DEF PinnedLate, InMapLoop
<1>6. CreatedOK(r)
  BY <1>0, <1>k, <1>2, <1>3 DEF CreatedOK, InMapLoop
<1>7. SlotsOK(o, r, inserted)
  BY <1>0, <1>k, <1>2, <1>3, SameSlots
<1>8. KeptLocal(o, r, inserted)
  BY <1>4, <1>5, <1>6, <1>7 DEF KeptLocal
<1> QED BY <1>0, <1>1, <1>2, <1>3, <1>8, <1>r, KeptStep

LEMMA SkipProgKept ==
  ASSUME ObjectInv, KeptInv, NEW o \in Objs, SkipProg(o)
  PROVE  KeptInv'
<1>r. PICK s, r : s = obj[o] /\ r = obj'[o]
  OBVIOUS
<1>0. /\ obj \in [Objs -> ObjectRecord] /\ s \in ObjectRecord
      /\ s.idx \in Nat
      /\ s.pc = "prog" => s.ok /\ s.state = "PREPARED"
      /\ s.pc = "idle" /\ s.state = "PREPARED" => s.ok
  BY <1>r, Before
<1>k. /\ ManualOK(s) /\ PinnedLate(s) /\ CreatedOK(s)
      /\ SlotsOK(o, s, inserted)
  BY <1>r, Before
<1>1. /\ pins' = pins /\ inserted' = inserted
      /\ \A x \in Objs : x # o => obj'[x] = obj[x]
  BY <1>0 DEF SkipProg, fsVars
<1>2. s.pc = "prog"
  BY <1>r DEF SkipProg, At
<1>3. /\ r.state = s.state /\ r.pc = s.pc
      /\ r.ok = s.ok /\ r.fd = s.fd
      /\ r.creations = s.creations /\ r.reused = s.reused
      /\ r.pinned = s.pinned /\ r.autocreate = s.autocreate
      /\ r.init_slots = s.init_slots /\ r.strat = s.strat
      /\ r.has_manual = s.has_manual /\ r.btf = s.btf
  BY <1>0, <1>r DEF SkipProg, At, ObjectRecord
<1>4. ManualOK(r)
  BY <1>k, <1>2, <1>3 DEF ManualOK, InMapLoop
<1>5. PinnedLate(r)
  BY <1>0, <1>k, <1>2, <1>3 DEF PinnedLate, InMapLoop
<1>6. CreatedOK(r)
  BY <1>0, <1>k, <1>2, <1>3 DEF CreatedOK, InMapLoop
<1>7. SlotsOK(o, r, inserted)
  BY <1>0, <1>k, <1>2, <1>3, SameSlots
<1>8. KeptLocal(o, r, inserted)
  BY <1>4, <1>5, <1>6, <1>7 DEF KeptLocal
<1> QED BY <1>0, <1>1, <1>2, <1>3, <1>8, <1>r, KeptStep

LEMMA LoadProgKept ==
  ASSUME ObjectInv, KeptInv, NEW o \in Objs, LoadProg(o)
  PROVE  KeptInv'
<1>r. PICK s, r : s = obj[o] /\ r = obj'[o]
  OBVIOUS
<1>0. /\ obj \in [Objs -> ObjectRecord] /\ s \in ObjectRecord
      /\ s.idx \in Nat
      /\ s.pc = "prog" => s.ok /\ s.state = "PREPARED"
      /\ s.pc = "idle" /\ s.state = "PREPARED" => s.ok
  BY <1>r, Before
<1>k. /\ ManualOK(s) /\ PinnedLate(s) /\ CreatedOK(s)
      /\ SlotsOK(o, s, inserted)
  BY <1>r, Before
<1>1. /\ pins' = pins /\ inserted' = inserted
      /\ \A x \in Objs : x # o => obj'[x] = obj[x]
  BY <1>0 DEF LoadProg, fsVars
<1>2. s.pc = "prog"
  BY <1>r DEF LoadProg, At
<1>3. /\ r.state = s.state /\ r.pc = s.pc
      /\ r.ok = s.ok /\ r.fd = s.fd
      /\ r.creations = s.creations /\ r.reused = s.reused
      /\ r.pinned = s.pinned /\ r.autocreate = s.autocreate
      /\ r.init_slots = s.init_slots /\ r.strat = s.strat
      /\ r.has_manual = s.has_manual /\ r.btf = s.btf
  BY ZenonT(30), <1>0, <1>r DEF LoadProg, At, ObjectRecord
<1>4. ManualOK(r)
  BY <1>k, <1>2, <1>3 DEF ManualOK, InMapLoop
<1>5. PinnedLate(r)
  BY <1>0, <1>k, <1>2, <1>3 DEF PinnedLate, InMapLoop
<1>6. CreatedOK(r)
  BY <1>0, <1>k, <1>2, <1>3 DEF CreatedOK, InMapLoop
<1>7. SlotsOK(o, r, inserted)
  BY <1>0, <1>k, <1>2, <1>3, SameSlots
<1>8. KeptLocal(o, r, inserted)
  BY <1>4, <1>5, <1>6, <1>7 DEF KeptLocal
<1> QED BY <1>0, <1>1, <1>2, <1>3, <1>8, <1>r, KeptStep

LEMMA FinishLoadKept ==
  ASSUME ObjectInv, KeptInv, NEW o \in Objs, FinishLoad(o)
  PROVE  KeptInv'
<1>r. PICK s, r : s = obj[o] /\ r = obj'[o]
  OBVIOUS
<1>0. /\ obj \in [Objs -> ObjectRecord] /\ s \in ObjectRecord
      /\ s.idx \in Nat
      /\ s.pc = "prog" => s.ok /\ s.state = "PREPARED"
      /\ s.pc = "idle" /\ s.state = "PREPARED" => s.ok
  BY <1>r, Before
<1>k. /\ ManualOK(s) /\ PinnedLate(s) /\ CreatedOK(s)
      /\ SlotsOK(o, s, inserted)
  BY <1>r, Before
<1>1. /\ pins' = pins /\ inserted' = inserted
      /\ \A x \in Objs : x # o => obj'[x] = obj[x]
  BY <1>0 DEF FinishLoad, fsVars
<1>2. s.pc = "prog"
  BY <1>r DEF FinishLoad, At, PostLoadCleanup
<1>3. /\ r.state = "LOADED" /\ r.pc = "idle" /\ r.ok
      /\ r.btf = (s.btf /\ s.has_manual)
      /\ r.idx = s.idx /\ r.fd = s.fd
      /\ r.creations = s.creations /\ r.reused = s.reused
      /\ r.pinned = s.pinned /\ r.autocreate = s.autocreate
      /\ r.init_slots = s.init_slots /\ r.strat = s.strat
      /\ r.has_manual = s.has_manual
  BY <1>0, <1>r DEF FinishLoad, At, PostLoadCleanup, ObjectRecord
<1>4. ManualOK(r)
  BY ZenonT(30), <1>k, <1>2, <1>3 DEF ManualOK, InMapLoop
<1>5. PinnedLate(r)
  BY <1>0, <1>k, <1>2, <1>3 DEF PinnedLate, InMapLoop
<1>6. CreatedOK(r)
  BY <1>0, <1>k, <1>2, <1>3 DEF CreatedOK, InMapLoop
<1>7. SlotsOK(o, r, inserted)
  BY <1>0, <1>k, <1>2, <1>3, SameSlots
<1>8. KeptLocal(o, r, inserted)
  BY <1>4, <1>5, <1>6, <1>7 DEF KeptLocal
<1> QED BY <1>0, <1>1, <1>2, <1>3, <1>8, <1>r, KeptStep

LEMMA ProgramLoadKept ==
  ASSUME ObjectInv, KeptInv, NEW o \in Objs, NEW p \in Progs, ProgramLoad(o, p)
  PROVE  KeptInv'
<1>r. PICK s, r : s = obj[o] /\ r = obj'[o]
  OBVIOUS
<1>0. /\ obj \in [Objs -> ObjectRecord] /\ s \in ObjectRecord
      /\ s.idx \in Nat
      /\ s.pc = "prog" => s.ok /\ s.state = "PREPARED"
      /\ s.pc = "idle" /\ s.state = "PREPARED" => s.ok
  BY <1>r, Before
<1>k. /\ ManualOK(s) /\ PinnedLate(s) /\ CreatedOK(s)
      /\ SlotsOK(o, s, inserted)
  BY <1>r, Before
<1>1. /\ pins' = pins /\ inserted' = inserted
      /\ \A x \in Objs : x # o => obj'[x] = obj[x]
  BY <1>0 DEF ProgramLoad, fsVars
<1>2. s.pc = "idle"
  BY <1>r DEF ProgramLoad, Idle
<1>3. /\ r.state = s.state /\ r.pc = s.pc
      /\ r.idx = s.idx /\ r.ok = s.ok
      /\ r.fd = s.fd /\ r.creations = s.creations
      /\ r.reused = s.reused /\ r.pinned = s.pinned
      /\ r.autocreate = s.autocreate /\ r.init_slots = s.init_slots
      /\ r.strat = s.strat /\ r.has_manual = s.has_manual
      /\ r.btf = s.btf
  BY <1>0, <1>r DEF ProgramLoad, Idle, ObjectRecord
<1>4. ManualOK(r)
  BY <1>k, <1>2, <1>3 DEF ManualOK, InMapLoop
<1>5. PinnedLate(r)
  BY SMTT(30), <1>0, <1>k, <1>2, <1>3 DEF PinnedLate, InMapLoop
<1>6. CreatedOK(r)
  BY <1>0, <1>k, <1>2, <1>3 DEF CreatedOK, InMapLoop
<1>7. SlotsOK(o, r, inserted)
  BY <1>0, <1>k, <1>2, <1>3, SameSlots
<1>8. KeptLocal(o, r, inserted)
  BY <1>4, <1>5, <1>6, <1>7 DEF KeptLocal
<1> QED BY <1>0, <1>1, <1>2, <1>3, <1>8, <1>r, KeptStep

LEMMA ProgramUnloadKept ==
  ASSUME ObjectInv, KeptInv, NEW o \in Objs, NEW p \in Progs, ProgramUnload(o, p)
  PROVE  KeptInv'
<1>r. PICK s, r : s = obj[o] /\ r = obj'[o]
  OBVIOUS
<1>0. /\ obj \in [Objs -> ObjectRecord] /\ s \in ObjectRecord
      /\ s.idx \in Nat
      /\ s.pc = "prog" => s.ok /\ s.state = "PREPARED"
      /\ s.pc = "idle" /\ s.state = "PREPARED" => s.ok
  BY <1>r, Before
<1>k. /\ ManualOK(s) /\ PinnedLate(s) /\ CreatedOK(s)
      /\ SlotsOK(o, s, inserted)
  BY <1>r, Before
<1>1. /\ pins' = pins /\ inserted' = inserted
      /\ \A x \in Objs : x # o => obj'[x] = obj[x]
  BY <1>0 DEF ProgramUnload, fsVars
<1>2. s.pc = "idle"
  BY <1>r DEF ProgramUnload, Idle
<1>3. /\ r.state = s.state /\ r.pc = s.pc
      /\ r.idx = s.idx /\ r.ok = s.ok
      /\ r.fd = s.fd /\ r.creations = s.creations
      /\ r.reused = s.reused /\ r.pinned = s.pinned
      /\ r.autocreate = s.autocreate /\ r.init_slots = s.init_slots
      /\ r.strat = s.strat /\ r.has_manual = s.has_manual
      /\ r.btf = s.btf
  BY ZenonT(30), <1>0, <1>r DEF ProgramUnload, Idle, ObjectRecord
<1>4. ManualOK(r)
  BY <1>k, <1>2, <1>3 DEF ManualOK, InMapLoop
<1>5. PinnedLate(r)
  BY <1>0, <1>k, <1>2, <1>3 DEF PinnedLate, InMapLoop
<1>6. CreatedOK(r)
  BY <1>0, <1>k, <1>2, <1>3 DEF CreatedOK, InMapLoop
<1>7. SlotsOK(o, r, inserted)
  BY <1>0, <1>k, <1>2, <1>3, SameSlots
<1>8. KeptLocal(o, r, inserted)
  BY <1>4, <1>5, <1>6, <1>7 DEF KeptLocal
<1> QED BY <1>0, <1>1, <1>2, <1>3, <1>8, <1>r, KeptStep

LEMMA CloseKept ==
  ASSUME ObjectInv, KeptInv, NEW o \in Objs, Close(o)
  PROVE  KeptInv'
<1>r. PICK s, r : s = obj[o] /\ r = obj'[o]
  OBVIOUS
<1>0. /\ obj \in [Objs -> ObjectRecord] /\ s \in ObjectRecord
      /\ s.idx \in Nat
      /\ s.pc = "prog" => s.ok /\ s.state = "PREPARED"
      /\ s.pc = "idle" /\ s.state = "PREPARED" => s.ok
  BY <1>r, Before
<1>k. /\ ManualOK(s) /\ PinnedLate(s) /\ CreatedOK(s)
      /\ SlotsOK(o, s, inserted)
  BY <1>r, Before
<1>1. /\ pins' = pins /\ inserted' = inserted
      /\ \A x \in Objs : x # o => obj'[x] = obj[x]
  BY <1>0 DEF Close, fsVars
<1>2. s.pc = "idle"
  BY <1>r DEF Close, Idle, AllClosed
<1>3. /\ r.state = "CLOSED"
      /\ r.pc = s.pc /\ r.idx = s.idx
      /\ r.ok = s.ok /\ r.creations = s.creations
      /\ r.reused = s.reused /\ r.pinned = s.pinned
      /\ r.autocreate = s.autocreate /\ r.init_slots = s.init_slots
      /\ r.strat = s.strat /\ r.has_manual = s.has_manual
  BY <1>0, <1>r DEF Close, Idle, AllClosed, ObjectRecord
<1>4. ManualOK(r)
  BY <1>k, <1>2, <1>3 DEF ManualOK, InMapLoop
<1>5. PinnedLate(r)
  BY <1>0, <1>k, <1>2, <1>3 DEF PinnedLate, InMapLoop
<1>6. CreatedOK(r)
  BY <1>0, <1>k, <1>2, <1>3 DEF CreatedOK, InMapLoop
<1>7. SlotsOK(o, r, inserted)
  BY <1>3 DEF SlotsOK
<1>8. KeptLocal(o, r, inserted)
  BY <1>4, <1>5, <1>6, <1>7 DEF KeptLocal
<1> QED BY <1>0, <1>1, <1>2, <1>3, <1>8, <1>r, KeptStep

LEMMA ReuseFailsKept ==
  ASSUME ObjectInv, KeptInv, NEW o \in Objs, ReuseFails(o)
  PROVE  KeptInv'
<1>r. PICK r : r = obj'[o]
  OBVIOUS
<1>0. obj \in [Objs -> ObjectRecord] /\ ObjectLocal(o, obj[o])
  BY DEF ObjectInv, TypeOK
<1>1. inserted' = inserted /\ \A x \in Objs : x # o => obj'[x] = obj[x]
  BY <1>0 DEF ReuseFails
<1>2. /\ ~r.ok
      /\ r.pc = "unpin" \/ (r.pc = "idle" /\ r.state = "LOADED")
      /\ r.creations = obj[o].creations /\ r.init_slots = obj[o].init_slots
  BY <1>0, <1>r DEF ReuseFails, ObjectRecord, CreateMapsFailed
<1> QED BY <1>1, <1>2, <1>r, FailStep

LEMMA CreateFailsKept ==
  ASSUME ObjectInv, KeptInv, NEW o \in Objs, CreateFails(o)
  PROVE  KeptInv'
<1>r. PICK r : r = obj'[o]
  OBVIOUS
<1>0. obj \in [Objs -> ObjectRecord] /\ ObjectLocal(o, obj[o])
  BY DEF ObjectInv, TypeOK
<1>1. inserted' = inserted /\ \A x \in Objs : x # o => obj'[x] = obj[x]
  BY <1>0 DEF CreateFails
<1>2. /\ ~r.ok
      /\ r.pc = "unpin" \/ (r.pc = "idle" /\ r.state = "LOADED")
      /\ r.creations = obj[o].creations /\ r.init_slots = obj[o].init_slots
  BY <1>0, <1>r DEF CreateFails, ObjectRecord, CreateMapsFailed
<1> QED BY <1>1, <1>2, <1>r, FailStep

LEMMA PinFailsKept ==
  ASSUME ObjectInv, KeptInv, NEW o \in Objs, PinFails(o)
  PROVE  KeptInv'
<1>r. PICK r : r = obj'[o]
  OBVIOUS
<1>0. obj \in [Objs -> ObjectRecord] /\ ObjectLocal(o, obj[o])
  BY DEF ObjectInv, TypeOK
<1>1. inserted' = inserted /\ \A x \in Objs : x # o => obj'[x] = obj[x]
  BY <1>0 DEF PinFails
<1>2. /\ ~r.ok
      /\ r.pc = "unpin" \/ (r.pc = "idle" /\ r.state = "LOADED")
      /\ r.creations = obj[o].creations /\ r.init_slots = obj[o].init_slots
  BY <1>0, <1>r DEF PinFails, ObjectRecord, CreateMapsFailed
<1> QED BY <1>1, <1>2, <1>r, FailStep

LEMMA LoadProgFailsKept ==
  ASSUME ObjectInv, KeptInv, NEW o \in Objs, LoadProgFails(o)
  PROVE  KeptInv'
<1>r. PICK r : r = obj'[o]
  OBVIOUS
<1>0. obj \in [Objs -> ObjectRecord] /\ ObjectLocal(o, obj[o])
  BY DEF ObjectInv, TypeOK
<1>1. inserted' = inserted /\ \A x \in Objs : x # o => obj'[x] = obj[x]
  BY <1>0 DEF LoadProgFails
<1>2. /\ ~r.ok
      /\ r.pc = "unpin" \/ (r.pc = "idle" /\ r.state = "LOADED")
      /\ r.creations = obj[o].creations /\ r.init_slots = obj[o].init_slots
  BY <1>0, <1>r DEF LoadProgFails, ObjectRecord, LoadFailed, PostLoadCleanup
<1> QED BY <1>1, <1>2, <1>r, FailStep

LEMMA FinishLoadFailsKept ==
  ASSUME ObjectInv, KeptInv, NEW o \in Objs, FinishLoadFails(o)
  PROVE  KeptInv'
<1>r. PICK r : r = obj'[o]
  OBVIOUS
<1>0. obj \in [Objs -> ObjectRecord] /\ ObjectLocal(o, obj[o])
  BY DEF ObjectInv, TypeOK
<1>1. inserted' = inserted /\ \A x \in Objs : x # o => obj'[x] = obj[x]
  BY <1>0 DEF FinishLoadFails
<1>2. /\ ~r.ok
      /\ r.pc = "unpin" \/ (r.pc = "idle" /\ r.state = "LOADED")
      /\ r.creations = obj[o].creations /\ r.init_slots = obj[o].init_slots
  BY <1>0, <1>r DEF FinishLoadFails, ObjectRecord, LoadFailed, PostLoadCleanup
<1> QED BY <1>1, <1>2, <1>r, FailStep

LEMMA UnloadKept ==
  ASSUME ObjectInv, KeptInv, NEW o \in Objs, Unload(o)
  PROVE  KeptInv'
<1>r. PICK r : r = obj'[o]
  OBVIOUS
<1>0. obj \in [Objs -> ObjectRecord] /\ ObjectLocal(o, obj[o])
  BY DEF ObjectInv, TypeOK
<1>1. inserted' = inserted /\ \A x \in Objs : x # o => obj'[x] = obj[x]
  BY <1>0 DEF Unload
<1>2. /\ ~r.ok
      /\ r.pc = "unpin" \/ (r.pc = "idle" /\ r.state = "LOADED")
      /\ r.creations = obj[o].creations /\ r.init_slots = obj[o].init_slots
  BY <1>0, <1>r DEF Unload, ObjectRecord, AllClosed, At, ObjectLocal, Undone
<1> QED BY <1>1, <1>2, <1>r, FailStep

LEMMA UnpinNextKept ==
  ASSUME ObjectInv, KeptInv, NEW o \in Objs, UnpinNext(o)
  PROVE  KeptInv'
<1>r. PICK r : r = obj'[o]
  OBVIOUS
<1>0. obj \in [Objs -> ObjectRecord] /\ ObjectLocal(o, obj[o])
  BY DEF ObjectInv, TypeOK
<1>1. inserted' = inserted /\ \A x \in Objs : x # o => obj'[x] = obj[x]
  BY <1>0 DEF UnpinNext
<1>2. /\ ~r.ok
      /\ r.pc = "unpin" \/ (r.pc = "idle" /\ r.state = "LOADED")
      /\ r.creations = obj[o].creations /\ r.init_slots = obj[o].init_slots
  BY <1>0, <1>r DEF UnpinNext, ObjectRecord, At, ObjectLocal, Undone
<1> QED BY <1>1, <1>2, <1>r, FailStep

LEMMA BeforeMapsKept ==
  ASSUME ObjectInv, KeptInv, NEW o \in Objs, BeforeMaps(o)
  PROVE  KeptInv'
<1>r. PICK s, r : s = obj[o] /\ r = obj'[o]
  OBVIOUS
<1>0. /\ obj \in [Objs -> ObjectRecord] /\ s \in ObjectRecord
      /\ s.idx \in Nat /\ ObjectLocal(o, s)
  BY <1>r, Before
<1>k. /\ ManualOK(s) /\ PinnedLate(s) /\ CreatedOK(s)
      /\ SlotsOK(o, s, inserted)
  BY <1>r, Before
<1>1. /\ pins' = pins /\ inserted' = inserted
      /\ \A x \in Objs : x # o => obj'[x] = obj[x]
  BY <1>0 DEF BeforeMaps, fsVars
<1>2. s.pc = "before_maps"
  BY Zenon, <1>r DEF BeforeMaps, At
<1>p. PICK rel \in BOOLEAN, done \in BOOLEAN :
        obj' = [obj EXCEPT ![o].relocated = rel, ![o].btf = TRUE,
                           ![o].idx = 1, ![o].ok = done,
                           ![o].pc = IF done THEN "map" ELSE "unpin"]
  BY ZenonT(30) DEF BeforeMaps
<1>3. /\ r.btf /\ r.idx = 1 /\ r.ok = done
      /\ r.pc = IF done THEN "map" ELSE "unpin"
      /\ r.fd = s.fd /\ r.creations = s.creations /\ r.state = s.state
      /\ r.reused = s.reused /\ r.pinned = s.pinned
      /\ r.autocreate = s.autocreate /\ r.init_slots = s.init_slots
  BY <1>0, <1>p, <1>r DEF ObjectRecord
<1>4. CASE ~done
  BY <1>1, <1>3, <1>4, <1>r, FailStep
<1>5. CASE done
  <2>1. ManualOK(r)
    BY <1>3, <1>5 DEF ManualOK
  <2>2. PinnedLate(r)
    BY SMTT(30), <1>0, <1>k, <1>2, <1>3, <1>5 DEF PinnedLate, InMapLoop
  <2>3. CreatedOK(r)
    BY SMTT(30), <1>0, <1>k, <1>2, <1>3, <1>5, CountOfMaps
       DEF CreatedOK, InMapLoop, Maps
  <2>4. SlotsOK(o, r, inserted)
    BY <1>0, <1>k, <1>2, <1>3, SameSlots DEF PinnedLate
  <2>5. KeptLocal(o, r, inserted)
    BY Zenon, <2>1, <2>2, <2>3, <2>4 DEF KeptLocal
  <2>6. obj[o].ok /\ \A m \in Maps : ~r.pinned[m]
    BY Zenon, <1>0, <1>k, <1>2, <1>3, <1>r DEF PinnedLate
  <2> QED BY <1>1, <1>r, <2>5, <2>6, KeptStep
<1> QED BY <1>4, <1>5

LEMMA ReuseFoundKept ==
  ASSUME ObjectInv, KeptInv, NEW o \in Objs, ReuseFound(o)
  PROVE  KeptInv'
<1>r. PICK s, r : s = obj[o] /\ r = obj'[o]
  OBVIOUS
<1>0. /\ obj \in [Objs -> ObjectRecord] /\ s \in ObjectRecord
      /\ s.idx \in Nat /\ ObjectLocal(o, s)
  BY <1>r, Before
<1>k. /\ ManualOK(s) /\ PinnedLate(s) /\ CreatedOK(s)
      /\ SlotsOK(o, s, inserted)
  BY <1>r, Before
<1>m. PICK m \in Maps : m = s.idx
  BY <1>r DEF ReuseFound, ObjectInv, TypeOK, At, InMaps
<1>1. /\ pins' = pins /\ inserted' = inserted
      /\ \A x \in Objs : x # o => obj'[x] = obj[x]
  BY Zenon, <1>0 DEF ReuseFound, fsVars
<1>2. /\ s.pc = "reuse" /\ PinPath[m] # NoPath /\ pins[PinPath[m]] # None
  BY SMTT(30), <1>r, <1>m DEF ReuseFound, At, CurMap, PinnedAt
<1>3. /\ r.pc = "pin"
      /\ r.fd[m] = pins[PinPath[m]] /\ r.reused[m] /\ r.pinned[m]
      /\ \A k \in Maps : k # m => /\ r.fd[k] = s.fd[k]
                                  /\ r.reused[k] = s.reused[k]
                                  /\ r.pinned[k] = s.pinned[k]
      /\ r.state = s.state /\ r.idx = s.idx /\ r.ok = s.ok
      /\ r.creations = s.creations /\ r.autocreate = s.autocreate
      /\ r.init_slots = s.init_slots /\ r.strat = s.strat
      /\ r.has_manual = s.has_manual /\ r.btf = s.btf
  <2>1. PICK v : v = pins[PinPath[m]]
    BY Zenon
  <2>2. r = [s EXCEPT !.fd[m] = v, !.reused[m] = TRUE, !.pinned[m] = TRUE,
                      !.pc = "pin"]
    BY <2>1, <1>m, <1>r DEF ReuseFound, CurMap, ObjectInv, TypeOK
  <2>3. /\ r.pc = "pin" /\ r.fd = [s.fd EXCEPT ![m] = v]
        /\ r.reused = [s.reused EXCEPT ![m] = TRUE]
        /\ r.pinned = [s.pinned EXCEPT ![m] = TRUE]
        /\ r.state = s.state /\ r.idx = s.idx /\ r.ok = s.ok
        /\ r.creations = s.creations /\ r.autocreate = s.autocreate
        /\ r.init_slots = s.init_slots /\ r.strat = s.strat
        /\ r.has_manual = s.has_manual /\ r.btf = s.btf
    BY <2>2, <1>0 DEF ObjectRecord
  <2>4. /\ s.fd \in [Maps -> KMaps \cup {Placeholder, Closed}]
        /\ s.reused \in [Maps -> BOOLEAN] /\ s.pinned \in [Maps -> BOOLEAN]
    BY Zenon, <1>0 DEF ObjectRecord
  <2> QED BY <2>1, <2>3, <2>4
<1>4. ManualOK(r)
  BY Zenon, <1>0, <1>k, <1>2, <1>3 DEF ManualOK, InMapLoop
<1>5. PinnedLate(r)
  BY SMTT(30), <1>0, <1>k, <1>2, <1>3, <1>m, CountOfMaps DEF PinnedLate, InMapLoop, Maps
<1>6. CreatedOK(r)
  BY SMTT(30), <1>0, <1>k, <1>2, <1>3, <1>m, CountOfMaps DEF CreatedOK, InMapLoop, Maps
<1>7. SlotsOK(o, r, inserted)
  <2> SUFFICES ASSUME r.ok, r.state # "CLOSED", NEW k \in Maps,
                      r.creations[k] = 1, ~r.reused[k]
               PROVE  /\ r.fd[k] = <<o, k, 1>>
                      /\ OwnTargets(r, k) =>
                           inserted[<<o, k, 1>>] = {r.fd[t] : t \in Slots[k]}
    BY DEF SlotsOK
  <2>1. k # m /\ ~s.reused[k]
    BY Zenon, <1>3
  <2>2. k < m
    BY <2>1, <1>0, <1>2, <1>3, <1>m, ObjectAssumption
       DEF Maps, ObjectLocal, CreationsBounded, InMapLoop
  <2>3. \A t \in Slots[k] : t \in Maps /\ t # m
    BY <2>2, ObjectAssumption DEF Maps
  <2>4. \A t \in Slots[k] : r.fd[t] = s.fd[t]
    BY Zenon, <2>3, <1>3
  <2>5. /\ s.fd[k] = <<o, k, 1>>
        /\ OwnTargets(s, k) => inserted[<<o, k, 1>>] = {s.fd[t] : t \in Slots[k]}
    BY <2>1, <1>k, <1>3 DEF SlotsOK
  <2>6. {r.fd[t] : t \in Slots[k]} = {s.fd[t] : t \in Slots[k]}
    BY <2>4
  <2> QED BY <2>1, <2>4, <2>5, <2>6, <1>3 DEF OwnTargets
<1>8. KeptLocal(o, r, inserted)
  BY <1>4, <1>5, <1>6, <1>7 DEF KeptLocal
<1> QED BY SMTT(30), <1>1, <1>2, <1>3, <1>8, <1>r, KeptStep

LEMMA PinExistsKept ==
  ASSUME ObjectInv, KeptInv, NEW o \in Objs, PinExists(o)
  PROVE  KeptInv'
<1>r. PICK s, r : s = obj[o] /\ r = obj'[o]
  OBVIOUS
<1>0. /\ obj \in [Objs -> ObjectRecord] /\ s \in ObjectRecord
      /\ s.idx \in Nat /\ ObjectLocal(o, s)
  BY <1>r, Before
<1>k. /\ ManualOK(s) /\ PinnedLate(s) /\ CreatedOK(s)
      /\ SlotsOK(o, s, inserted)
  BY <1>r, Before
<1>1. /\ pins' = pins /\ inserted' = inserted
      /\ \A x \in Objs : x # o => obj'[x] = obj[x]
  BY <1>0 DEF PinExists, fsVars
<1>2. s.pc = "pin" /\ s.idx \in Maps /\ ~s.pinned[s.idx]
  BY <1>r DEF PinExists, MustPin, At, CurMap, ObjectInv, TypeOK, InMaps
<1>p. r = IF s.retried THEN CreateMapsFailed(s, s.idx)
          ELSE [s EXCEPT !.retried = TRUE, !.pc = "reuse"]
  BY <1>r DEF PinExists, ObjectInv, TypeOK
<1>3. CASE s.retried
  <2>1. /\ ~r.ok /\ r.pc = "unpin"
        /\ r.creations = s.creations /\ r.init_slots = s.init_slots
    BY SMTT(30), <1>0, <1>p, <1>3 DEF CreateMapsFailed, ObjectRecord
  <2> QED BY <1>1, <2>1, <1>r, FailStep
<1>4. CASE ~s.retried
  <2>3. /\ r.pc = "reuse"
        /\ r.state = s.state /\ r.idx = s.idx
        /\ r.ok = s.ok /\ r.fd = s.fd
        /\ r.creations = s.creations /\ r.reused = s.reused
        /\ r.pinned = s.pinned /\ r.autocreate = s.autocreate
        /\ r.init_slots = s.init_slots /\ r.strat = s.strat
        /\ r.has_manual = s.has_manual /\ r.btf = s.btf
    BY SMTT(30), <1>0, <1>p, <1>4 DEF ObjectRecord
  <2>4. ManualOK(r)
    BY Zenon, <1>0, <1>k, <1>2, <2>3 DEF ManualOK, InMapLoop
  <2>5. PinnedLate(r)
    BY ZenonT(30), <1>0, <1>k, <1>2, <2>3 DEF PinnedLate, InMapLoop
  <2>6. CreatedOK(r)
    BY <1>0, <1>k, <1>2, <2>3 DEF CreatedOK, InMapLoop
  <2>7. SlotsOK(o, r, inserted)
    BY Zenon, <1>k, <2>3, SameSlots
  <2>8. KeptLocal(o, r, inserted)
    BY <2>4, <2>5, <2>6, <2>7 DEF KeptLocal
  <2> QED BY <1>1, <2>3, <2>8, <1>r, KeptStep
<1> QED BY <1>3, <1>4

LEMMA PrepareProgsKept ==
  ASSUME ObjectInv, KeptInv, NEW o \in Objs, PrepareProgs(o)
  PROVE  KeptInv'
<1>r. PICK s, r : s = obj[o] /\ r = obj'[o]
  OBVIOUS
<1>0. /\ obj \in [Objs -> ObjectRecord] /\ s \in ObjectRecord
      /\ s.idx \in Nat /\ ObjectLocal(o, s)
  BY <1>r, Before
<1>k. /\ ManualOK(s) /\ PinnedLate(s) /\ CreatedOK(s)
      /\ SlotsOK(o, s, inserted)
  BY <1>r, Before
<1>1. /\ pins' = pins /\ inserted' = inserted
      /\ \A x \in Objs : x # o => obj'[x] = obj[x]
  BY ZenonT(30), <1>0 DEF PrepareProgs, fsVars
<1>2. s.pc = "map" /\ s.idx \notin Maps
  BY Zenon, <1>r DEF PrepareProgs, At, InMaps
<1>3. CASE \E n \in Progs :
          obj' = [obj EXCEPT ![o].has_manual =
                    \E p \in 1 .. n : obj[o].strat[p] = "MANUAL",
                             ![o].ok = FALSE, ![o].pc = "unpin", ![o].idx = 1]
  <2>1. /\ ~r.ok /\ r.pc = "unpin"
        /\ r.creations = s.creations /\ r.init_slots = s.init_slots
    <3>1. PICK n \in Progs :
            obj' = [obj EXCEPT ![o].has_manual =
                      \E p \in 1 .. n : obj[o].strat[p] = "MANUAL",
                               ![o].ok = FALSE, ![o].pc = "unpin", ![o].idx = 1]
      BY Zenon, <1>3
    <3>2. PICK hm : hm = \E p \in 1 .. n : obj[o].strat[p] = "MANUAL"
      BY ZenonT(30)
    <3>3. obj' = [obj EXCEPT ![o].has_manual = hm, ![o].ok = FALSE,
                             ![o].pc = "unpin", ![o].idx = 1]
      BY Zenon, <3>1, <3>2
    <3> QED BY ZenonT(30), <1>0, <3>3, <1>r DEF ObjectRecord
  <2> QED BY <1>1, <2>1, <1>r, FailStep
<1>4. CASE obj' = [obj EXCEPT ![o].has_manual = SomeManual(o),
                              ![o].state = "PREPARED", ![o].idx = 1,
                              ![o].pc = IF obj[o].goal = "load"
                                        THEN "prog" ELSE "idle"]
  <2>3. /\ r.pc \in {"prog", "idle"} /\ r.state = "PREPARED"
        /\ r.has_manual = SomeManual(o)
        /\ r.ok = s.ok /\ r.fd = s.fd
        /\ r.creations = s.creations /\ r.reused = s.reused
        /\ r.pinned = s.pinned /\ r.autocreate = s.autocreate
        /\ r.init_slots = s.init_slots /\ r.strat = s.strat /\ r.btf = s.btf
    BY <1>0, <1>r, <1>4 DEF ObjectRecord
  <2>4. ManualOK(r)
    <3>1. r.btf
      BY <1>0, <1>k, <1>2, <2>3 DEF ManualOK, InMapLoop
    <3>2. (\E p \in Progs : r.strat[p] = "MANUAL") => r.has_manual
      BY <2>3, <1>r DEF SomeManual
    <3> QED BY Zenon, <3>1, <3>2, <2>3 DEF ManualOK, InMapLoop
  <2>5. PinnedLate(r)
    BY ZenonT(30), <2>3 DEF PinnedLate, InMapLoop
  <2>6. CreatedOK(r)
    BY <1>0, <1>k, <1>2, <2>3, CountOfMaps
       DEF CreatedOK, InMapLoop, ObjectRecord, Maps
  <2>7. SlotsOK(o, r, inserted)
    BY <1>0, <1>k, <1>2, <2>3, SameSlots DEF ObjectLocal, OkOnTheWay
  <2>8. KeptLocal(o, r, inserted)
    BY <2>4, <2>5, <2>6, <2>7 DEF KeptLocal
  <2>9. s.state = "OPEN"
    BY <1>0, <1>2 DEF ObjectLocal, OkOnTheWay
  <2> QED BY <1>1, <2>3, <2>8, <2>9, <1>r, KeptStep
<1> QED BY ZenonT(30), <1>3, <1>4 DEF PrepareProgs

LEMMA PinMapKept ==
  ASSUME ObjectInv, KeptInv, NEW o \in Objs, PinMap(o)
  PROVE  KeptInv'
<1>r. PICK s, r : s = obj[o] /\ r = obj'[o]
  OBVIOUS
<1>0. /\ obj \in [Objs -> ObjectRecord] /\ s \in ObjectRecord
      /\ s.idx \in Nat /\ ObjectLocal(o, s)
  BY <1>r, Before
<1>k. /\ ManualOK(s) /\ PinnedLate(s) /\ CreatedOK(s)
      /\ SlotsOK(o, s, inserted)
  BY <1>r, Before
<1>m. PICK m \in Maps : m = s.idx
  BY <1>r DEF PinMap, MustPin, ObjectInv, TypeOK, At, InMaps
<1>q. PICK q \in Paths : q = PinPath[m] /\ PinPath[m] # NoPath
  BY Zenon, <1>m, <1>r DEF PinMap, MustPin, CurMap, Paths
<1>1. /\ inserted' = inserted
      /\ \A x \in Objs : x # o => obj'[x] = obj[x]
  BY DEF PinMap, ObjectInv, TypeOK
<1>2. s.pc = "pin" /\ s.fd[m] \in KMaps
  BY <1>0, <1>m, <1>r DEF PinMap, MustPin, At, ObjectLocal, Progress
<1>p. pins[q] = None /\ pins' = [pins EXCEPT ![q] = s.fd[m]]
  BY <1>m, <1>q, <1>r DEF PinMap, CurMap
<1>3. /\ r.pc = "map" /\ r.idx = s.idx + 1
      /\ r.pinned[m] /\ \A k \in Maps : k # m => r.pinned[k] = s.pinned[k]
      /\ r.state = s.state
      /\ r.ok = s.ok /\ r.fd = s.fd
      /\ r.creations = s.creations /\ r.reused = s.reused
      /\ r.autocreate = s.autocreate
      /\ r.init_slots = s.init_slots /\ r.strat = s.strat
      /\ r.has_manual = s.has_manual /\ r.btf = s.btf
  BY ZenonT(30), <1>0, <1>m, <1>r DEF PinMap, CurMap, ObjectRecord
<1>4. ManualOK(r)
  BY Zenon, <1>0, <1>k, <1>2, <1>3 DEF ManualOK, InMapLoop
<1>5. PinnedLate(r)
  BY SMTT(30), <1>0, <1>k, <1>2, <1>3, <1>m, CountOfMaps DEF PinnedLate, InMapLoop, Maps
<1>6. CreatedOK(r)
  BY <1>0, <1>k, <1>2, <1>3, <1>m, CountOfMaps DEF CreatedOK, InMapLoop, Maps
<1>7. SlotsOK(o, r, inserted)
  BY <1>k, <1>3, SameSlots
<1>8. KeptLocal(o, r, inserted)
  BY SMTT(30), <1>4, <1>5, <1>6, <1>7 DEF KeptLocal
<1>9. PinsAgree'
  <2> SUFFICES ASSUME \A x \in Objs : obj'[x].ok,
                      NEW x \in Objs, NEW k \in Maps,
                      obj'[x].pinned[k], obj'[x].state # "CLOSED"
               PROVE  /\ PinPath[k] # NoPath /\ pins'[PinPath[k]] # None
                      /\ obj'[x].fd[k] \in {<<User, k, 1>>, pins'[PinPath[k]]}
    BY DEF PinsAgree
  <2>0. pins \in [Paths -> KMaps \cup {None}]
    BY Zenon DEF ObjectInv, TypeOK
  <2>1. CASE x = o /\ k = m
    BY ZenonT(30), <2>0, <2>1, <1>2, <1>3, <1>p, <1>q, <1>r, Sentinels
  <2>2. CASE ~(x = o /\ k = m)
    <3>1. \A y \in Objs : obj[y].ok
      BY SMTT(30), <1>1, <1>3, <1>r
    <3>2. /\ obj[x].pinned[k] /\ obj[x].state # "CLOSED"
          /\ obj'[x].fd[k] = obj[x].fd[k]
      BY SMTT(30), <2>2, <1>1, <1>3, <1>r
    <3>3. /\ PinPath[k] # NoPath /\ pins[PinPath[k]] # None
          /\ obj[x].fd[k] \in {<<User, k, 1>>, pins[PinPath[k]]}
      BY SMTT(30), <3>1, <3>2 DEF KeptInv, PinsAgree
    <3>4. PinPath[k] \in Paths /\ PinPath[k] # q
      BY <3>3, <1>p DEF Paths
    <3> QED BY <3>2, <3>3, <3>4, <2>0, <1>p
  <2> QED BY <2>1, <2>2
<1> QED BY <1>1, <1>8, <1>9, <1>r, OthersKept

LEMMA CreateMapKept ==
  ASSUME ObjectInv, KeptInv, NEW o \in Objs, CreateMap(o)
  PROVE  KeptInv'
<1>r. PICK s, r : s = obj[o] /\ r = obj'[o]
  OBVIOUS
<1>0. /\ obj \in [Objs -> ObjectRecord] /\ s \in ObjectRecord
      /\ s.idx \in Nat /\ ObjectLocal(o, s)
  BY <1>r, Before
<1>k. /\ ManualOK(s) /\ PinnedLate(s) /\ CreatedOK(s)
      /\ SlotsOK(o, s, inserted)
  BY <1>r, Before
<1>m. PICK m \in Maps : m = s.idx
  BY <1>r DEF CreateMap, ObjectInv, TypeOK, At, InMaps
<1>c. s.pc = "create" /\ s.creations[m] \in {0, 1} /\ s.state = "OPEN" /\ s.ok
  BY <1>0, <1>m, <1>r
     DEF CreateMap, At, ObjectLocal, CreationsBounded, OkOnTheWay, InMapLoop, ObjectRecord
<1>n. PICK n \in {1, 2} : n = s.creations[m] + 1
  BY <1>c
<1>f. Fresh(o) = <<o, m, n>> /\ <<o, m, n>> \in KMaps
  BY Zenon, <1>m, <1>n, <1>r DEF Fresh, CurMap, KMaps
<1> DEFINE filled == IF s.init_slots[m] THEN {s.fd[t] : t \in Slots[m]} ELSE {}
<1>1. /\ pins' = pins /\ \A x \in Objs : x # o => obj'[x] = obj[x]
      /\ inserted' = [inserted EXCEPT ![<<o, m, n>>] = filled]
  BY ZenonT(30), <1>f, <1>m, <1>r DEF CreateMap, CurMap, fsVars, ObjectInv, TypeOK
<1>3. /\ r.pc = "pin"
      /\ \A k \in Maps : r.fd[k] = IF k = m THEN <<o, m, n>> ELSE s.fd[k]
      /\ \A k \in Maps : r.creations[k] = IF k = m THEN n ELSE s.creations[k]
      /\ \A k \in Maps : k # m => r.init_slots[k] = s.init_slots[k]
      /\ r.state = s.state /\ r.idx = s.idx /\ r.ok = s.ok
      /\ r.reused = s.reused /\ r.pinned = s.pinned
      /\ r.autocreate = s.autocreate /\ r.strat = s.strat
      /\ r.has_manual = s.has_manual /\ r.btf = s.btf
  <2>1. PICK v : v = <<o, m, n>>
    BY Zenon
  <2>2. r = [s EXCEPT !.fd[m] = v, !.creations[m] = n,
                      !.init_slots[m] = FALSE, !.pc = "pin"]
    BY Zenon, <2>1, <1>f, <1>m, <1>n, <1>r DEF CreateMap, CurMap, ObjectInv, TypeOK
  <2>3. /\ r.pc = "pin" /\ r.fd = [s.fd EXCEPT ![m] = v]
        /\ r.creations = [s.creations EXCEPT ![m] = n]
        /\ r.init_slots = [s.init_slots EXCEPT ![m] = FALSE]
        /\ r.state = s.state /\ r.idx = s.idx /\ r.ok = s.ok
        /\ r.reused = s.reused /\ r.pinned = s.pinned
        /\ r.autocreate = s.autocreate /\ r.strat = s.strat
        /\ r.has_manual = s.has_manual /\ r.btf = s.btf
    BY <2>2, <1>0 DEF ObjectRecord
  <2>4. /\ s.fd \in [Maps -> KMaps \cup {Placeholder, Closed}]
        /\ s.creations \in [Maps -> 0 .. 2] /\ s.init_slots \in [Maps -> BOOLEAN]
    BY <1>0 DEF ObjectRecord
  <2> QED BY <2>1, <2>3, <2>4
<1>t. Slots[m] \subseteq Maps /\ \A k \in Maps : Slots[k] \subseteq 1 .. (k - 1)
  BY ObjectAssumption DEF Maps
<1>i. inserted \in [KMaps -> SUBSET (KMaps \cup {Placeholder, Closed})]
  BY DEF KeptInv
<1>j. filled \subseteq KMaps \cup {Placeholder, Closed}
  BY SMTT(30), <1>0, <1>t DEF ObjectRecord
<1>u. /\ inserted' \in [KMaps -> SUBSET (KMaps \cup {Placeholder, Closed})]
      /\ inserted'[<<o, m, n>>] = filled
      /\ \A k \in KMaps : k # <<o, m, n>> => inserted'[k] = inserted[k]
  BY <1>1, <1>f, <1>i, <1>j
<1>l. \A x \in Objs, k \in Maps : <<x, k, 1>> \in KMaps
  BY Zenon DEF KMaps
<1>4. ManualOK(r)
  BY ZenonT(30), <1>0, <1>k, <1>c, <1>3 DEF ManualOK, InMapLoop
<1>5. PinnedLate(r)
  BY Zenon, <1>0, <1>k, <1>c, <1>3, <1>m, CountOfMaps DEF PinnedLate, InMapLoop, Maps
<1>6. CreatedOK(r)
  BY SMTT(30), <1>0, <1>k, <1>c, <1>3, <1>m, CountOfMaps DEF CreatedOK, InMapLoop, Maps
<1>7. SlotsOK(o, r, inserted')
  <2> SUFFICES ASSUME NEW k \in Maps, r.creations[k] = 1, ~r.reused[k]
               PROVE  /\ r.fd[k] = <<o, k, 1>>
                      /\ OwnTargets(r, k) =>
                           inserted'[<<o, k, 1>>] = {r.fd[t] : t \in Slots[k]}
    BY Zenon DEF SlotsOK
  <2>1. CASE k = m
    <3>1. n = 1 /\ s.creations[m] = 0
      BY <2>1, <1>3, <1>n, <1>c
    <3>2. s.init_slots[m] <=> Slots[m] # {}
      BY <3>1, <1>k DEF CreatedOK
    <3>3. filled = {s.fd[t] : t \in Slots[m]}
      <4>1. CASE Slots[m] = {}
        BY <3>2, <4>1
      <4>2. CASE Slots[m] # {}
        BY <3>2, <4>2
      <4> QED BY <4>1, <4>2
    <3>4. \A t \in Slots[m] : t \in Maps /\ t # m
      BY <1>t DEF Maps
    <3>5. {r.fd[t] : t \in Slots[m]} = {s.fd[t] : t \in Slots[m]}
      BY <3>4, <1>3
    <3> QED BY ZenonT(30), <2>1, <3>1, <3>3, <3>5, <1>3, <1>u
  <2>2. CASE k # m
    <3>1. s.creations[k] = 1 /\ ~s.reused[k] /\ r.fd[k] = s.fd[k]
      BY <2>2, <1>3
    <3>2. k < m
      BY <3>1, <2>2, <1>0, <1>c, <1>m, ObjectAssumption
         DEF Maps, ObjectLocal, CreationsBounded, InMapLoop
    <3>3. \A t \in Slots[k] : t \in Maps /\ t # m
      BY <3>2, ObjectAssumption DEF Maps
    <3>4. \A t \in Slots[k] : r.fd[t] = s.fd[t]
      BY <3>3, <1>3
    <3>5. {r.fd[t] : t \in Slots[k]} = {s.fd[t] : t \in Slots[k]}
      BY SMTT(30), <3>4
    <3>6. /\ s.fd[k] = <<o, k, 1>>
          /\ OwnTargets(s, k) => inserted[<<o, k, 1>>] = {s.fd[t] : t \in Slots[k]}
      BY <3>1, <1>k, <1>c DEF SlotsOK
    <3>7. OwnTargets(r, k) => OwnTargets(s, k)
      BY <3>4 DEF OwnTargets
    <3>8. inserted'[<<o, k, 1>>] = inserted[<<o, k, 1>>]
      BY <2>2, <1>u, <1>l
    <3> QED BY Zenon, <3>1, <3>5, <3>6, <3>7, <3>8
  <2> QED BY <2>1, <2>2
<1>8. KeptLocal(o, r, inserted')
  BY <1>4, <1>5, <1>6, <1>7 DEF KeptLocal
<1> HIDE DEF filled
<1>9. (\A x \in Objs : KeptLocal(x, obj[x], inserted))'
  <2> SUFFICES ASSUME NEW x \in Objs PROVE KeptLocal(x, obj'[x], inserted')
    BY ZenonT(30) DEF KeptLocal, ManualOK, PinnedLate, CreatedOK, SlotsOK, OwnTargets, InMapLoop
  <2>1. CASE x = o
    BY Zenon, <2>1, <1>8, <1>r
  <2>2. CASE x # o
    <3>1. obj'[x] = obj[x] /\ KeptLocal(x, obj[x], inserted)
      BY <2>2, <1>1 DEF KeptInv
    <3>2. \A k \in Maps : inserted'[<<x, k, 1>>] = inserted[<<x, k, 1>>]
      BY Zenon, <2>2, <1>u, <1>l
    <3>3. SlotsOK(x, obj[x], inserted')
      BY Zenon, <3>1, <3>2 DEF KeptLocal, SlotsOK
    <3> QED BY <3>1, <3>3 DEF KeptLocal
  <2> QED BY Zenon, <2>1, <2>2
<1>10. PinsAgree'
  <2> SUFFICES ASSUME \A x \in Objs : obj'[x].ok,
                      NEW x \in Objs, NEW k \in Maps,
                      obj'[x].pinned[k], obj'[x].state # "CLOSED"
               PROVE  /\ PinPath[k] # NoPath /\ pins[PinPath[k]] # None
                      /\ obj'[x].fd[k] \in {<<User, k, 1>>, pins[PinPath[k]]}
    BY SMTT(30), <1>1 DEF PinsAgree
  <2>1. \A y \in Objs : obj[y].ok
    BY Zenon, <1>1, <1>3, <1>r
  <2>2. ~s.pinned[m]
    BY ZenonT(30), <1>0, <1>k, <1>c, <1>m DEF PinnedLate
  <2>3. /\ obj[x].pinned[k] /\ obj[x].state # "CLOSED"
        /\ obj'[x].fd[k] = obj[x].fd[k]
    BY <2>2, <1>1, <1>3, <1>r
  <2> QED BY ZenonT(30), <2>1, <2>3 DEF KeptInv, PinsAgree
<1> QED BY <1>u, <1>9, <1>10 DEF KeptInv

LEMMA KeptInit == Init => KeptInv
<1> SUFFICES ASSUME Init PROVE KeptInv
  OBVIOUS
<1>1. PICK st \in [Objs -> [Progs -> Strategies]] :
        obj = [o \in Objs |-> Opened(st[o])]
  BY DEF Init
<1>2. inserted \in [KMaps -> SUBSET (KMaps \cup {Placeholder, Closed})]
  BY Zenon DEF Init
<1>3. ASSUME NEW o \in Objs
      PROVE  /\ obj[o].state = "OPEN" /\ obj[o].pc = "idle" /\ obj[o].ok
             /\ \A m \in Maps : /\ obj[o].creations[m] = 0
                                /\ ~obj[o].pinned[m]
                                /\ (obj[o].init_slots[m] <=> Slots[m] # {})
  BY Zenon, <1>1 DEF Opened
<1>4. ASSUME NEW o \in Objs PROVE KeptLocal(o, obj[o], inserted)
  <2>1. PICK s : s = obj[o]
    OBVIOUS
  <2>2. /\ s.state = "OPEN" /\ s.pc = "idle" /\ s.ok
        /\ \A m \in Maps : /\ s.creations[m] = 0 /\ ~s.pinned[m]
                           /\ (s.init_slots[m] <=> Slots[m] # {})
    BY <1>3, <2>1
  <2>3. ManualOK(s)
    BY <2>2 DEF ManualOK, InMapLoop
  <2>4. PinnedLate(s)
    BY <2>2 DEF PinnedLate, InMapLoop
  <2>5. CreatedOK(s)
    BY <2>2 DEF CreatedOK, InMapLoop
  <2>6. SlotsOK(o, s, inserted)
    BY <2>2 DEF SlotsOK
  <2> QED BY <2>1, <2>3, <2>4, <2>5, <2>6 DEF KeptLocal
<1>5. PinsAgree
  BY <1>3 DEF PinsAgree
<1> QED BY <1>2, <1>4, <1>5 DEF KeptInv

LEMMA KeptStutter == KeptInv /\ UNCHANGED vars => KeptInv'
<1> SUFFICES ASSUME KeptInv, UNCHANGED vars PROVE KeptInv'
  OBVIOUS
<1>0. obj' = obj /\ pins' = pins /\ inserted' = inserted
  BY Zenon DEF vars, fsVars
<1>1. PinsAgree'
  BY <1>0 DEF KeptInv, PinsAgree
<1>2. (\A o \in Objs : KeptLocal(o, obj[o], inserted))'
  <2> SUFFICES ASSUME NEW x \in Objs PROVE KeptLocal(x, obj'[x], inserted')
    BY Zenon DEF KeptLocal, ManualOK, PinnedLate, CreatedOK, SlotsOK, OwnTargets, InMapLoop
  <2> QED BY Zenon, <1>0 DEF KeptInv
<1> QED BY <1>0, <1>1, <1>2 DEF KeptInv

LEMMA KeptNext == ObjectInv /\ KeptInv /\ Next => KeptInv'
<1> SUFFICES ASSUME ObjectInv, KeptInv, NEW o \in Objs,
                    \/ Setter(o) \/ PrepareStep(o) \/ LoadStep(o)
                    \/ CleanupStep(o) \/ ProgramStep(o)
             PROVE  KeptInv'
  BY DEF Next
<1>1. CASE Setter(o)
  BY SMTT(30), <1>1, set_load_strategyKept, set_autocreateKept, reuse_fdKept DEF Setter
<1>2. CASE PrepareStep(o)
  BY Zenon, <1>2, CallPrepareKept, BeforeMapsKept, SkipMapKept, StartMapKept,
     ReuseNoneKept, ReuseFoundKept, ReuseFailsKept, CreateMapKept,
     CreateFailsKept, NoPinKept, PinMapKept, PinExistsKept, PinFailsKept,
     PrepareProgsKept DEF PrepareStep
<1>3. CASE LoadStep(o)
  BY <1>3, CallLoadKept, SkipProgKept, LoadProgKept, LoadProgFailsKept,
     FinishLoadKept, FinishLoadFailsKept DEF LoadStep
<1>4. CASE CleanupStep(o)
  BY <1>4, UnpinNextKept, UnloadKept DEF CleanupStep
<1>5. CASE ProgramStep(o)
  BY <1>5, ProgramLoadKept, ProgramUnloadKept, CloseKept DEF ProgramStep
<1> QED BY <1>1, <1>2, <1>3, <1>4, <1>5

\* ObjectInv and KeptInv together are inductive.
THEOREM KeptInvariant == Spec => [](ObjectInv /\ KeptInv)
<1>1. ObjectInv /\ KeptInv /\ [Next]_vars => KeptInv'
  BY Zenon, KeptNext, KeptStutter
<1> QED BY ObjectInvariant, KeptInit, <1>1, PTL DEF Spec

\* Where an object is that has been prepared or loaded with success.
LEMMA LivePlaces ==
  ASSUME ObjectInv, NEW o \in Objs, Live(o)
  PROVE  \/ obj[o].pc = "prog" /\ obj[o].state = "PREPARED"
         \/ obj[o].pc = "idle"
<1>1. obj[o] \in ObjectRecord /\ ObjectLocal(o, obj[o])
  BY DEF ObjectInv, TypeOK
<1>2. obj[o].pc \in {"idle", "before_maps", "map", "reuse", "create", "pin",
                     "prog", "unpin"}
  BY <1>1 DEF ObjectRecord
<1> QED BY <1>1, <1>2 DEF Live, ObjectLocal, OkOnTheWay, Undone

\* Two processes that race to create and pin the same map (EEXIST and one
\* retry in bpf_object__create_maps) end up with the same kernel map.
THEOREM PinRaceAgrees == Spec => []AgreeOnPinned
<1>1. ObjectInv /\ KeptInv => AgreeOnPinned
  <2> SUFFICES ASSUME KeptInv, NEW a \in Objs, NEW b \in Objs, NEW m \in Maps,
                      Live(a), Live(b), obj[a].pinned[m], obj[b].pinned[m],
                      \A o \in Objs : obj[o].ok,
                      \A o \in {a, b} : obj[o].fd[m] # <<User, m, 1>>
               PROVE  obj[a].fd[m] = obj[b].fd[m]
    BY SMTT(30), ZenonT(60) DEF AgreeOnPinned
  <2>1. ASSUME NEW o \in {a, b} PROVE obj[o].fd[m] = pins[PinPath[m]]
    BY Zenon, <2>1 DEF KeptInv, PinsAgree, Live
  <2> QED BY <2>1
<1> QED BY KeptInvariant, <1>1, PTL

\* A map-in-map that an object created holds the object's own inner maps once
\* the object is prepared (bpf_object__create_maps, init_map_in_map_slots).
THEOREM SlotsAreFilled == Spec => []SlotsFilled
<1>1. ObjectInv /\ KeptInv => SlotsFilled
  <2> SUFFICES ASSUME ObjectInv, KeptInv, NEW o \in Objs, Live(o), NEW m \in Maps,
                      obj[o].autocreate[m], ~obj[o].reused[m],
                      obj[o].creations[m] < 2, OwnTargets(obj[o], m)
               PROVE  inserted[obj[o].fd[m]] = {obj[o].fd[t] : t \in Slots[m]}
    BY DEF SlotsFilled
  <2>1. KeptLocal(o, obj[o], inserted) /\ obj[o].creations[m] \in 0 .. 2
    BY DEF KeptInv, ObjectInv, TypeOK, ObjectRecord
  <2>2. obj[o].creations[m] > 0
    BY <2>1, LivePlaces DEF KeptLocal, CreatedOK, Live
  <2>3. obj[o].creations[m] = 1
    BY <2>1, <2>2
  <2> QED BY ZenonT(30), <2>1, <2>3 DEF KeptLocal, SlotsOK, Live
<1> QED BY KeptInvariant, <1>1, PTL

\* The data a MANUAL program needs survives a successful load
\* (bpf_object_post_load_cleanup, obj->has_manual_progs).
THEOREM ManualCanLoad == Spec => []ManualDataKept
<1>1. ObjectInv /\ KeptInv => ManualDataKept
  <2> SUFFICES ASSUME ObjectInv, KeptInv, NEW o \in Objs, NEW p \in Progs,
                      Live(o), obj[o].strat[p] = "MANUAL"
               PROVE  obj[o].btf
    BY DEF ManualDataKept
  <2>1. ManualOK(obj[o])
    BY DEF KeptInv, KeptLocal
  <2> QED BY <2>1, LivePlaces DEF ManualOK, Live
<1> QED BY KeptInvariant, <1>1, PTL

==============================================================================

--------------------------- MODULE BpfObjectProofs ---------------------------
(***************************************************************************)
(* The inductive invariant ObjectInv of BpfObject and what follows from it *)
(* for any number of processes, maps and programs.                         *)
(***************************************************************************)
EXTENDS BpfObject, TLAPS

\* None of the sentinels is a kernel map.
LEMMA Sentinels ==
  /\ None \notin KMaps /\ Closed \notin KMaps /\ Placeholder \notin KMaps
  /\ Placeholder # Closed /\ None \notin Objs
BY ObjectAssumption

LEMMA UserMap == \A m \in Maps : <<User, m, 1>> \in KMaps
BY DEF KMaps

\* A step that makes r of object o and touches no pin preserves the invariant
\* if r is well typed, satisfies the local part, and has no more maps of its
\* own pinned, and no fewer maps pinned, than before.
LEMMA LocalStep ==
  ASSUME ObjectInv, NEW o \in Objs, NEW r \in ObjectRecord,
         obj' = [obj EXCEPT ![o] = r], UNCHANGED fsVars,
         r.pc \in {"reuse", "create", "pin"} => r.idx \in Maps,
         \A m \in Maps : r.pinned[m] /\ ~r.reused[m] =>
                           obj[o].pinned[m] /\ ~obj[o].reused[m],
         \A m \in Maps : obj[o].pinned[m] => r.pinned[m],
         ObjectLocal(o, r)
  PROVE  ObjectInv'
<1> USE DEF fsVars
<1>0. /\ obj \in [Objs -> ObjectRecord] /\ obj'[o] = r
      /\ \A x \in Objs : x # o => obj'[x] = obj[x]
  BY DEF ObjectInv, TypeOK
<1>1. TypeOK'
  BY <1>0 DEF ObjectInv, TypeOK, InMaps
<1>2. PinnedIsOwn'
  BY <1>0 DEF ObjectInv, PinnedIsOwn
<1>3. PinsRemembered'
  BY <1>0 DEF ObjectInv, PinsRemembered
<1>4. (\A x \in Objs : ObjectLocal(x, obj[x]))'
  <2> SUFFICES ASSUME NEW x \in Objs PROVE ObjectLocal(x, obj'[x])
    BY DEF ObjectLocal, CreationsBounded, OkOnTheWay, Progress, Undone, InMapLoop
  <2>1. CASE x = o
    BY <1>0, <2>1
  <2>2. CASE x # o
    BY <1>0, <2>2 DEF ObjectInv
  <2> QED BY Zenon, <2>1, <2>2
<1> QED BY <1>1, <1>2, <1>3, <1>4 DEF ObjectInv

LEMMA CreateMapsFailedType ==
  ASSUME NEW r \in ObjectRecord, NEW i
  PROVE  CreateMapsFailed(r, i) \in ObjectRecord
<1> DEFINE f == [m \in Maps |-> IF m < i THEN Closed ELSE r.fd[m]]
<1>1. f \in [Maps -> KMaps \cup {Placeholder, Closed}]
  BY DEF ObjectRecord
<1>2. CreateMapsFailed(r, i) =
        [r EXCEPT !.pc = "unpin", !.idx = 1, !.ok = FALSE, !.fd = f]
  BY DEF CreateMapsFailed
<1> HIDE DEF f
<1>o. PICK one \in Nat \ {0} : one = 1
  OBVIOUS
<1>3. [r EXCEPT !.pc = "unpin", !.idx = one, !.ok = FALSE, !.fd = f]
        \in ObjectRecord
  BY Zenon, <1>1 DEF ObjectRecord
<1> QED BY <1>2, <1>o, <1>3

LEMMA PostLoadCleanupType ==
  ASSUME NEW r \in ObjectRecord
  PROVE  PostLoadCleanup(r) \in ObjectRecord
<1> DEFINE b == r.btf /\ r.has_manual
<1>1. b \in BOOLEAN
  OBVIOUS
<1>2. PostLoadCleanup(r) = [r EXCEPT !.btf = b]
  BY DEF PostLoadCleanup
<1> HIDE DEF b
<1> QED BY <1>1, <1>2 DEF ObjectRecord

LEMMA FinishedType ==
  ASSUME NEW r \in ObjectRecord
  PROVE  /\ [r EXCEPT !.state = "LOADED", !.ok = TRUE, !.pc = "idle"] \in ObjectRecord
         /\ [r EXCEPT !.state = "LOADED", !.pc = "idle"] \in ObjectRecord
         /\ [r EXCEPT !.state = "CLOSED", !.btf = FALSE] \in ObjectRecord
BY ZenonT(30) DEF ObjectRecord

LEMMA LoadFailedType ==
  ASSUME NEW r \in ObjectRecord
  PROVE  LoadFailed(r) \in ObjectRecord
<1> DEFINE s == PostLoadCleanup(r)
<1>1. s \in ObjectRecord
  BY PostLoadCleanupType
<1>2. LoadFailed(r) =
        [s EXCEPT !.state = "LOADED", !.ok = FALSE, !.pc = "unpin", !.idx = 1]
  BY DEF LoadFailed
<1> HIDE DEF s
<1>o. PICK one \in Nat \ {0} : one = 1
  OBVIOUS
<1>3. [s EXCEPT !.state = "LOADED", !.ok = FALSE, !.pc = "unpin", !.idx = one]
        \in ObjectRecord
  BY Zenon, <1>1 DEF ObjectRecord
<1> QED BY <1>2, <1>o, <1>3

LEMMA AllClosedType ==
  ASSUME NEW r \in ObjectRecord
  PROVE  AllClosed(r) \in ObjectRecord
<1> DEFINE f == [m \in Maps |-> Closed]
<1> DEFINE g == [p \in Progs |-> FALSE]
<1>1. /\ f \in [Maps -> KMaps \cup {Placeholder, Closed}]
      /\ g \in [Progs -> BOOLEAN]
  OBVIOUS
<1>2. AllClosed(r) = [r EXCEPT !.fd = f, !.prog_fd = g]
  BY DEF AllClosed
<1> HIDE DEF f, g
<1> QED BY ZenonT(30), <1>1, <1>2 DEF ObjectRecord

LEMMA set_load_strategyInv ==
  ASSUME ObjectInv, NEW o \in Objs, NEW p \in Progs, set_load_strategy(o, p)
  PROVE  ObjectInv'
<1>0. obj[o] \in ObjectRecord /\ ObjectLocal(o, obj[o])
  BY DEF ObjectInv, TypeOK
<1>p. PICK s \in Strategies : obj' = [obj EXCEPT ![o].strat[p] = s]
  BY Zenon DEF set_load_strategy
<1> DEFINE r == [obj[o] EXCEPT !.strat[p] = s]
<1>1. r \in ObjectRecord
  BY SMTT(30), <1>0, <1>p DEF ObjectRecord, set_load_strategy, Idle, Strategies
<1>2. obj' = [obj EXCEPT ![o] = r]
  BY Zenon, <1>0, <1>p
     DEF set_load_strategy, ObjectRecord, ObjectInv, TypeOK, Idle, Strategies
<1>3. CreationsBounded(r)
  BY <1>0, <1>p
     DEF set_load_strategy, ObjectRecord, ObjectLocal, InMapLoop,
         CreationsBounded, Idle, Strategies
<1>4. OkOnTheWay(r)
  BY <1>0, <1>p
     DEF set_load_strategy, ObjectRecord, ObjectLocal, InMapLoop, OkOnTheWay,
         Idle, Strategies
<1>5. Progress(o, r)
  BY <1>0, <1>p
     DEF set_load_strategy, ObjectRecord, ObjectLocal, InMapLoop, Progress,
         CreationsBounded, OkOnTheWay, Idle, Strategies
<1>6. Undone(r)
  BY <1>0, <1>p
     DEF set_load_strategy, ObjectRecord, ObjectLocal, InMapLoop, Undone,
         OkOnTheWay, Progress, Idle, Strategies
<1>7. ObjectLocal(o, r)
  BY <1>3, <1>4, <1>5, <1>6 DEF ObjectLocal
<1>8. /\ r.pc \in {"reuse", "create", "pin"} => r.idx \in Maps
      /\ \A k \in Maps : r.pinned[k] /\ ~r.reused[k] =>
                          obj[o].pinned[k] /\ ~obj[o].reused[k]
      /\ \A k \in Maps : obj[o].pinned[k] => r.pinned[k]
  BY <1>0, <1>p DEF set_load_strategy, ObjectRecord, Idle, Strategies
<1> HIDE DEF r
<1> QED
  BY Zenon, <1>1, <1>2, <1>7, <1>8, LocalStep DEF set_load_strategy

LEMMA set_autocreateInv ==
  ASSUME ObjectInv, NEW o \in Objs, NEW m \in Maps, set_autocreate(o, m)
  PROVE  ObjectInv'
<1>0. obj[o] \in ObjectRecord /\ ObjectLocal(o, obj[o])
  BY DEF ObjectInv, TypeOK
<1> DEFINE r == [obj[o] EXCEPT !.autocreate[m] = ~@]
<1>1. r \in ObjectRecord
  BY Zenon, <1>0 DEF ObjectRecord, set_autocreate, Idle, map_is_created
<1>2. obj' = [obj EXCEPT ![o] = r]
  BY <1>0 DEF set_autocreate, ObjectRecord, ObjectInv, TypeOK, Idle, map_is_created
<1>3. CreationsBounded(r)
  BY <1>0
     DEF set_autocreate, ObjectRecord, ObjectLocal, InMapLoop, CreationsBounded,
         Idle, map_is_created
<1>4. OkOnTheWay(r)
  BY <1>0
     DEF set_autocreate, ObjectRecord, ObjectLocal, InMapLoop, OkOnTheWay, Idle,
         map_is_created
<1>5. Progress(o, r)
  BY <1>0
     DEF set_autocreate, ObjectRecord, ObjectLocal, InMapLoop, Progress,
         CreationsBounded, OkOnTheWay, Idle, map_is_created
<1>6. Undone(r)
  BY <1>0
     DEF set_autocreate, ObjectRecord, ObjectLocal, InMapLoop, Undone,
         OkOnTheWay, Progress, Idle, map_is_created
<1>7. ObjectLocal(o, r)
  BY <1>3, <1>4, <1>5, <1>6 DEF ObjectLocal
<1>8. /\ r.pc \in {"reuse", "create", "pin"} => r.idx \in Maps
      /\ \A k \in Maps : r.pinned[k] /\ ~r.reused[k] =>
                          obj[o].pinned[k] /\ ~obj[o].reused[k]
      /\ \A k \in Maps : obj[o].pinned[k] => r.pinned[k]
  BY <1>0 DEF set_autocreate, ObjectRecord, Idle, map_is_created
<1> HIDE DEF r
<1> QED
  BY Zenon, <1>1, <1>2, <1>7, <1>8, LocalStep DEF set_autocreate

LEMMA reuse_fdInv ==
  ASSUME ObjectInv, NEW o \in Objs, NEW m \in Maps, reuse_fd(o, m)
  PROVE  ObjectInv'
<1>0. obj[o] \in ObjectRecord /\ ObjectLocal(o, obj[o])
  BY DEF ObjectInv, TypeOK
<1> DEFINE r == [obj[o] EXCEPT !.fd[m] = <<User, m, 1>>, !.reused[m] = TRUE]
<1>1. r \in ObjectRecord
  BY Zenon, <1>0, UserMap DEF ObjectRecord
<1>2. obj' = [obj EXCEPT ![o] = r]
  BY Zenon, <1>0 DEF reuse_fd, ObjectRecord, ObjectInv, TypeOK, Idle
<1>3. CreationsBounded(r)
  BY <1>0, UserMap, Sentinels
     DEF reuse_fd, ObjectRecord, ObjectLocal, InMapLoop, CreationsBounded, Idle
<1>4. OkOnTheWay(r)
  BY <1>0, UserMap, Sentinels
     DEF reuse_fd, ObjectRecord, ObjectLocal, InMapLoop, OkOnTheWay, Idle
<1>5. Progress(o, r)
  BY <1>0, UserMap, Sentinels
     DEF reuse_fd, ObjectRecord, ObjectLocal, InMapLoop, Progress,
         CreationsBounded, OkOnTheWay, Idle
<1>6. Undone(r)
  BY <1>0, UserMap, Sentinels
     DEF reuse_fd, ObjectRecord, ObjectLocal, InMapLoop, Undone, OkOnTheWay,
         Progress, Idle
<1>7. ObjectLocal(o, r)
  BY <1>3, <1>4, <1>5, <1>6 DEF ObjectLocal
<1>8. /\ r.pc \in {"reuse", "create", "pin"} => r.idx \in Maps
      /\ \A k \in Maps : r.pinned[k] /\ ~r.reused[k] =>
                          obj[o].pinned[k] /\ ~obj[o].reused[k]
      /\ \A k \in Maps : obj[o].pinned[k] => r.pinned[k]
  BY <1>0, UserMap, Sentinels DEF reuse_fd, ObjectRecord, Idle
<1> HIDE DEF r
<1> QED
  BY Zenon, <1>1, <1>2, <1>7, <1>8, LocalStep DEF reuse_fd

LEMMA CallPrepareInv ==
  ASSUME ObjectInv, NEW o \in Objs, CallPrepare(o)
  PROVE  ObjectInv'
<1>0. obj[o] \in ObjectRecord /\ ObjectLocal(o, obj[o])
  BY DEF ObjectInv, TypeOK
<1> DEFINE r == [obj[o] EXCEPT !.pc = "before_maps", !.goal = "prepare"]
<1>1. r \in ObjectRecord
  BY Zenon, <1>0 DEF ObjectRecord, CallPrepare, Idle
<1>2. obj' = [obj EXCEPT ![o] = r]
  BY Zenon, <1>0 DEF CallPrepare, ObjectRecord, ObjectInv, TypeOK, Idle
<1>3. CreationsBounded(r)
  BY <1>0
     DEF CallPrepare, ObjectRecord, ObjectLocal, InMapLoop, CreationsBounded,
         Idle
<1>4. OkOnTheWay(r)
  BY <1>0 DEF CallPrepare, ObjectRecord, ObjectLocal, InMapLoop, OkOnTheWay, Idle
<1>5. Progress(o, r)
  BY <1>0
     DEF CallPrepare, ObjectRecord, ObjectLocal, InMapLoop, Progress,
         CreationsBounded, OkOnTheWay, Idle
<1>6. Undone(r)
  BY <1>0
     DEF CallPrepare, ObjectRecord, ObjectLocal, InMapLoop, Undone, OkOnTheWay,
         Progress, Idle
<1>7. ObjectLocal(o, r)
  BY <1>3, <1>4, <1>5, <1>6 DEF ObjectLocal
<1>8. /\ r.pc \in {"reuse", "create", "pin"} => r.idx \in Maps
      /\ \A k \in Maps : r.pinned[k] /\ ~r.reused[k] =>
                          obj[o].pinned[k] /\ ~obj[o].reused[k]
      /\ \A k \in Maps : obj[o].pinned[k] => r.pinned[k]
  BY <1>0 DEF CallPrepare, ObjectRecord, Idle
<1> HIDE DEF r
<1> QED
  BY Zenon, <1>1, <1>2, <1>7, <1>8, LocalStep DEF CallPrepare

LEMMA BeforeMapsInv ==
  ASSUME ObjectInv, NEW o \in Objs, BeforeMaps(o)
  PROVE  ObjectInv'
<1>0. obj[o] \in ObjectRecord /\ ObjectLocal(o, obj[o])
  BY DEF ObjectInv, TypeOK
<1>o. PICK one \in Nat \ {0} : one = 1
  OBVIOUS
<1>p. PICK rel \in BOOLEAN, done \in BOOLEAN :
        obj' = [obj EXCEPT ![o].relocated = rel, ![o].btf = TRUE,
                           ![o].idx = 1, ![o].ok = done,
                           ![o].pc = IF done THEN "map" ELSE "unpin"]
  BY Zenon DEF BeforeMaps
<1>b. rel \in BOOLEAN
  OBVIOUS
<1>c1. CASE done
  <2> DEFINE r == [obj[o] EXCEPT !.relocated = rel, !.btf = TRUE, !.idx = one,
                                  !.ok = TRUE, !.pc = "map"]
  <2>1. r \in ObjectRecord
    BY Zenon, <1>0, <1>b DEF ObjectRecord
  <2>2. obj' = [obj EXCEPT ![o] = r]
    BY SMTT(30), <1>0, <1>o, <1>p, <1>c1
       DEF BeforeMaps, ObjectRecord, ObjectInv, TypeOK, At, Maps
  <2>3. CreationsBounded(r)
    BY Zenon, <1>0, <1>o, <1>p, <1>c1, ObjectAssumption
       DEF BeforeMaps, ObjectRecord, ObjectLocal, InMapLoop, CreationsBounded,
           At, Maps
  <2>4. OkOnTheWay(r)
    BY <1>0, <1>o, <1>p, <1>c1, ObjectAssumption
       DEF BeforeMaps, ObjectRecord, ObjectLocal, InMapLoop, OkOnTheWay, At,
           Maps
  <2>5. Progress(o, r)
    BY <1>0, <1>o, <1>p, <1>c1, ObjectAssumption
       DEF BeforeMaps, ObjectRecord, ObjectLocal, InMapLoop, Progress,
           CreationsBounded, OkOnTheWay, At, Maps
  <2>6. Undone(r)
    BY <1>0, <1>o, <1>p, <1>c1, ObjectAssumption
       DEF BeforeMaps, ObjectRecord, ObjectLocal, InMapLoop, Undone, OkOnTheWay,
           Progress, At, Maps
  <2>7. ObjectLocal(o, r)
    BY <2>3, <2>4, <2>5, <2>6 DEF ObjectLocal
  <2>8. /\ r.pc \in {"reuse", "create", "pin"} => r.idx \in Maps
        /\ \A k \in Maps : r.pinned[k] /\ ~r.reused[k] =>
                            obj[o].pinned[k] /\ ~obj[o].reused[k]
        /\ \A k \in Maps : obj[o].pinned[k] => r.pinned[k]
    BY <1>0, <1>o, <1>p, <1>c1 DEF BeforeMaps, ObjectRecord, At
  <2> HIDE DEF r
  <2> QED
    BY Zenon, <2>1, <2>2, <2>7, <2>8, LocalStep DEF BeforeMaps
<1>c2. CASE ~done
  <2> DEFINE r == [obj[o] EXCEPT !.relocated = rel, !.btf = TRUE, !.idx = one,
                                  !.ok = FALSE, !.pc = "unpin"]
  <2>1. r \in ObjectRecord
    BY Zenon, <1>0, <1>b DEF ObjectRecord
  <2>2. obj' = [obj EXCEPT ![o] = r]
    BY <1>0, <1>o, <1>p, <1>c2
       DEF BeforeMaps, ObjectRecord, ObjectInv, TypeOK, At, Maps
  <2>3. CreationsBounded(r)
    BY <1>0, <1>o, <1>p, <1>c2, ObjectAssumption
       DEF BeforeMaps, ObjectRecord, ObjectLocal, InMapLoop, CreationsBounded,
           At, Maps
  <2>4. OkOnTheWay(r)
    BY <1>0, <1>o, <1>p, <1>c2, ObjectAssumption
       DEF BeforeMaps, ObjectRecord, ObjectLocal, InMapLoop, OkOnTheWay, At,
           Maps
  <2>5. Progress(o, r)
    BY <1>0, <1>o, <1>p, <1>c2, ObjectAssumption
       DEF BeforeMaps, ObjectRecord, ObjectLocal, InMapLoop, Progress,
           CreationsBounded, OkOnTheWay, At, Maps
  <2>6. Undone(r)
    BY <1>0, <1>o, <1>p, <1>c2, ObjectAssumption
       DEF BeforeMaps, ObjectRecord, ObjectLocal, InMapLoop, Undone, OkOnTheWay,
           Progress, At, Maps
  <2>7. ObjectLocal(o, r)
    BY <2>3, <2>4, <2>5, <2>6 DEF ObjectLocal
  <2>8. /\ r.pc \in {"reuse", "create", "pin"} => r.idx \in Maps
        /\ \A k \in Maps : r.pinned[k] /\ ~r.reused[k] =>
                            obj[o].pinned[k] /\ ~obj[o].reused[k]
        /\ \A k \in Maps : obj[o].pinned[k] => r.pinned[k]
    BY <1>0, <1>o, <1>p, <1>c2 DEF BeforeMaps, ObjectRecord, At
  <2> HIDE DEF r
  <2> QED
    BY Zenon, <2>1, <2>2, <2>7, <2>8, LocalStep DEF BeforeMaps
<1> QED
  BY <1>0, <1>o, <1>p, <1>c1, <1>c2 DEF BeforeMaps, At, Maps

LEMMA SkipMapInv ==
  ASSUME ObjectInv, NEW o \in Objs, SkipMap(o)
  PROVE  ObjectInv'
<1>0. obj[o] \in ObjectRecord /\ ObjectLocal(o, obj[o])
  BY DEF ObjectInv, TypeOK
<1> DEFINE r == [obj[o] EXCEPT !.idx = @ + 1]
<1>1. r \in ObjectRecord
  BY <1>0 DEF ObjectRecord, SkipMap, At, InMaps, CurMap
<1>2. obj' = [obj EXCEPT ![o] = r]
  BY <1>0 DEF SkipMap, ObjectRecord, ObjectInv, TypeOK, At, InMaps, CurMap, Maps
<1>3. CreationsBounded(r)
  BY <1>0, ObjectAssumption
     DEF SkipMap, ObjectRecord, ObjectLocal, InMapLoop, CreationsBounded, At,
         InMaps, CurMap, Maps
<1>4. OkOnTheWay(r)
  BY <1>0, ObjectAssumption
     DEF SkipMap, ObjectRecord, ObjectLocal, InMapLoop, OkOnTheWay, At, InMaps,
         CurMap, Maps
<1>5. Progress(o, r)
  BY <1>0, ObjectAssumption
     DEF SkipMap, ObjectRecord, ObjectLocal, InMapLoop, Progress,
         CreationsBounded, OkOnTheWay, At, InMaps, CurMap, Maps
<1>6. Undone(r)
  BY <1>0, ObjectAssumption
     DEF SkipMap, ObjectRecord, ObjectLocal, InMapLoop, Undone, OkOnTheWay,
         Progress, At, InMaps, CurMap, Maps
<1>7. ObjectLocal(o, r)
  BY <1>3, <1>4, <1>5, <1>6 DEF ObjectLocal
<1>8. /\ r.pc \in {"reuse", "create", "pin"} => r.idx \in Maps
      /\ \A k \in Maps : r.pinned[k] /\ ~r.reused[k] =>
                          obj[o].pinned[k] /\ ~obj[o].reused[k]
      /\ \A k \in Maps : obj[o].pinned[k] => r.pinned[k]
  BY <1>0, ObjectAssumption DEF SkipMap, ObjectRecord, At, InMaps, CurMap
<1> HIDE DEF r
<1> QED
  BY Zenon, <1>1, <1>2, <1>7, <1>8, LocalStep DEF SkipMap

LEMMA StartMapInv ==
  ASSUME ObjectInv, NEW o \in Objs, StartMap(o)
  PROVE  ObjectInv'
<1>0. obj[o] \in ObjectRecord /\ ObjectLocal(o, obj[o])
  BY DEF ObjectInv, TypeOK
<1> DEFINE r == [obj[o] EXCEPT !.retried = FALSE, !.pc = "reuse"]
<1>1. r \in ObjectRecord
  BY Zenon, <1>0 DEF ObjectRecord, StartMap, At, InMaps, CurMap
<1>2. obj' = [obj EXCEPT ![o] = r]
  BY <1>0 DEF StartMap, ObjectRecord, ObjectInv, TypeOK, At, InMaps, CurMap
<1>3. CreationsBounded(r)
  BY <1>0
     DEF StartMap, ObjectRecord, ObjectLocal, InMapLoop, CreationsBounded, At,
         InMaps, CurMap
<1>4. OkOnTheWay(r)
  BY <1>0
     DEF StartMap, ObjectRecord, ObjectLocal, InMapLoop, OkOnTheWay, At, InMaps,
         CurMap
<1>5. Progress(o, r)
  BY <1>0
     DEF StartMap, ObjectRecord, ObjectLocal, InMapLoop, Progress,
         CreationsBounded, OkOnTheWay, At, InMaps, CurMap
<1>6. Undone(r)
  BY <1>0
     DEF StartMap, ObjectRecord, ObjectLocal, InMapLoop, Undone, OkOnTheWay,
         Progress, At, InMaps, CurMap
<1>7. ObjectLocal(o, r)
  BY <1>3, <1>4, <1>5, <1>6 DEF ObjectLocal
<1>8. /\ r.pc \in {"reuse", "create", "pin"} => r.idx \in Maps
      /\ \A k \in Maps : r.pinned[k] /\ ~r.reused[k] =>
                          obj[o].pinned[k] /\ ~obj[o].reused[k]
      /\ \A k \in Maps : obj[o].pinned[k] => r.pinned[k]
  BY <1>0 DEF StartMap, ObjectRecord, At, InMaps, CurMap
<1> HIDE DEF r
<1> QED
  BY Zenon, <1>1, <1>2, <1>7, <1>8, LocalStep DEF StartMap

LEMMA ReuseNoneInv ==
  ASSUME ObjectInv, NEW o \in Objs, ReuseNone(o)
  PROVE  ObjectInv'
<1>0. obj[o] \in ObjectRecord /\ ObjectLocal(o, obj[o])
  BY DEF ObjectInv, TypeOK
<1>c1. CASE obj[o].reused[obj[o].idx]
  <2> DEFINE r == [obj[o] EXCEPT !.pc = "pin"]
  <2>1. r \in ObjectRecord
    BY Zenon, <1>0, <1>c1
       DEF ObjectRecord, ReuseNone, At, InMaps, CurMap, AfterReuse, TypeOK,
           ObjectInv
  <2>2. obj' = [obj EXCEPT ![o] = r]
    BY <1>0, <1>c1
       DEF ReuseNone, ObjectRecord, ObjectInv, TypeOK, At, InMaps, CurMap,
           AfterReuse, TypeOK, ObjectInv
  <2>3. CreationsBounded(r)
    BY <1>0, <1>c1
       DEF ReuseNone, ObjectRecord, ObjectLocal, InMapLoop, CreationsBounded,
           At, InMaps, CurMap, AfterReuse, TypeOK, ObjectInv
  <2>4. OkOnTheWay(r)
    BY SMTT(30), <1>0, <1>c1
       DEF ReuseNone, ObjectRecord, ObjectLocal, InMapLoop, OkOnTheWay, At,
           InMaps, CurMap, AfterReuse, TypeOK, ObjectInv
  <2>5. Progress(o, r)
    BY SMTT(30), <1>0, <1>c1
       DEF ReuseNone, ObjectRecord, ObjectLocal, InMapLoop, Progress,
           CreationsBounded, OkOnTheWay, At, InMaps, CurMap, AfterReuse, TypeOK,
           ObjectInv
  <2>6. Undone(r)
    BY <1>0, <1>c1
       DEF ReuseNone, ObjectRecord, ObjectLocal, InMapLoop, Undone, OkOnTheWay,
           Progress, At, InMaps, CurMap, AfterReuse, TypeOK, ObjectInv
  <2>7. ObjectLocal(o, r)
    BY <2>3, <2>4, <2>5, <2>6 DEF ObjectLocal
  <2>8. /\ r.pc \in {"reuse", "create", "pin"} => r.idx \in Maps
        /\ \A k \in Maps : r.pinned[k] /\ ~r.reused[k] =>
                            obj[o].pinned[k] /\ ~obj[o].reused[k]
        /\ \A k \in Maps : obj[o].pinned[k] => r.pinned[k]
    BY <1>0, <1>c1
       DEF ReuseNone, ObjectRecord, At, InMaps, CurMap, AfterReuse, TypeOK,
           ObjectInv
  <2> HIDE DEF r
  <2> QED
    BY Zenon, <2>1, <2>2, <2>7, <2>8, LocalStep DEF ReuseNone
<1>c2. CASE ~obj[o].reused[obj[o].idx]
  <2> DEFINE r == [obj[o] EXCEPT !.pc = "create"]
  <2>1. r \in ObjectRecord
    BY ZenonT(30), <1>0, <1>c2
       DEF ObjectRecord, ReuseNone, At, InMaps, CurMap, AfterReuse, TypeOK,
           ObjectInv
  <2>2. obj' = [obj EXCEPT ![o] = r]
    BY <1>0, <1>c2
       DEF ReuseNone, ObjectRecord, ObjectInv, TypeOK, At, InMaps, CurMap,
           AfterReuse, TypeOK, ObjectInv
  <2>3. CreationsBounded(r)
    BY <1>0, <1>c2
       DEF ReuseNone, ObjectRecord, ObjectLocal, InMapLoop, CreationsBounded,
           At, InMaps, CurMap, AfterReuse, TypeOK, ObjectInv
  <2>4. OkOnTheWay(r)
    BY <1>0, <1>c2
       DEF ReuseNone, ObjectRecord, ObjectLocal, InMapLoop, OkOnTheWay, At,
           InMaps, CurMap, AfterReuse, TypeOK, ObjectInv
  <2>5. Progress(o, r)
    BY <1>0, <1>c2
       DEF ReuseNone, ObjectRecord, ObjectLocal, InMapLoop, Progress,
           CreationsBounded, OkOnTheWay, At, InMaps, CurMap, AfterReuse, TypeOK,
           ObjectInv
  <2>6. Undone(r)
    BY <1>0, <1>c2
       DEF ReuseNone, ObjectRecord, ObjectLocal, InMapLoop, Undone, OkOnTheWay,
           Progress, At, InMaps, CurMap, AfterReuse, TypeOK, ObjectInv
  <2>7. ObjectLocal(o, r)
    BY <2>3, <2>4, <2>5, <2>6 DEF ObjectLocal
  <2>8. /\ r.pc \in {"reuse", "create", "pin"} => r.idx \in Maps
        /\ \A k \in Maps : r.pinned[k] /\ ~r.reused[k] =>
                            obj[o].pinned[k] /\ ~obj[o].reused[k]
        /\ \A k \in Maps : obj[o].pinned[k] => r.pinned[k]
    BY SMTT(30), <1>0, <1>c2
       DEF ReuseNone, ObjectRecord, At, InMaps, CurMap, AfterReuse, TypeOK,
           ObjectInv
  <2> HIDE DEF r
  <2> QED
    BY Zenon, <2>1, <2>2, <2>7, <2>8, LocalStep DEF ReuseNone
<1> QED
  BY <1>0, <1>c1, <1>c2
     DEF ReuseNone, At, InMaps, CurMap, AfterReuse, TypeOK, ObjectInv

LEMMA ReuseFoundInv ==
  ASSUME ObjectInv, NEW o \in Objs, ReuseFound(o)
  PROVE  ObjectInv'
<1>0. obj[o] \in ObjectRecord /\ ObjectLocal(o, obj[o])
  BY DEF ObjectInv, TypeOK
<1>p. obj[o].idx \in Maps /\ pins[PinPath[obj[o].idx]] \in KMaps
  BY ZenonT(40) DEF ReuseFound, ObjectInv, TypeOK, At, CurMap, InMaps, PinnedAt, Paths
<1> DEFINE r == [obj[o] EXCEPT !.fd[obj[o].idx] = pins[PinPath[obj[o].idx]],
                              !.reused[obj[o].idx] = TRUE,
                              !.pinned[obj[o].idx] = TRUE, !.pc = "pin"]
<1>1. r \in ObjectRecord
  BY ZenonT(30), <1>0, <1>p DEF ObjectRecord, ReuseFound, At, CurMap
<1>2. obj' = [obj EXCEPT ![o] = r]
  BY Zenon, <1>0, <1>p DEF ReuseFound, ObjectRecord, ObjectInv, TypeOK, At, CurMap
<1>3. CreationsBounded(r)
  BY <1>0, <1>p
     DEF ReuseFound, ObjectRecord, ObjectLocal, InMapLoop, CreationsBounded, At,
         CurMap
<1>4. OkOnTheWay(r)
  BY <1>0, <1>p
     DEF ReuseFound, ObjectRecord, ObjectLocal, InMapLoop, OkOnTheWay, At,
         CurMap
<1>5. Progress(o, r)
  BY ZenonT(40), <1>0, <1>p
     DEF ReuseFound, ObjectRecord, ObjectLocal, InMapLoop, Progress,
         CreationsBounded, OkOnTheWay, At, CurMap
<1>6. Undone(r)
  BY <1>0, <1>p
     DEF ReuseFound, ObjectRecord, ObjectLocal, InMapLoop, Undone, OkOnTheWay,
         Progress, At, CurMap
<1>7. ObjectLocal(o, r)
  BY SMTT(30), <1>3, <1>4, <1>5, <1>6 DEF ObjectLocal
<1>8. /\ r.pc \in {"reuse", "create", "pin"} => r.idx \in Maps
      /\ \A k \in Maps : r.pinned[k] /\ ~r.reused[k] =>
                          obj[o].pinned[k] /\ ~obj[o].reused[k]
      /\ \A k \in Maps : obj[o].pinned[k] => r.pinned[k]
  BY <1>0, <1>p DEF ReuseFound, ObjectRecord, At, CurMap
<1> HIDE DEF r
<1> QED
  BY Zenon, <1>1, <1>2, <1>7, <1>8, LocalStep DEF ReuseFound

LEMMA ReuseFailsInv ==
  ASSUME ObjectInv, NEW o \in Objs, ReuseFails(o)
  PROVE  ObjectInv'
<1>0. obj[o] \in ObjectRecord /\ ObjectLocal(o, obj[o])
  BY DEF ObjectInv, TypeOK
<1>p. obj[o].idx \in Maps
  BY DEF ReuseFails, ObjectInv, TypeOK, At, CurMap, InMaps, MustPin
<1> DEFINE r == CreateMapsFailed(obj[o], obj[o].idx)
<1>1. r \in ObjectRecord
  BY <1>0, CreateMapsFailedType
<1>2. obj' = [obj EXCEPT ![o] = r]
  BY <1>0, <1>p
     DEF ReuseFails, ObjectRecord, ObjectInv, TypeOK, At, CurMap, Maps,
         CreateMapsFailed
<1>3. CreationsBounded(r)
  BY <1>0, <1>p, ObjectAssumption
     DEF ReuseFails, ObjectRecord, ObjectLocal, InMapLoop, CreationsBounded, At,
         CurMap, Maps, CreateMapsFailed
<1>4. OkOnTheWay(r)
  BY <1>0, <1>p, ObjectAssumption
     DEF ReuseFails, ObjectRecord, ObjectLocal, InMapLoop, OkOnTheWay, At,
         CurMap, Maps, CreateMapsFailed
<1>5. Progress(o, r)
  BY <1>0, <1>p, ObjectAssumption
     DEF ReuseFails, ObjectRecord, ObjectLocal, InMapLoop, Progress,
         CreationsBounded, OkOnTheWay, At, CurMap, Maps, CreateMapsFailed
<1>6. Undone(r)
  BY <1>0, <1>p, ObjectAssumption
     DEF ReuseFails, ObjectRecord, ObjectLocal, InMapLoop, Undone, OkOnTheWay,
         Progress, At, CurMap, Maps, CreateMapsFailed
<1>7. ObjectLocal(o, r)
  BY <1>3, <1>4, <1>5, <1>6 DEF ObjectLocal
<1>8. /\ r.pc \in {"reuse", "create", "pin"} => r.idx \in Maps
      /\ \A k \in Maps : r.pinned[k] /\ ~r.reused[k] =>
                          obj[o].pinned[k] /\ ~obj[o].reused[k]
      /\ \A k \in Maps : obj[o].pinned[k] => r.pinned[k]
  BY SMTT(30), <1>0, <1>p DEF ReuseFails, ObjectRecord, At, CurMap, CreateMapsFailed
<1> HIDE DEF r
<1> QED
  BY Zenon, <1>1, <1>2, <1>7, <1>8, LocalStep DEF ReuseFails

LEMMA CreateMapInv ==
  ASSUME ObjectInv, NEW o \in Objs, CreateMap(o)
  PROVE  ObjectInv'
<1>0. obj[o] \in ObjectRecord /\ ObjectLocal(o, obj[o])
  BY DEF ObjectInv, TypeOK
<1>m. obj[o].idx \in Maps
  BY DEF CreateMap, ObjectInv, TypeOK, At, CurMap, InMaps
<1>n. obj[o].creations[obj[o].idx] \in {0, 1}
  BY <1>0, <1>m DEF CreateMap, At, ObjectLocal, CreationsBounded, ObjectRecord
<1>p. /\ obj[o].idx \in Maps /\ obj[o].creations[obj[o].idx] \in {0, 1}
      /\ obj[o].creations[obj[o].idx] + 1 \in 0 .. 2
      /\ Fresh(o) = <<o, obj[o].idx, obj[o].creations[obj[o].idx] + 1>>
      /\ Fresh(o) \in KMaps
      /\ \E n \in {1, 2} : Fresh(o) = <<o, obj[o].idx, n>>
  BY <1>m, <1>n DEF Fresh, CurMap, KMaps
<1> DEFINE r == [obj[o] EXCEPT !.fd[obj[o].idx] = Fresh(o),
                              !.creations[obj[o].idx] = @ + 1,
                              !.init_slots[obj[o].idx] = FALSE, !.pc = "pin"]
<1>1. r \in ObjectRecord
  BY ZenonT(30), <1>0, <1>p DEF ObjectRecord, CreateMap, At, CurMap
<1>2. obj' = [obj EXCEPT ![o] = r]
  BY SMTT(30), <1>0, <1>p DEF CreateMap, ObjectRecord, ObjectInv, TypeOK, At, CurMap
<1>3. CreationsBounded(r)
  BY SMTT(30), <1>0, <1>p, Sentinels
     DEF CreateMap, ObjectRecord, ObjectLocal, InMapLoop, CreationsBounded, At,
         CurMap
<1>4. OkOnTheWay(r)
  BY <1>0, <1>p, Sentinels
     DEF CreateMap, ObjectRecord, ObjectLocal, InMapLoop, OkOnTheWay, At, CurMap
<1>5. Progress(o, r)
  BY ZenonT(40), <1>0, <1>p, Sentinels
     DEF CreateMap, ObjectRecord, ObjectLocal, InMapLoop, Progress,
         CreationsBounded, OkOnTheWay, At, CurMap
<1>6. Undone(r)
  BY <1>0, <1>p, Sentinels
     DEF CreateMap, ObjectRecord, ObjectLocal, InMapLoop, Undone, OkOnTheWay,
         Progress, At, CurMap
<1>7. ObjectLocal(o, r)
  BY <1>3, <1>4, <1>5, <1>6 DEF ObjectLocal
<1>8. /\ r.pc \in {"reuse", "create", "pin"} => r.idx \in Maps
      /\ \A k \in Maps : r.pinned[k] /\ ~r.reused[k] =>
                          obj[o].pinned[k] /\ ~obj[o].reused[k]
      /\ \A k \in Maps : obj[o].pinned[k] => r.pinned[k]
  BY <1>0, <1>p, Sentinels DEF CreateMap, ObjectRecord, At, CurMap
<1> HIDE DEF r
<1> QED
  BY Zenon, <1>1, <1>2, <1>7, <1>8, LocalStep DEF CreateMap

LEMMA CreateFailsInv ==
  ASSUME ObjectInv, NEW o \in Objs, CreateFails(o)
  PROVE  ObjectInv'
<1>0. obj[o] \in ObjectRecord /\ ObjectLocal(o, obj[o])
  BY DEF ObjectInv, TypeOK
<1>m. obj[o].idx \in Maps
  BY DEF CreateFails, ObjectInv, TypeOK, At, CurMap, InMaps
<1>n. obj[o].fd[obj[o].idx] \in KMaps \cup {Placeholder, Closed}
  BY <1>0, <1>m DEF ObjectRecord
<1>f. InnerGone(o) \/ Fresh(o) \in KMaps
  <2>1. obj[o].creations[obj[o].idx] \in {0, 1}
    BY <1>0, <1>m DEF CreateFails, At, ObjectLocal, CreationsBounded, ObjectRecord
  <2> QED BY <1>m, <2>1 DEF Fresh, CurMap, KMaps
<1>q. PICK fd \in {obj[o].fd[obj[o].idx]} \cup (IF InnerGone(o) THEN {} ELSE {Fresh(o)}),
           closeEarlier \in BOOLEAN :
        obj' = [obj EXCEPT ![o] = CreateMapsFailed(
                  [@ EXCEPT !.fd[obj[o].idx] = fd],
                  IF closeEarlier THEN obj[o].idx ELSE 1)]
  BY Zenon DEF CreateFails, CurMap
<1> DEFINE s == [obj[o] EXCEPT !.fd[obj[o].idx] = fd]
<1> DEFINE i == IF closeEarlier THEN obj[o].idx ELSE 1
<1>p. obj' = [obj EXCEPT ![o] = CreateMapsFailed(s, i)]
  BY <1>q DEF ObjectInv, TypeOK
<1>t. fd \in KMaps \cup {Placeholder, Closed}
  BY <1>n, <1>f, <1>q
<1>s. s \in ObjectRecord
  BY SMTT(30), <1>0, <1>m, <1>t DEF ObjectRecord
<1> DEFINE r == CreateMapsFailed(s, i)
<1>1. r \in ObjectRecord
  BY <1>s, CreateMapsFailedType
<1>2. obj' = [obj EXCEPT ![o] = r]
  BY ZenonT(40), <1>0, <1>p
     DEF CreateFails, ObjectRecord, ObjectInv, TypeOK, At, CurMap, Maps,
         CreateMapsFailed
<1>e. /\ r.pc = "unpin" /\ r.idx = 1 /\ r.ok = FALSE
      /\ r.state = obj[o].state /\ r.creations = obj[o].creations
      /\ r.pinned = obj[o].pinned /\ r.reused = obj[o].reused
  BY <1>0, <1>s DEF CreateMapsFailed, ObjectRecord
<1>g. obj[o].state = "OPEN" /\ CreationsBounded(obj[o])
  BY <1>0 DEF CreateFails, At, ObjectLocal, OkOnTheWay, InMapLoop
<1> HIDE DEF r
<1>3. CreationsBounded(r)
  BY <1>e, <1>g DEF CreationsBounded, InMapLoop
<1>4. OkOnTheWay(r)
  BY <1>e, <1>g DEF OkOnTheWay, InMapLoop
<1>5. Progress(o, r)
  BY <1>e, <1>g DEF Progress, InMapLoop
<1>6. Undone(r)
  BY <1>e, <1>g DEF Undone, Maps
<1>7. ObjectLocal(o, r)
  BY <1>3, <1>4, <1>5, <1>6 DEF ObjectLocal
<1>8. /\ r.pc \in {"reuse", "create", "pin"} => r.idx \in Maps
      /\ \A k \in Maps : r.pinned[k] /\ ~r.reused[k] =>
                          obj[o].pinned[k] /\ ~obj[o].reused[k]
      /\ \A k \in Maps : obj[o].pinned[k] => r.pinned[k]
  BY <1>e
<1> QED
  BY Zenon, <1>1, <1>2, <1>7, <1>8, LocalStep DEF CreateFails

LEMMA NoPinInv ==
  ASSUME ObjectInv, NEW o \in Objs, NoPin(o)
  PROVE  ObjectInv'
<1>0. obj[o] \in ObjectRecord /\ ObjectLocal(o, obj[o])
  BY DEF ObjectInv, TypeOK
<1>i. PICK i \in Nat \ {0} : i = obj[o].idx + 1
  BY <1>0 DEF ObjectRecord
<1>p. obj[o].idx \in Maps
  BY DEF NoPin, ObjectInv, TypeOK, At, CurMap, InMaps, MustPin
<1> DEFINE r == [obj[o] EXCEPT !.pc = "map", !.idx = i]
<1>1. r \in ObjectRecord
  BY Zenon, <1>0 DEF ObjectRecord
<1>2. obj' = [obj EXCEPT ![o] = r]
  BY SMTT(30), <1>0, <1>p, <1>i DEF NoPin, ObjectRecord, ObjectInv, TypeOK, At, CurMap, Maps
<1>3. CreationsBounded(r)
  BY <1>0, <1>p, ObjectAssumption, <1>i
     DEF NoPin, ObjectRecord, ObjectLocal, InMapLoop, CreationsBounded, At,
         CurMap, Maps
<1>4. OkOnTheWay(r)
  BY <1>0, <1>p, ObjectAssumption, <1>i
     DEF NoPin, ObjectRecord, ObjectLocal, InMapLoop, OkOnTheWay, At, CurMap,
         Maps
<1>5. Progress(o, r)
  BY <1>0, <1>p, ObjectAssumption, <1>i
     DEF NoPin, ObjectRecord, ObjectLocal, InMapLoop, Progress,
         CreationsBounded, OkOnTheWay, At, CurMap, Maps
<1>6. Undone(r)
  BY <1>0, <1>p, ObjectAssumption, <1>i
     DEF NoPin, ObjectRecord, ObjectLocal, InMapLoop, Undone, OkOnTheWay,
         Progress, At, CurMap, Maps
<1>7. ObjectLocal(o, r)
  BY <1>3, <1>4, <1>5, <1>6 DEF ObjectLocal
<1>8. /\ r.pc \in {"reuse", "create", "pin"} => r.idx \in Maps
      /\ \A k \in Maps : r.pinned[k] /\ ~r.reused[k] =>
                          obj[o].pinned[k] /\ ~obj[o].reused[k]
      /\ \A k \in Maps : obj[o].pinned[k] => r.pinned[k]
  BY <1>0, <1>p, <1>i DEF NoPin, ObjectRecord, At, CurMap
<1> HIDE DEF r
<1> QED
  BY Zenon, <1>1, <1>2, <1>7, <1>8, LocalStep DEF NoPin

LEMMA PinExistsInv ==
  ASSUME ObjectInv, NEW o \in Objs, PinExists(o)
  PROVE  ObjectInv'
<1>0. obj[o] \in ObjectRecord /\ ObjectLocal(o, obj[o])
  BY DEF ObjectInv, TypeOK
<1>p. obj[o].idx \in Maps
  BY DEF PinExists, ObjectInv, TypeOK, At, CurMap, InMaps, MustPin
<1>c1. CASE obj[o].retried
  <2> DEFINE r == CreateMapsFailed(obj[o], obj[o].idx)
  <2>1. r \in ObjectRecord
    BY <1>0, CreateMapsFailedType DEF ObjectRecord
  <2>2. obj' = [obj EXCEPT ![o] = r]
    BY <1>0, <1>p, <1>c1
       DEF PinExists, ObjectRecord, ObjectInv, TypeOK, At, CurMap, Maps,
           CreateMapsFailed, MustPin
  <2>3. CreationsBounded(r)
    BY <1>0, <1>p, <1>c1, ObjectAssumption
       DEF PinExists, ObjectRecord, ObjectLocal, InMapLoop, CreationsBounded,
           At, CurMap, Maps, CreateMapsFailed, MustPin
  <2>4. OkOnTheWay(r)
    BY <1>0, <1>p, <1>c1, ObjectAssumption
       DEF PinExists, ObjectRecord, ObjectLocal, InMapLoop, OkOnTheWay, At,
           CurMap, Maps, CreateMapsFailed, MustPin
  <2>5. Progress(o, r)
    BY <1>0, <1>p, <1>c1, ObjectAssumption
       DEF PinExists, ObjectRecord, ObjectLocal, InMapLoop, Progress,
           CreationsBounded, OkOnTheWay, At, CurMap, Maps, CreateMapsFailed,
           MustPin
  <2>6. Undone(r)
    BY <1>0, <1>p, <1>c1, ObjectAssumption
       DEF PinExists, ObjectRecord, ObjectLocal, InMapLoop, Undone, OkOnTheWay,
           Progress, At, CurMap, Maps, CreateMapsFailed, MustPin
  <2>7. ObjectLocal(o, r)
    BY <2>3, <2>4, <2>5, <2>6 DEF ObjectLocal
  <2>8. /\ r.pc \in {"reuse", "create", "pin"} => r.idx \in Maps
        /\ \A k \in Maps : r.pinned[k] /\ ~r.reused[k] =>
                            obj[o].pinned[k] /\ ~obj[o].reused[k]
        /\ \A k \in Maps : obj[o].pinned[k] => r.pinned[k]
    BY <1>0, <1>p, <1>c1
       DEF PinExists, ObjectRecord, At, CurMap, CreateMapsFailed, MustPin
  <2> HIDE DEF r
  <2> QED
    BY Zenon, <2>1, <2>2, <2>7, <2>8, LocalStep DEF PinExists
<1>c2. CASE ~obj[o].retried
  <2> DEFINE r == [obj[o] EXCEPT !.retried = TRUE, !.pc = "reuse"]
  <2>1. r \in ObjectRecord
    BY ZenonT(30), <1>0, CreateMapsFailedType DEF ObjectRecord
  <2>2. obj' = [obj EXCEPT ![o] = r]
    BY <1>0, <1>p, <1>c2
       DEF PinExists, ObjectRecord, ObjectInv, TypeOK, At, CurMap, Maps,
           CreateMapsFailed, MustPin
  <2>3. CreationsBounded(r)
    BY <1>0, <1>p, <1>c2, ObjectAssumption
       DEF PinExists, ObjectRecord, ObjectLocal, InMapLoop, CreationsBounded,
           At, CurMap, Maps, CreateMapsFailed, MustPin
  <2>4. OkOnTheWay(r)
    BY <1>0, <1>p, <1>c2, ObjectAssumption
       DEF PinExists, ObjectRecord, ObjectLocal, InMapLoop, OkOnTheWay, At,
           CurMap, Maps, CreateMapsFailed, MustPin
  <2>5. Progress(o, r)
    BY <1>0, <1>p, <1>c2, ObjectAssumption
       DEF PinExists, ObjectRecord, ObjectLocal, InMapLoop, Progress,
           CreationsBounded, OkOnTheWay, At, CurMap, Maps, CreateMapsFailed,
           MustPin
  <2>6. Undone(r)
    BY <1>0, <1>p, <1>c2, ObjectAssumption
       DEF PinExists, ObjectRecord, ObjectLocal, InMapLoop, Undone, OkOnTheWay,
           Progress, At, CurMap, Maps, CreateMapsFailed, MustPin
  <2>7. ObjectLocal(o, r)
    BY <2>3, <2>4, <2>5, <2>6 DEF ObjectLocal
  <2>8. /\ r.pc \in {"reuse", "create", "pin"} => r.idx \in Maps
        /\ \A k \in Maps : r.pinned[k] /\ ~r.reused[k] =>
                            obj[o].pinned[k] /\ ~obj[o].reused[k]
        /\ \A k \in Maps : obj[o].pinned[k] => r.pinned[k]
    BY <1>0, <1>p, <1>c2
       DEF PinExists, ObjectRecord, At, CurMap, CreateMapsFailed, MustPin
  <2> HIDE DEF r
  <2> QED
    BY Zenon, <2>1, <2>2, <2>7, <2>8, LocalStep DEF PinExists
<1> QED
  BY <1>0, <1>p, <1>c1, <1>c2
     DEF PinExists, At, CurMap, Maps, CreateMapsFailed, MustPin

LEMMA PinFailsInv ==
  ASSUME ObjectInv, NEW o \in Objs, PinFails(o)
  PROVE  ObjectInv'
<1>0. obj[o] \in ObjectRecord /\ ObjectLocal(o, obj[o])
  BY DEF ObjectInv, TypeOK
<1>p. obj[o].idx \in Maps
  BY DEF PinFails, ObjectInv, TypeOK, At, CurMap, InMaps, MustPin
<1> DEFINE r == CreateMapsFailed(obj[o], obj[o].idx)
<1>1. r \in ObjectRecord
  BY <1>0, CreateMapsFailedType
<1>2. obj' = [obj EXCEPT ![o] = r]
  BY <1>0, <1>p
     DEF PinFails, ObjectRecord, ObjectInv, TypeOK, At, CurMap, Maps,
         CreateMapsFailed, MustPin
<1>3. CreationsBounded(r)
  BY <1>0, <1>p, ObjectAssumption
     DEF PinFails, ObjectRecord, ObjectLocal, InMapLoop, CreationsBounded, At,
         CurMap, Maps, CreateMapsFailed, MustPin
<1>4. OkOnTheWay(r)
  BY <1>0, <1>p, ObjectAssumption
     DEF PinFails, ObjectRecord, ObjectLocal, InMapLoop, OkOnTheWay, At, CurMap,
         Maps, CreateMapsFailed, MustPin
<1>5. Progress(o, r)
  BY <1>0, <1>p, ObjectAssumption
     DEF PinFails, ObjectRecord, ObjectLocal, InMapLoop, Progress,
         CreationsBounded, OkOnTheWay, At, CurMap, Maps, CreateMapsFailed,
         MustPin
<1>6. Undone(r)
  BY <1>0, <1>p, ObjectAssumption
     DEF PinFails, ObjectRecord, ObjectLocal, InMapLoop, Undone, OkOnTheWay,
         Progress, At, CurMap, Maps, CreateMapsFailed, MustPin
<1>7. ObjectLocal(o, r)
  BY <1>3, <1>4, <1>5, <1>6 DEF ObjectLocal
<1>8. /\ r.pc \in {"reuse", "create", "pin"} => r.idx \in Maps
      /\ \A k \in Maps : r.pinned[k] /\ ~r.reused[k] =>
                          obj[o].pinned[k] /\ ~obj[o].reused[k]
      /\ \A k \in Maps : obj[o].pinned[k] => r.pinned[k]
  BY <1>0, <1>p DEF PinFails, ObjectRecord, At, CurMap, CreateMapsFailed, MustPin
<1> HIDE DEF r
<1> QED
  BY Zenon, <1>1, <1>2, <1>7, <1>8, LocalStep DEF PinFails

LEMMA CallLoadInv ==
  ASSUME ObjectInv, NEW o \in Objs, CallLoad(o)
  PROVE  ObjectInv'
<1>0. obj[o] \in ObjectRecord /\ ObjectLocal(o, obj[o])
  BY DEF ObjectInv, TypeOK
<1>o. PICK one \in Nat \ {0} : one = 1
  OBVIOUS
<1>c1. CASE obj[o].state = "OPEN"
  <2> DEFINE r == [obj[o] EXCEPT !.goal = "load", !.idx = one, !.pc = "before_maps"]
  <2>1. r \in ObjectRecord
    BY ZenonT(30), <1>0, <1>o, <1>c1 DEF ObjectRecord, CallLoad, Idle, Progs
  <2>2. obj' = [obj EXCEPT ![o] = r]
    BY <1>0, <1>o, <1>c1
       DEF CallLoad, ObjectRecord, ObjectInv, TypeOK, Idle, Maps, Progs
  <2>3. CreationsBounded(r)
    BY <1>0, <1>o, <1>c1, ObjectAssumption
       DEF CallLoad, ObjectRecord, ObjectLocal, InMapLoop, CreationsBounded,
           Idle, Maps, Progs
  <2>4. OkOnTheWay(r)
    BY <1>0, <1>o, <1>c1, ObjectAssumption
       DEF CallLoad, ObjectRecord, ObjectLocal, InMapLoop, OkOnTheWay, Idle,
           Maps, Progs
  <2>5. Progress(o, r)
    BY <1>0, <1>o, <1>c1, ObjectAssumption
       DEF CallLoad, ObjectRecord, ObjectLocal, InMapLoop, Progress,
           CreationsBounded, OkOnTheWay, Idle, Maps, Progs
  <2>6. Undone(r)
    BY <1>0, <1>o, <1>c1, ObjectAssumption
       DEF CallLoad, ObjectRecord, ObjectLocal, InMapLoop, Undone, OkOnTheWay,
           Progress, Idle, Maps, Progs
  <2>7. ObjectLocal(o, r)
    BY <2>3, <2>4, <2>5, <2>6 DEF ObjectLocal
  <2>8. /\ r.pc \in {"reuse", "create", "pin"} => r.idx \in Maps
        /\ \A k \in Maps : r.pinned[k] /\ ~r.reused[k] =>
                            obj[o].pinned[k] /\ ~obj[o].reused[k]
        /\ \A k \in Maps : obj[o].pinned[k] => r.pinned[k]
    BY <1>0, <1>o, <1>c1 DEF CallLoad, ObjectRecord, Idle, Progs
  <2> HIDE DEF r
  <2> QED
    BY Zenon, <2>1, <2>2, <2>7, <2>8, LocalStep DEF CallLoad
<1>c2. CASE obj[o].state # "OPEN"
  <2> DEFINE r == [obj[o] EXCEPT !.goal = "load", !.idx = one, !.pc = "prog"]
  <2>1. r \in ObjectRecord
    BY ZenonT(30), <1>0, <1>o, <1>c2 DEF ObjectRecord, CallLoad, Idle, Progs
  <2>2. obj' = [obj EXCEPT ![o] = r]
    BY Zenon, <1>0, <1>o, <1>c2
       DEF CallLoad, ObjectRecord, ObjectInv, TypeOK, Idle, Maps, Progs
  <2>3. CreationsBounded(r)
    BY <1>0, <1>o, <1>c2, ObjectAssumption
       DEF CallLoad, ObjectRecord, ObjectLocal, InMapLoop, CreationsBounded,
           Idle, Maps, Progs
  <2>4. OkOnTheWay(r)
    BY <1>0, <1>o, <1>c2, ObjectAssumption
       DEF CallLoad, ObjectRecord, ObjectLocal, InMapLoop, OkOnTheWay, Idle,
           Maps, Progs
  <2>5. Progress(o, r)
    BY <1>0, <1>o, <1>c2, ObjectAssumption
       DEF CallLoad, ObjectRecord, ObjectLocal, InMapLoop, Progress,
           CreationsBounded, OkOnTheWay, Idle, Maps, Progs
  <2>6. Undone(r)
    BY <1>0, <1>o, <1>c2, ObjectAssumption
       DEF CallLoad, ObjectRecord, ObjectLocal, InMapLoop, Undone, OkOnTheWay,
           Progress, Idle, Maps, Progs
  <2>7. ObjectLocal(o, r)
    BY <2>3, <2>4, <2>5, <2>6 DEF ObjectLocal
  <2>8. /\ r.pc \in {"reuse", "create", "pin"} => r.idx \in Maps
        /\ \A k \in Maps : r.pinned[k] /\ ~r.reused[k] =>
                            obj[o].pinned[k] /\ ~obj[o].reused[k]
        /\ \A k \in Maps : obj[o].pinned[k] => r.pinned[k]
    BY <1>0, <1>o, <1>c2 DEF CallLoad, ObjectRecord, Idle, Progs
  <2> HIDE DEF r
  <2> QED
    BY Zenon, <2>1, <2>2, <2>7, <2>8, LocalStep DEF CallLoad
<1> QED
  BY <1>0, <1>o, <1>c1, <1>c2 DEF CallLoad, Idle, Maps, Progs

LEMMA SkipProgInv ==
  ASSUME ObjectInv, NEW o \in Objs, SkipProg(o)
  PROVE  ObjectInv'
<1>0. obj[o] \in ObjectRecord /\ ObjectLocal(o, obj[o])
  BY DEF ObjectInv, TypeOK
<1> DEFINE r == [obj[o] EXCEPT !.idx = @ + 1]
<1>1. r \in ObjectRecord
  BY <1>0 DEF ObjectRecord, SkipProg, At, InProgs, Progs
<1>2. obj' = [obj EXCEPT ![o] = r]
  BY <1>0 DEF SkipProg, ObjectRecord, ObjectInv, TypeOK, At, InProgs, Progs
<1>3. CreationsBounded(r)
  BY <1>0, ObjectAssumption
     DEF SkipProg, ObjectRecord, ObjectLocal, InMapLoop, CreationsBounded, At,
         InProgs, Progs
<1>4. OkOnTheWay(r)
  BY <1>0, ObjectAssumption
     DEF SkipProg, ObjectRecord, ObjectLocal, InMapLoop, OkOnTheWay, At,
         InProgs, Progs
<1>5. Progress(o, r)
  BY <1>0, ObjectAssumption
     DEF SkipProg, ObjectRecord, ObjectLocal, InMapLoop, Progress,
         CreationsBounded, OkOnTheWay, At, InProgs, Progs
<1>6. Undone(r)
  BY <1>0, ObjectAssumption
     DEF SkipProg, ObjectRecord, ObjectLocal, InMapLoop, Undone, OkOnTheWay,
         Progress, At, InProgs, Progs
<1>7. ObjectLocal(o, r)
  BY <1>3, <1>4, <1>5, <1>6 DEF ObjectLocal
<1>8. /\ r.pc \in {"reuse", "create", "pin"} => r.idx \in Maps
      /\ \A k \in Maps : r.pinned[k] /\ ~r.reused[k] =>
                          obj[o].pinned[k] /\ ~obj[o].reused[k]
      /\ \A k \in Maps : obj[o].pinned[k] => r.pinned[k]
  BY <1>0, ObjectAssumption DEF SkipProg, ObjectRecord, At, InProgs, Progs
<1> HIDE DEF r
<1> QED
  BY Zenon, <1>1, <1>2, <1>7, <1>8, LocalStep DEF SkipProg

LEMMA LoadProgInv ==
  ASSUME ObjectInv, NEW o \in Objs, LoadProg(o)
  PROVE  ObjectInv'
<1>0. obj[o] \in ObjectRecord /\ ObjectLocal(o, obj[o])
  BY DEF ObjectInv, TypeOK
<1>i. PICK i \in Nat \ {0} : i = obj[o].idx + 1
  BY <1>0 DEF ObjectRecord
<1>p. obj[o].idx \in Progs
  BY DEF LoadProg, InProgs
<1> DEFINE r == [obj[o] EXCEPT !.prog_fd[obj[o].idx] = TRUE, !.idx = i]
<1>1. r \in ObjectRecord
  BY Zenon, <1>0, <1>p DEF ObjectRecord
<1>2. obj' = [obj EXCEPT ![o] = r]
  BY <1>0, <1>p, <1>i
     DEF LoadProg, ObjectRecord, ObjectInv, TypeOK, At, InProgs, Progs
<1>3. CreationsBounded(r)
  BY <1>0, <1>p, ObjectAssumption, <1>i
     DEF LoadProg, ObjectRecord, ObjectLocal, InMapLoop, CreationsBounded, At,
         InProgs, Progs
<1>4. OkOnTheWay(r)
  BY SMTT(30), <1>0, <1>p, ObjectAssumption, <1>i
     DEF LoadProg, ObjectRecord, ObjectLocal, InMapLoop, OkOnTheWay, At,
         InProgs, Progs
<1>5. Progress(o, r)
  BY <1>0, <1>p, ObjectAssumption, <1>i
     DEF LoadProg, ObjectRecord, ObjectLocal, InMapLoop, Progress,
         CreationsBounded, OkOnTheWay, At, InProgs, Progs
<1>6. Undone(r)
  BY <1>0, <1>p, ObjectAssumption, <1>i
     DEF LoadProg, ObjectRecord, ObjectLocal, InMapLoop, Undone, OkOnTheWay,
         Progress, At, InProgs, Progs
<1>7. ObjectLocal(o, r)
  BY <1>3, <1>4, <1>5, <1>6 DEF ObjectLocal
<1>8. /\ r.pc \in {"reuse", "create", "pin"} => r.idx \in Maps
      /\ \A k \in Maps : r.pinned[k] /\ ~r.reused[k] =>
                          obj[o].pinned[k] /\ ~obj[o].reused[k]
      /\ \A k \in Maps : obj[o].pinned[k] => r.pinned[k]
  BY <1>0, <1>p, <1>i DEF LoadProg, ObjectRecord, At, InProgs, Progs
<1> HIDE DEF r
<1> QED
  BY Zenon, <1>1, <1>2, <1>7, <1>8, LocalStep DEF LoadProg

LEMMA ProgramLoadInv ==
  ASSUME ObjectInv, NEW o \in Objs, NEW p \in Progs, ProgramLoad(o, p)
  PROVE  ObjectInv'
<1>0. obj[o] \in ObjectRecord /\ ObjectLocal(o, obj[o])
  BY DEF ObjectInv, TypeOK
<1> DEFINE r == [obj[o] EXCEPT !.prog_fd[p] = TRUE]
<1>1. r \in ObjectRecord
  BY Zenon, <1>0 DEF ObjectRecord, ProgramLoad, Idle
<1>2. obj' = [obj EXCEPT ![o] = r]
  BY <1>0 DEF ProgramLoad, ObjectRecord, ObjectInv, TypeOK, Idle
<1>3. CreationsBounded(r)
  BY <1>0
     DEF ProgramLoad, ObjectRecord, ObjectLocal, InMapLoop, CreationsBounded,
         Idle
<1>4. OkOnTheWay(r)
  BY <1>0 DEF ProgramLoad, ObjectRecord, ObjectLocal, InMapLoop, OkOnTheWay, Idle
<1>5. Progress(o, r)
  BY <1>0
     DEF ProgramLoad, ObjectRecord, ObjectLocal, InMapLoop, Progress,
         CreationsBounded, OkOnTheWay, Idle
<1>6. Undone(r)
  BY <1>0
     DEF ProgramLoad, ObjectRecord, ObjectLocal, InMapLoop, Undone, OkOnTheWay,
         Progress, Idle
<1>7. ObjectLocal(o, r)
  BY <1>3, <1>4, <1>5, <1>6 DEF ObjectLocal
<1>8. /\ r.pc \in {"reuse", "create", "pin"} => r.idx \in Maps
      /\ \A k \in Maps : r.pinned[k] /\ ~r.reused[k] =>
                          obj[o].pinned[k] /\ ~obj[o].reused[k]
      /\ \A k \in Maps : obj[o].pinned[k] => r.pinned[k]
  BY <1>0 DEF ProgramLoad, ObjectRecord, Idle
<1> HIDE DEF r
<1> QED
  BY Zenon, <1>1, <1>2, <1>7, <1>8, LocalStep DEF ProgramLoad

LEMMA ProgramUnloadInv ==
  ASSUME ObjectInv, NEW o \in Objs, NEW p \in Progs, ProgramUnload(o, p)
  PROVE  ObjectInv'
<1>0. obj[o] \in ObjectRecord /\ ObjectLocal(o, obj[o])
  BY DEF ObjectInv, TypeOK
<1> DEFINE r == [obj[o] EXCEPT !.prog_fd[p] = FALSE]
<1>1. r \in ObjectRecord
  BY Zenon, <1>0 DEF ObjectRecord, ProgramUnload, Idle
<1>2. obj' = [obj EXCEPT ![o] = r]
  BY <1>0 DEF ProgramUnload, ObjectRecord, ObjectInv, TypeOK, Idle
<1>3. CreationsBounded(r)
  BY <1>0
     DEF ProgramUnload, ObjectRecord, ObjectLocal, InMapLoop, CreationsBounded,
         Idle
<1>4. OkOnTheWay(r)
  BY <1>0 DEF ProgramUnload, ObjectRecord, ObjectLocal, InMapLoop, OkOnTheWay, Idle
<1>5. Progress(o, r)
  BY <1>0
     DEF ProgramUnload, ObjectRecord, ObjectLocal, InMapLoop, Progress,
         CreationsBounded, OkOnTheWay, Idle
<1>6. Undone(r)
  BY <1>0
     DEF ProgramUnload, ObjectRecord, ObjectLocal, InMapLoop, Undone,
         OkOnTheWay, Progress, Idle
<1>7. ObjectLocal(o, r)
  BY <1>3, <1>4, <1>5, <1>6 DEF ObjectLocal
<1>8. /\ r.pc \in {"reuse", "create", "pin"} => r.idx \in Maps
      /\ \A k \in Maps : r.pinned[k] /\ ~r.reused[k] =>
                          obj[o].pinned[k] /\ ~obj[o].reused[k]
      /\ \A k \in Maps : obj[o].pinned[k] => r.pinned[k]
  BY SMTT(30), <1>0 DEF ProgramUnload, ObjectRecord, Idle
<1> HIDE DEF r
<1> QED
  BY Zenon, <1>1, <1>2, <1>7, <1>8, LocalStep DEF ProgramUnload

LEMMA PrepareProgsEffect ==
  ASSUME NEW o \in Objs, PrepareProgs(o)
  PROVE  \E hm \in BOOLEAN :
           \/ obj' = [obj EXCEPT ![o].has_manual = hm, ![o].state = "PREPARED",
                                 ![o].idx = 1, ![o].pc = "prog"]
           \/ obj' = [obj EXCEPT ![o].has_manual = hm, ![o].state = "PREPARED",
                                 ![o].idx = 1, ![o].pc = "idle"]
           \/ obj' = [obj EXCEPT ![o].has_manual = hm, ![o].ok = FALSE,
                                 ![o].pc = "unpin", ![o].idx = 1]
<1>1. ASSUME obj' = [obj EXCEPT ![o].has_manual = SomeManual(o),
                              ![o].state = "PREPARED", ![o].idx = 1,
                              ![o].pc = IF obj[o].goal = "load"
                                        THEN "prog" ELSE "idle"]
      PROVE  \E hm \in BOOLEAN :
               \/ obj' = [obj EXCEPT ![o].has_manual = hm, ![o].state = "PREPARED",
                                     ![o].idx = 1, ![o].pc = "prog"]
               \/ obj' = [obj EXCEPT ![o].has_manual = hm, ![o].state = "PREPARED",
                                     ![o].idx = 1, ![o].pc = "idle"]
  <2>1. SomeManual(o) \in BOOLEAN
    BY SMTT(30) DEF SomeManual
  <2>2. CASE obj[o].goal = "load"
    BY ZenonT(30), <1>1, <2>1, <2>2
  <2>3. CASE obj[o].goal # "load"
    BY ZenonT(30), <1>1, <2>1, <2>3
  <2> QED BY Zenon, <2>2, <2>3
<1>2. ASSUME NEW n \in Progs,
             obj' = [obj EXCEPT ![o].has_manual =
                       \E p \in 1 .. n : obj[o].strat[p] = "MANUAL",
                                ![o].ok = FALSE, ![o].pc = "unpin",
                                ![o].idx = 1]
      PROVE  \E hm \in BOOLEAN :
               obj' = [obj EXCEPT ![o].has_manual = hm, ![o].ok = FALSE,
                                  ![o].pc = "unpin", ![o].idx = 1]
  BY ZenonT(30), <1>2
<1> QED BY ZenonT(30), <1>1, <1>2 DEF PrepareProgs

LEMMA PrepareProgsInv ==
  ASSUME ObjectInv, NEW o \in Objs, PrepareProgs(o)
  PROVE  ObjectInv'
<1>0. obj[o] \in ObjectRecord /\ ObjectLocal(o, obj[o])
  BY DEF ObjectInv, TypeOK
<1>o. PICK one \in Nat \ {0} : one = 1
  OBVIOUS
<1>g. obj[o].pc = "map" /\ obj[o].idx \notin Maps /\ UNCHANGED fsVars
  BY Zenon DEF PrepareProgs, At, InMaps
<1>h. \A m \in Maps : obj[o].autocreate[m] => obj[o].fd[m] \in KMaps
  BY SMTT(30), <1>0, <1>g, ObjectAssumption
     DEF Maps, ObjectRecord, ObjectLocal, Progress, InMapLoop
<1>p. PICK hm \in BOOLEAN :
        \/ obj' = [obj EXCEPT ![o].has_manual = hm, ![o].state = "PREPARED",
                              ![o].idx = 1, ![o].pc = "prog"]
        \/ obj' = [obj EXCEPT ![o].has_manual = hm, ![o].state = "PREPARED",
                              ![o].idx = 1, ![o].pc = "idle"]
        \/ obj' = [obj EXCEPT ![o].has_manual = hm, ![o].ok = FALSE,
                              ![o].pc = "unpin", ![o].idx = 1]
  BY Zenon, PrepareProgsEffect
<1>b. hm \in BOOLEAN
  OBVIOUS
<1>c1. CASE obj' = [obj EXCEPT ![o].has_manual = hm, ![o].state = "PREPARED",
                               ![o].idx = 1, ![o].pc = "prog"]
  <2> DEFINE r == [obj[o] EXCEPT !.has_manual = hm, !.state = "PREPARED",
                                  !.idx = one, !.pc = "prog"]
  <2>1. r \in ObjectRecord
    BY Zenon, <1>0, <1>b DEF ObjectRecord
  <2>2. obj' = [obj EXCEPT ![o] = r]
    BY Zenon, <1>0, <1>o, <1>g, <1>c1 DEF Maps, ObjectRecord, ObjectInv, TypeOK, Progs
  <2>3. CreationsBounded(r)
    BY <1>0, <1>o, <1>g, <1>c1, ObjectAssumption
       DEF Maps, ObjectRecord, ObjectLocal, InMapLoop, CreationsBounded, Progs
  <2>4. OkOnTheWay(r)
    BY <1>0, <1>o, <1>g, <1>c1, ObjectAssumption
       DEF Maps, ObjectRecord, ObjectLocal, InMapLoop, OkOnTheWay, Progs
  <2>5. Progress(o, r)
    BY <1>0, <1>o, <1>h, ObjectAssumption
       DEF ObjectRecord, InMapLoop, Progress, Progs
  <2>6. Undone(r)
    BY <1>0, <1>o, <1>g, <1>c1, ObjectAssumption
       DEF Maps, ObjectRecord, ObjectLocal, InMapLoop, Undone, OkOnTheWay,
           Progress, Progs
  <2>7. ObjectLocal(o, r)
    BY <2>3, <2>4, <2>5, <2>6 DEF ObjectLocal
  <2>8. /\ r.pc \in {"reuse", "create", "pin"} => r.idx \in Maps
        /\ \A k \in Maps : r.pinned[k] /\ ~r.reused[k] =>
                            obj[o].pinned[k] /\ ~obj[o].reused[k]
        /\ \A k \in Maps : obj[o].pinned[k] => r.pinned[k]
    BY <1>0, <1>o, <1>g, <1>c1 DEF Maps, ObjectRecord, Progs
  <2> HIDE DEF r
  <2> QED
    BY Zenon, <2>1, <2>2, <2>7, <2>8, <1>g, LocalStep DEF fsVars
<1>c2. CASE obj' = [obj EXCEPT ![o].has_manual = hm, ![o].state = "PREPARED",
                               ![o].idx = 1, ![o].pc = "idle"]
  <2> DEFINE r == [obj[o] EXCEPT !.has_manual = hm, !.state = "PREPARED",
                                  !.idx = one, !.pc = "idle"]
  <2>1. r \in ObjectRecord
    BY Zenon, <1>0, <1>b DEF ObjectRecord
  <2>2. obj' = [obj EXCEPT ![o] = r]
    BY Zenon, <1>0, <1>o, <1>g, <1>c2 DEF Maps, ObjectRecord, ObjectInv, TypeOK, Progs
  <2>3. CreationsBounded(r)
    BY <1>0, <1>o, <1>g, <1>c2, ObjectAssumption
       DEF Maps, ObjectRecord, ObjectLocal, InMapLoop, CreationsBounded, Progs
  <2>4. OkOnTheWay(r)
    BY <1>0, <1>o, <1>g, <1>c2, ObjectAssumption
       DEF Maps, ObjectRecord, ObjectLocal, InMapLoop, OkOnTheWay, Progs
  <2>5. Progress(o, r)
    BY <1>0, <1>o, <1>g, <1>c2, ObjectAssumption
       DEF Maps, ObjectRecord, ObjectLocal, InMapLoop, Progress,
           CreationsBounded, OkOnTheWay, Progs
  <2>6. Undone(r)
    BY <1>0, <1>o, <1>g, <1>c2, ObjectAssumption
       DEF Maps, ObjectRecord, ObjectLocal, InMapLoop, Undone, OkOnTheWay,
           Progress, Progs
  <2>7. ObjectLocal(o, r)
    BY <2>3, <2>4, <2>5, <2>6 DEF ObjectLocal
  <2>8. /\ r.pc \in {"reuse", "create", "pin"} => r.idx \in Maps
        /\ \A k \in Maps : r.pinned[k] /\ ~r.reused[k] =>
                            obj[o].pinned[k] /\ ~obj[o].reused[k]
        /\ \A k \in Maps : obj[o].pinned[k] => r.pinned[k]
    BY <1>0, <1>o, <1>g, <1>c2 DEF Maps, ObjectRecord, Progs
  <2> HIDE DEF r
  <2> QED
    BY Zenon, <2>1, <2>2, <2>7, <2>8, <1>g, LocalStep DEF fsVars
<1>c3. CASE obj' = [obj EXCEPT ![o].has_manual = hm, ![o].ok = FALSE,
                               ![o].pc = "unpin", ![o].idx = 1]
  <2> DEFINE r == [obj[o] EXCEPT !.has_manual = hm, !.ok = FALSE, !.pc = "unpin",
                                  !.idx = one]
  <2>1. r \in ObjectRecord
    BY Zenon, <1>0, <1>b DEF ObjectRecord
  <2>2. obj' = [obj EXCEPT ![o] = r]
    BY <1>0, <1>o, <1>g, <1>c3 DEF Maps, ObjectRecord, ObjectInv, TypeOK, Progs
  <2>3. CreationsBounded(r)
    BY <1>0, <1>o, <1>g, <1>c3, ObjectAssumption
       DEF Maps, ObjectRecord, ObjectLocal, InMapLoop, CreationsBounded, Progs
  <2>4. OkOnTheWay(r)
    BY <1>0, <1>o, <1>g, <1>c3, ObjectAssumption
       DEF Maps, ObjectRecord, ObjectLocal, InMapLoop, OkOnTheWay, Progs
  <2>5. Progress(o, r)
    BY <1>0, <1>o, <1>g, <1>c3, ObjectAssumption
       DEF Maps, ObjectRecord, ObjectLocal, InMapLoop, Progress,
           CreationsBounded, OkOnTheWay, Progs
  <2>6. Undone(r)
    BY <1>0, <1>o, <1>g, <1>c3, ObjectAssumption
       DEF Maps, ObjectRecord, ObjectLocal, InMapLoop, Undone, OkOnTheWay,
           Progress, Progs
  <2>7. ObjectLocal(o, r)
    BY <2>3, <2>4, <2>5, <2>6 DEF ObjectLocal
  <2>8. /\ r.pc \in {"reuse", "create", "pin"} => r.idx \in Maps
        /\ \A k \in Maps : r.pinned[k] /\ ~r.reused[k] =>
                            obj[o].pinned[k] /\ ~obj[o].reused[k]
        /\ \A k \in Maps : obj[o].pinned[k] => r.pinned[k]
    BY <1>0, <1>o, <1>g, <1>c3 DEF Maps, ObjectRecord, Progs
  <2> HIDE DEF r
  <2> QED
    BY Zenon, <2>1, <2>2, <2>7, <2>8, <1>g, LocalStep DEF fsVars
<1> QED
  BY ZenonT(30), <1>0, <1>o, <1>p, <1>c1, <1>c2, <1>c3 DEF PrepareProgs, Progs

LEMMA LoadProgFailsInv ==
  ASSUME ObjectInv, NEW o \in Objs, LoadProgFails(o)
  PROVE  ObjectInv'
<1>0. obj[o] \in ObjectRecord /\ ObjectLocal(o, obj[o])
  BY DEF ObjectInv, TypeOK
<1> DEFINE r == LoadFailed(obj[o])
<1>1. r \in ObjectRecord
  BY <1>0, LoadFailedType
<1>2. obj' = [obj EXCEPT ![o] = r]
  BY <1>0
     DEF LoadProgFails, ObjectRecord, ObjectInv, TypeOK, At, LoadFailed,
         PostLoadCleanup, Maps, InProgs
<1>3. CreationsBounded(r)
  BY <1>0, ObjectAssumption
     DEF LoadProgFails, ObjectRecord, ObjectLocal, InMapLoop, CreationsBounded,
         At, LoadFailed, PostLoadCleanup, Maps, InProgs
<1>4. OkOnTheWay(r)
  BY <1>0, ObjectAssumption
     DEF LoadProgFails, ObjectRecord, ObjectLocal, InMapLoop, OkOnTheWay, At,
         LoadFailed, PostLoadCleanup, Maps, InProgs
<1>5. Progress(o, r)
  BY <1>0, ObjectAssumption
     DEF LoadProgFails, ObjectRecord, ObjectLocal, InMapLoop, Progress,
         CreationsBounded, OkOnTheWay, At, LoadFailed, PostLoadCleanup, Maps,
         InProgs
<1>6. Undone(r)
  BY <1>0, ObjectAssumption
     DEF LoadProgFails, ObjectRecord, ObjectLocal, InMapLoop, Undone,
         OkOnTheWay, Progress, At, LoadFailed, PostLoadCleanup, Maps, InProgs
<1>7. ObjectLocal(o, r)
  BY <1>3, <1>4, <1>5, <1>6 DEF ObjectLocal
<1>8. /\ r.pc \in {"reuse", "create", "pin"} => r.idx \in Maps
      /\ \A k \in Maps : r.pinned[k] /\ ~r.reused[k] =>
                          obj[o].pinned[k] /\ ~obj[o].reused[k]
      /\ \A k \in Maps : obj[o].pinned[k] => r.pinned[k]
  BY <1>0 DEF LoadProgFails, ObjectRecord, At, LoadFailed, PostLoadCleanup, InProgs
<1> HIDE DEF r
<1> QED
  BY Zenon, <1>1, <1>2, <1>7, <1>8, LocalStep DEF LoadProgFails

LEMMA FinishLoadFailsInv ==
  ASSUME ObjectInv, NEW o \in Objs, FinishLoadFails(o)
  PROVE  ObjectInv'
<1>0. obj[o] \in ObjectRecord /\ ObjectLocal(o, obj[o])
  BY DEF ObjectInv, TypeOK
<1> DEFINE r == LoadFailed(obj[o])
<1>1. r \in ObjectRecord
  BY <1>0, LoadFailedType
<1>2. obj' = [obj EXCEPT ![o] = r]
  BY <1>0
     DEF FinishLoadFails, ObjectRecord, ObjectInv, TypeOK, At, LoadFailed,
         PostLoadCleanup, Maps, InProgs
<1>3. CreationsBounded(r)
  BY <1>0, ObjectAssumption
     DEF FinishLoadFails, ObjectRecord, ObjectLocal, InMapLoop,
         CreationsBounded, At, LoadFailed, PostLoadCleanup, Maps, InProgs
<1>4. OkOnTheWay(r)
  BY <1>0, ObjectAssumption
     DEF FinishLoadFails, ObjectRecord, ObjectLocal, InMapLoop, OkOnTheWay, At,
         LoadFailed, PostLoadCleanup, Maps, InProgs
<1>5. Progress(o, r)
  BY <1>0, ObjectAssumption
     DEF FinishLoadFails, ObjectRecord, ObjectLocal, InMapLoop, Progress,
         CreationsBounded, OkOnTheWay, At, LoadFailed, PostLoadCleanup, Maps,
         InProgs
<1>6. Undone(r)
  BY <1>0, ObjectAssumption
     DEF FinishLoadFails, ObjectRecord, ObjectLocal, InMapLoop, Undone,
         OkOnTheWay, Progress, At, LoadFailed, PostLoadCleanup, Maps, InProgs
<1>7. ObjectLocal(o, r)
  BY <1>3, <1>4, <1>5, <1>6 DEF ObjectLocal
<1>8. /\ r.pc \in {"reuse", "create", "pin"} => r.idx \in Maps
      /\ \A k \in Maps : r.pinned[k] /\ ~r.reused[k] =>
                          obj[o].pinned[k] /\ ~obj[o].reused[k]
      /\ \A k \in Maps : obj[o].pinned[k] => r.pinned[k]
  BY <1>0
     DEF FinishLoadFails, ObjectRecord, At, LoadFailed, PostLoadCleanup, InProgs
<1> HIDE DEF r
<1> QED
  BY Zenon, <1>1, <1>2, <1>7, <1>8, LocalStep DEF FinishLoadFails

LEMMA FinishLoadInv ==
  ASSUME ObjectInv, NEW o \in Objs, FinishLoad(o)
  PROVE  ObjectInv'
<1>0. obj[o] \in ObjectRecord /\ ObjectLocal(o, obj[o])
  BY DEF ObjectInv, TypeOK
<1>s. PostLoadCleanup(obj[o]) \in ObjectRecord
  BY <1>0, PostLoadCleanupType
<1> DEFINE r == [PostLoadCleanup(obj[o]) EXCEPT
                 !.state = "LOADED", !.ok = TRUE, !.pc = "idle"]
<1>1. r \in ObjectRecord
  BY Zenon, <1>s, FinishedType
<1>2. obj' = [obj EXCEPT ![o] = r]
  BY <1>0 DEF FinishLoad, ObjectRecord, ObjectInv, TypeOK, At, PostLoadCleanup
<1>3. CreationsBounded(r)
  BY <1>0
     DEF FinishLoad, ObjectRecord, ObjectLocal, InMapLoop, CreationsBounded, At,
         PostLoadCleanup
<1>4. OkOnTheWay(r)
  BY <1>0
     DEF FinishLoad, ObjectRecord, ObjectLocal, InMapLoop, OkOnTheWay, At,
         PostLoadCleanup
<1>5. Progress(o, r)
  BY <1>0
     DEF FinishLoad, ObjectRecord, ObjectLocal, InMapLoop, Progress,
         CreationsBounded, OkOnTheWay, At, PostLoadCleanup
<1>6. Undone(r)
  BY <1>0
     DEF FinishLoad, ObjectRecord, ObjectLocal, InMapLoop, Undone, OkOnTheWay,
         Progress, At, PostLoadCleanup
<1>7. ObjectLocal(o, r)
  BY <1>3, <1>4, <1>5, <1>6 DEF ObjectLocal
<1>8. /\ r.pc \in {"reuse", "create", "pin"} => r.idx \in Maps
      /\ \A k \in Maps : r.pinned[k] /\ ~r.reused[k] =>
                          obj[o].pinned[k] /\ ~obj[o].reused[k]
      /\ \A k \in Maps : obj[o].pinned[k] => r.pinned[k]
  BY <1>0 DEF FinishLoad, ObjectRecord, At, PostLoadCleanup
<1> HIDE DEF r
<1> QED
  BY Zenon, <1>1, <1>2, <1>7, <1>8, LocalStep DEF FinishLoad

LEMMA UnloadInv ==
  ASSUME ObjectInv, NEW o \in Objs, Unload(o)
  PROVE  ObjectInv'
<1>0. obj[o] \in ObjectRecord /\ ObjectLocal(o, obj[o])
  BY DEF ObjectInv, TypeOK
<1>s. AllClosed(obj[o]) \in ObjectRecord
  BY <1>0, AllClosedType
<1> DEFINE r == [AllClosed(obj[o]) EXCEPT !.state = "LOADED", !.pc = "idle"]
<1>1. r \in ObjectRecord
  BY Zenon, <1>s, FinishedType
<1>2. obj' = [obj EXCEPT ![o] = r]
  BY <1>0 DEF Unload, ObjectRecord, ObjectInv, TypeOK, At, AllClosed, InMaps, Maps
<1>3. CreationsBounded(r)
  BY <1>0, ObjectAssumption
     DEF Unload, ObjectRecord, ObjectLocal, InMapLoop, CreationsBounded, At,
         AllClosed, InMaps, Maps
<1>4. OkOnTheWay(r)
  BY <1>0, ObjectAssumption
     DEF Unload, ObjectRecord, ObjectLocal, InMapLoop, OkOnTheWay, At,
         AllClosed, InMaps, Maps
<1>5. Progress(o, r)
  BY <1>0, ObjectAssumption
     DEF Unload, ObjectRecord, ObjectLocal, InMapLoop, Progress,
         CreationsBounded, OkOnTheWay, At, AllClosed, InMaps, Maps
<1>6. Undone(r)
  BY <1>0, ObjectAssumption
     DEF Unload, ObjectRecord, ObjectLocal, InMapLoop, Undone, OkOnTheWay,
         Progress, At, AllClosed, InMaps, Maps
<1>7. ObjectLocal(o, r)
  BY <1>3, <1>4, <1>5, <1>6 DEF ObjectLocal
<1>8. /\ r.pc \in {"reuse", "create", "pin"} => r.idx \in Maps
      /\ \A k \in Maps : r.pinned[k] /\ ~r.reused[k] =>
                          obj[o].pinned[k] /\ ~obj[o].reused[k]
      /\ \A k \in Maps : obj[o].pinned[k] => r.pinned[k]
  BY <1>0 DEF Unload, ObjectRecord, At, AllClosed, InMaps
<1> HIDE DEF r
<1> QED
  BY Zenon, <1>1, <1>2, <1>7, <1>8, LocalStep DEF Unload

LEMMA CloseInv ==
  ASSUME ObjectInv, NEW o \in Objs, Close(o)
  PROVE  ObjectInv'
<1>0. obj[o] \in ObjectRecord /\ ObjectLocal(o, obj[o])
  BY DEF ObjectInv, TypeOK
<1>s. AllClosed(obj[o]) \in ObjectRecord
  BY <1>0, AllClosedType
<1> DEFINE r == [AllClosed(obj[o]) EXCEPT !.state = "CLOSED", !.btf = FALSE]
<1>1. r \in ObjectRecord
  BY Zenon, <1>s, FinishedType
<1>2. obj' = [obj EXCEPT ![o] = r]
  BY <1>0 DEF Close, ObjectRecord, ObjectInv, TypeOK, Idle, AllClosed
<1>3. CreationsBounded(r)
  BY <1>0
     DEF Close, ObjectRecord, ObjectLocal, InMapLoop, CreationsBounded, Idle,
         AllClosed
<1>4. OkOnTheWay(r)
  BY <1>0
     DEF Close, ObjectRecord, ObjectLocal, InMapLoop, OkOnTheWay, Idle,
         AllClosed
<1>5. Progress(o, r)
  BY <1>0
     DEF Close, ObjectRecord, ObjectLocal, InMapLoop, Progress,
         CreationsBounded, OkOnTheWay, Idle, AllClosed
<1>6. Undone(r)
  BY <1>0
     DEF Close, ObjectRecord, ObjectLocal, InMapLoop, Undone, OkOnTheWay,
         Progress, Idle, AllClosed
<1>7. ObjectLocal(o, r)
  BY <1>3, <1>4, <1>5, <1>6 DEF ObjectLocal
<1>8. /\ r.pc \in {"reuse", "create", "pin"} => r.idx \in Maps
      /\ \A k \in Maps : r.pinned[k] /\ ~r.reused[k] =>
                          obj[o].pinned[k] /\ ~obj[o].reused[k]
      /\ \A k \in Maps : obj[o].pinned[k] => r.pinned[k]
  BY <1>0 DEF Close, ObjectRecord, Idle, AllClosed
<1> HIDE DEF r
<1> QED
  BY Zenon, <1>1, <1>2, <1>7, <1>8, LocalStep DEF Close

LEMMA PinMapInv ==
  ASSUME ObjectInv, NEW o \in Objs, PinMap(o)
  PROVE  ObjectInv'
<1>0. obj[o] \in ObjectRecord /\ ObjectLocal(o, obj[o])
  BY DEF ObjectInv, TypeOK
<1>i. PICK i \in Nat \ {0} : i = obj[o].idx + 1
  BY <1>0 DEF ObjectRecord
<1>m. PICK m \in Maps : m = obj[o].idx
  BY DEF PinMap, MustPin, ObjectInv, TypeOK, At, InMaps
<1>q. PICK q \in Paths : q = PinPath[m]
  BY <1>m DEF PinMap, MustPin, CurMap, Paths
<1> DEFINE r == [obj[o] EXCEPT !.pinned[m] = TRUE, !.pc = "map", !.idx = i]
<1>1. r \in ObjectRecord
  BY Zenon, <1>0 DEF ObjectRecord
<1>2. obj' = [obj EXCEPT ![o] = r]
  BY ZenonT(30), <1>i, <1>m DEF PinMap, CurMap, ObjectInv, TypeOK
<1>p. /\ pins[q] = None /\ obj[o].fd[m] \in KMaps
      /\ pins' = [pins EXCEPT ![q] = obj[o].fd[m]]
      /\ pinner' = [pinner EXCEPT ![q] = o]
  BY <1>0, <1>m, <1>q
     DEF PinMap, MustPin, At, CurMap, ObjectLocal, Progress
<1>3. CreationsBounded(r)
  BY <1>0, <1>i, <1>m, ObjectAssumption
     DEF PinMap, MustPin, At, ObjectRecord, ObjectLocal, InMapLoop, CreationsBounded, Maps
<1>4. OkOnTheWay(r)
  BY SMTT(30), <1>0, <1>m DEF PinMap, MustPin, At, ObjectRecord, ObjectLocal, InMapLoop, OkOnTheWay
<1>5. Progress(o, r)
  BY <1>0, <1>i, <1>m, <1>p, ObjectAssumption
     DEF PinMap, MustPin, At, ObjectRecord, ObjectLocal, InMapLoop, Progress,
         OkOnTheWay, Maps
<1>6. Undone(r)
  BY <1>0, <1>m
     DEF PinMap, MustPin, At, ObjectRecord, ObjectLocal, InMapLoop, Undone, OkOnTheWay
<1>7. ObjectLocal(o, r)
  BY <1>3, <1>4, <1>5, <1>6 DEF ObjectLocal
<1>8. /\ r.pc = "map" /\ r.pinned[m] /\ r.reused = obj[o].reused
      /\ \A k \in Maps : k # m => r.pinned[k] = obj[o].pinned[k]
      /\ \A k \in Maps : obj[o].pinned[k] => r.pinned[k]
  BY SMTT(30), <1>0 DEF ObjectRecord
<1>9. ~obj[o].reused[m] => \E n \in {1, 2} : obj[o].fd[m] = <<o, m, n>>
  BY <1>0, <1>m DEF PinMap, MustPin, At, ObjectLocal, Progress
<1> HIDE DEF r
<1>10. /\ obj \in [Objs -> ObjectRecord] /\ obj'[o] = r
       /\ \A x \in Objs : x # o => obj'[x] = obj[x]
       /\ pins \in [Paths -> KMaps \cup {None}]
       /\ pinner \in [Paths -> Objs \cup {None}]
  BY <1>2 DEF ObjectInv, TypeOK
<1>11. TypeOK'
  BY <1>1, <1>2, <1>8, <1>10, <1>p DEF ObjectInv, TypeOK, InMaps
<1>12. PinnedIsOwn'
  <2> SUFFICES ASSUME NEW x \in Objs, NEW k \in Maps,
                      obj'[x].pinned[k], ~obj'[x].reused[k]
               PROVE  /\ PinPath[k] # NoPath
                      /\ pinner'[PinPath[k]] = x
                      /\ \E n \in {1, 2} : pins'[PinPath[k]] = <<x, k, n>>
    BY DEF PinnedIsOwn
  <2>1. CASE x = o /\ k = m
    BY <2>1, <1>8, <1>9, <1>10, <1>p, <1>q DEF Paths
  <2>2. CASE ~(x = o /\ k = m)
    <3>1. obj[x].pinned[k] /\ ~obj[x].reused[k]
      BY <2>2, <1>8, <1>10
    <3>2. /\ PinPath[k] # NoPath /\ pinner[PinPath[k]] = x
          /\ \E n \in {1, 2} : pins[PinPath[k]] = <<x, k, n>>
      BY <3>1 DEF ObjectInv, PinnedIsOwn
    <3>3. PinPath[k] \in Paths /\ PinPath[k] # q
      BY <3>2, <1>p, Sentinels DEF Paths, KMaps
    <3> QED BY <3>2, <3>3, <1>p, <1>10
  <2> QED BY <2>1, <2>2
<1>13. PinsRemembered'
  <2> SUFFICES ASSUME NEW x \in Objs, NEW z \in Paths, pinner'[z] = x
               PROVE  \E k \in Maps : PinPath[k] = z /\ obj'[x].pinned[k]
    BY DEF PinsRemembered
  <2>1. CASE z = q
    BY <2>1, <1>p, <1>q, <1>8, <1>10
  <2>2. CASE z # q
    BY <2>2, <1>p, <1>8, <1>10 DEF ObjectInv, PinsRemembered
  <2> QED BY <2>1, <2>2
<1>14. (\A x \in Objs : ObjectLocal(x, obj[x]))'
  <2> SUFFICES ASSUME NEW x \in Objs PROVE ObjectLocal(x, obj'[x])
    BY DEF ObjectLocal, CreationsBounded, OkOnTheWay, Progress, Undone, InMapLoop
  <2>1. CASE x = o
    BY <1>7, <1>10, <2>1
  <2>2. CASE x # o
    BY <1>10, <2>2 DEF ObjectInv
  <2> QED BY Zenon, <2>1, <2>2
<1> QED BY <1>11, <1>12, <1>13, <1>14 DEF ObjectInv

LEMMA UnpinNextInv ==
  ASSUME ObjectInv, NEW o \in Objs, UnpinNext(o)
  PROVE  ObjectInv'
<1>0. obj[o] \in ObjectRecord /\ ObjectLocal(o, obj[o])
  BY DEF ObjectInv, TypeOK
<1>i. PICK i \in Nat \ {0} : i = obj[o].idx + 1
  BY <1>0 DEF ObjectRecord
<1>m. PICK m \in Maps : m = obj[o].idx
  BY DEF UnpinNext, InMaps
<1>c1. CASE ~unpin(o, m)
  <2> DEFINE r == [obj[o] EXCEPT !.idx = i]
  <2>1. r \in ObjectRecord
    BY <1>0 DEF ObjectRecord
  <2>p. UNCHANGED fsVars /\ obj[o].pc = "unpin"
    BY <1>c1, <1>m DEF UnpinNext, CurMap, fsVars, At
  <2>2. obj' = [obj EXCEPT ![o] = r]
    <3>1. CASE obj[o].pinned[m]
      <4>1. (obj[o].pinned[m] /\ ~(unpin(o, m) /\ pins[PinPath[m]] # None)) = TRUE
        BY <1>c1, <3>1
      <4>2. obj' = [obj EXCEPT ![o].idx = @ + 1, ![o].pinned[m] = TRUE]
        BY Zenon, <4>1, <1>m DEF UnpinNext, CurMap
      <4>3. [obj[o].pinned EXCEPT ![m] = TRUE] = obj[o].pinned
        BY Zenon, <3>1, <1>0 DEF ObjectRecord
      <4>4. [obj[o] EXCEPT !.idx = i, !.pinned = obj[o].pinned] = r
        BY Zenon, <1>0 DEF ObjectRecord
      <4>5. obj' = [obj EXCEPT ![o] =
                     [obj[o] EXCEPT !.idx = i,
                                    !.pinned = [obj[o].pinned EXCEPT ![m] = TRUE]]]
        BY Zenon, <4>2, <1>i, <1>0 DEF ObjectRecord, ObjectInv, TypeOK
      <4> QED BY Zenon, <4>3, <4>4, <4>5
    <3>2. CASE ~obj[o].pinned[m]
      <4>1. (obj[o].pinned[m] /\ ~(unpin(o, m) /\ pins[PinPath[m]] # None)) = FALSE
        BY <3>2
      <4>2. obj' = [obj EXCEPT ![o].idx = @ + 1, ![o].pinned[m] = FALSE]
        BY Zenon, <4>1, <1>m DEF UnpinNext, CurMap
      <4>3. [obj[o].pinned EXCEPT ![m] = FALSE] = obj[o].pinned
        BY ZenonT(40), <3>2, <1>0 DEF ObjectRecord
      <4>4. [obj[o] EXCEPT !.idx = i, !.pinned = obj[o].pinned] = r
        BY Zenon, <1>0 DEF ObjectRecord
      <4>5. obj' = [obj EXCEPT ![o] =
                     [obj[o] EXCEPT !.idx = i,
                                    !.pinned = [obj[o].pinned EXCEPT ![m] = FALSE]]]
        BY Zenon, <4>2, <1>i, <1>0 DEF ObjectRecord, ObjectInv, TypeOK
      <4> QED BY Zenon, <4>3, <4>4, <4>5
    <3> QED BY <3>1, <3>2
  <2>3. ObjectLocal(o, r)
    BY <1>0, <1>i, <1>m, <1>c1, <2>p, ObjectAssumption
       DEF unpin, ObjectRecord, ObjectLocal, InMapLoop, CreationsBounded,
           OkOnTheWay, Progress, Undone, Maps
  <2>4. r.pc = "unpin" /\ r.pinned = obj[o].pinned /\ r.reused = obj[o].reused
    BY <1>0, <2>p DEF ObjectRecord
  <2> HIDE DEF r
  <2> QED BY Zenon, <2>1, <2>2, <2>3, <2>4, <2>p, LocalStep
<1>c2. CASE unpin(o, m)
  <2>q. /\ PinPath[m] \in Paths /\ pins[PinPath[m]] # None
        /\ \E n \in {1, 2} : pins[PinPath[m]] = <<o, m, n>>
    <3>1. PinPath[m] # NoPath /\ \E n \in {1, 2} : pins[PinPath[m]] = <<o, m, n>>
      BY <1>c2 DEF unpin, ObjectInv, PinnedIsOwn
    <3>2. \A n \in {1, 2} : <<o, m, n>> \in KMaps
      BY DEF KMaps
    <3> QED BY <3>1, <3>2, Sentinels DEF Paths
  <2> DEFINE q == PinPath[m]
  <2> DEFINE r == [obj[o] EXCEPT !.idx = i, !.pinned[m] = FALSE]
  <2>1. r \in ObjectRecord
    BY Zenon, <1>0 DEF ObjectRecord
  <2>p. /\ pins' = [pins EXCEPT ![q] = None]
        /\ pinner' = [pinner EXCEPT ![q] = None]
        /\ obj[o].pc = "unpin"
    BY Zenon, <1>c2, <2>q, <1>m DEF UnpinNext, CurMap, At
  <2>2. obj' = [obj EXCEPT ![o] = r]
    <3>1. obj' = [obj EXCEPT ![o].idx = @ + 1, ![o].pinned[m] = FALSE]
      <4>1. (obj[o].pinned[m] /\ ~(unpin(o, m) /\ pins[PinPath[m]] # None))
              = FALSE
        BY <2>q, <1>c2
      <4> QED BY Zenon, <4>1, <1>m DEF UnpinNext, CurMap
    <3> QED BY Zenon, <3>1, <1>i, <1>0 DEF ObjectRecord, ObjectInv, TypeOK
  <2>7. ObjectLocal(o, r)
    BY <1>0, <1>i, <1>m, <2>p, ObjectAssumption
       DEF ObjectRecord, ObjectLocal, InMapLoop, CreationsBounded,
           OkOnTheWay, Progress, Undone, Maps
  <2>8. /\ r.pc = "unpin" /\ ~r.pinned[m] /\ r.reused = obj[o].reused
        /\ \A k \in Maps : k # m => r.pinned[k] = obj[o].pinned[k]
    BY <1>0, <2>p DEF ObjectRecord
  <2> HIDE DEF r, q
  <2>q1. q \in Paths /\ q = PinPath[m]
    BY <2>q DEF q
  <2>10. /\ obj \in [Objs -> ObjectRecord] /\ obj'[o] = r
         /\ \A x \in Objs : x # o => obj'[x] = obj[x]
         /\ pins \in [Paths -> KMaps \cup {None}]
         /\ pinner \in [Paths -> Objs \cup {None}]
    BY <2>2 DEF ObjectInv, TypeOK
  <2>11. TypeOK'
    BY Zenon, <2>1, <2>2, <2>8, <2>10, <2>p DEF ObjectInv, TypeOK, InMaps
  <2>12. PinnedIsOwn'
    <3> SUFFICES ASSUME NEW x \in Objs, NEW k \in Maps,
                        obj'[x].pinned[k], ~obj'[x].reused[k]
                 PROVE  /\ PinPath[k] # NoPath
                        /\ pinner'[PinPath[k]] = x
                        /\ \E n \in {1, 2} : pins'[PinPath[k]] = <<x, k, n>>
      BY DEF PinnedIsOwn
    <3>1. ~(x = o /\ k = m) /\ obj[x].pinned[k] /\ ~obj[x].reused[k]
      BY <2>8, <2>10
    <3>2. /\ PinPath[k] # NoPath /\ pinner[PinPath[k]] = x
          /\ \E n \in {1, 2} : pins[PinPath[k]] = <<x, k, n>>
      BY <3>1 DEF ObjectInv, PinnedIsOwn
    <3>3. PinPath[k] \in Paths /\ PinPath[k] # q
      BY <3>1, <3>2, <2>q, <2>q1 DEF Paths
    <3> QED BY <3>2, <3>3, <2>p, <2>10
  <2>13. PinsRemembered'
    <3> SUFFICES ASSUME NEW x \in Objs, NEW z \in Paths, pinner'[z] = x
                 PROVE  \E k \in Maps : PinPath[k] = z /\ obj'[x].pinned[k]
      BY DEF PinsRemembered
    <3>1. z # q
      BY <2>p, <2>10, Sentinels
    <3>2. PICK k \in Maps : PinPath[k] = z /\ obj[x].pinned[k]
      BY <3>1, <2>p, <2>10 DEF ObjectInv, PinsRemembered
    <3> QED BY <3>1, <3>2, <2>8, <2>10, <2>q1
  <2>14. (\A x \in Objs : ObjectLocal(x, obj[x]))'
    <3> SUFFICES ASSUME NEW x \in Objs PROVE ObjectLocal(x, obj'[x])
      BY DEF ObjectLocal, CreationsBounded, OkOnTheWay, Progress, Undone, InMapLoop
    <3>1. CASE x = o
      BY <2>7, <2>10, <3>1
    <3>2. CASE x # o
      BY <2>10, <3>2 DEF ObjectInv
    <3> QED BY Zenon, <3>1, <3>2
  <2> QED BY <2>11, <2>12, <2>13, <2>14 DEF ObjectInv
<1> QED BY <1>c1, <1>c2

LEMMA InitInv == Init => ObjectInv
<1> SUFFICES ASSUME Init PROVE ObjectInv
  OBVIOUS
<1>1. PICK s \in [Objs -> [Progs -> Strategies]] :
        obj = [o \in Objs |-> Opened(s[o])]
  BY DEF Init
<1>2. ASSUME NEW o \in Objs
      PROVE  obj[o] \in ObjectRecord /\ ObjectLocal(o, obj[o])
  <2>o. PICK one \in Nat \ {0} : one = 1
    OBVIOUS
  <2>z. PICK zero \in 0 .. 2 : zero = 0
    OBVIOUS
  <2> DEFINE t == s[o]
  <2> DEFINE c == [m \in Maps |-> zero]
  <2> DEFINE no == [m \in Maps |-> FALSE]
  <2> DEFINE yes == [m \in Maps |-> TRUE]
  <2> DEFINE slots == [m \in Maps |-> Slots[m] # {}]
  <2> DEFINE fds == [m \in Maps |-> Placeholder]
  <2> DEFINE pf == [p \in Progs |-> FALSE]
  <2>1. /\ t \in [Progs -> Strategies] /\ c \in [Maps -> 0 .. 2]
        /\ no \in [Maps -> BOOLEAN] /\ yes \in [Maps -> BOOLEAN]
        /\ slots \in [Maps -> BOOLEAN] /\ pf \in [Progs -> BOOLEAN]
        /\ fds \in [Maps -> KMaps \cup {Placeholder, Closed}]
    OBVIOUS
  <2>2. /\ \A m \in Maps : c[m] = 0 /\ ~no[m] /\ fds[m] = Placeholder
    BY <2>z
  <2>3. obj[o] = [state |-> "OPEN", pc |-> "idle", goal |-> "load", idx |-> one,
                  retried |-> FALSE, ok |-> TRUE, fd |-> fds,
                  creations |-> c, reused |-> no, pinned |-> no,
                  autocreate |-> yes, init_slots |-> slots, strat |-> t,
                  prog_fd |-> pf, relocated |-> FALSE, has_manual |-> FALSE,
                  btf |-> FALSE]
    BY <1>1, <2>o, <2>z DEF Opened
  <2> HIDE DEF t, c, no, yes, slots, fds, pf
  <2>4. obj[o] \in ObjectRecord
    BY SMTT(30), <2>1, <2>3 DEF ObjectRecord
  <2>5. ObjectLocal(o, obj[o])
    BY SMTT(30), <2>2, <2>3, Sentinels
       DEF ObjectLocal, CreationsBounded, OkOnTheWay, Progress, Undone, InMapLoop
  <2> QED BY <2>4, <2>5
<1>3. \A o \in Objs : obj[o].pc = "idle" /\ \A m \in Maps : ~obj[o].pinned[m]
  BY Zenon, <1>1 DEF Opened
<1>4. TypeOK
  BY SMTT(30), <1>1, <1>2, <1>3 DEF TypeOK, Init
<1>5. PinnedIsOwn
  BY <1>3 DEF PinnedIsOwn
<1>6. PinsRemembered
  BY Sentinels DEF PinsRemembered, Init
<1> QED BY <1>2, <1>4, <1>5, <1>6 DEF ObjectInv

LEMMA StutterInv == ObjectInv /\ UNCHANGED vars => ObjectInv'
<1> SUFFICES ASSUME ObjectInv, UNCHANGED vars PROVE ObjectInv'
  OBVIOUS
<1>0. obj' = obj /\ pins' = pins /\ pinner' = pinner
  BY DEF vars, fsVars
<1>1. TypeOK'
  BY <1>0 DEF ObjectInv, TypeOK, InMaps
<1>2. PinnedIsOwn'
  BY <1>0 DEF ObjectInv, PinnedIsOwn
<1>3. PinsRemembered'
  BY <1>0 DEF ObjectInv, PinsRemembered
<1>4. (\A o \in Objs : ObjectLocal(o, obj[o]))'
  <2> SUFFICES ASSUME NEW x \in Objs PROVE ObjectLocal(x, obj'[x])
    BY DEF ObjectLocal, CreationsBounded, OkOnTheWay, Progress, Undone, InMapLoop
  <2> QED BY Zenon, <1>0 DEF ObjectInv
<1> QED BY <1>1, <1>2, <1>3, <1>4 DEF ObjectInv

LEMMA NextInv == ObjectInv /\ Next => ObjectInv'
<1> SUFFICES ASSUME ObjectInv, NEW o \in Objs,
                    \/ Setter(o) \/ PrepareStep(o) \/ LoadStep(o)
                    \/ CleanupStep(o) \/ ProgramStep(o)
             PROVE  ObjectInv'
  BY DEF Next
<1>1. CASE Setter(o)
  BY <1>1, set_load_strategyInv, set_autocreateInv, reuse_fdInv DEF Setter
<1>2. CASE PrepareStep(o)
  BY <1>2, CallPrepareInv, BeforeMapsInv, SkipMapInv, StartMapInv, ReuseNoneInv,
     ReuseFoundInv, ReuseFailsInv, CreateMapInv, CreateFailsInv, NoPinInv,
     PinMapInv, PinExistsInv, PinFailsInv, PrepareProgsInv DEF PrepareStep
<1>3. CASE LoadStep(o)
  BY <1>3, CallLoadInv, SkipProgInv, LoadProgInv, LoadProgFailsInv,
     FinishLoadInv, FinishLoadFailsInv DEF LoadStep
<1>4. CASE CleanupStep(o)
  BY <1>4, UnpinNextInv, UnloadInv DEF CleanupStep
<1>5. CASE ProgramStep(o)
  BY <1>5, ProgramLoadInv, ProgramUnloadInv, CloseInv DEF ProgramStep
<1> QED BY <1>1, <1>2, <1>3, <1>4, <1>5

\* ObjectInv holds of every reachable state, whatever prepare, load, cleanup
\* and close of any number of processes interleave.
THEOREM ObjectInvariant == Spec => []ObjectInv
<1>1. ObjectInv /\ [Next]_vars => ObjectInv'
  BY NextInv, StutterInv
<1> QED BY InitInv, <1>1, PTL DEF Spec

\* Types, and that a map is created at most twice.
THEOREM ObjectTypes == Spec => []TypeOK
<1>1. ObjectInv => TypeOK
  BY DEF ObjectInv
<1> QED BY ObjectInvariant, <1>1, PTL

\* No process replaces, or removes in its own cleanup, the map another one
\* created and pinned (bpf_map__pin, bpf_object_unpin).
THEOREM PinOwnership == Spec => []PinnedIsOwn
<1>1. ObjectInv => PinnedIsOwn
  BY DEF ObjectInv
<1> QED BY ObjectInvariant, <1>1, PTL

\* A failed prepare or load has closed every map and removed every pin it
\* made (bpf_object_unpin, bpf_object_unload).
THEOREM FailureUndone == Spec => []FailedLoadUndone
<1>1. ObjectInv => FailedLoadUndone
  <2> SUFFICES ASSUME ObjectInv, NEW o \in Objs, obj[o].pc = "idle", ~obj[o].ok
               PROVE  /\ \A m \in Maps : obj[o].fd[m] = Closed
                      /\ \A q \in Paths : pinner[q] = o =>
                           \E m \in Maps : PinPath[m] = q /\ obj[o].reused[m]
    BY DEF FailedLoadUndone
  <2>1. \A m \in Maps : obj[o].fd[m] = Closed
                        /\ (obj[o].pinned[m] => obj[o].reused[m])
    BY SMTT(30) DEF ObjectInv, ObjectLocal, Undone
  <2> QED BY <2>1 DEF ObjectInv, PinsRemembered
<1> QED BY ObjectInvariant, <1>1, PTL

\* Only FinishLoad makes an object LOADED and reports success.
LEMMA OnlyFinishLoad ==
  ASSUME ObjectInv, NEW o \in Objs, ~FinishLoad(o),
         \/ Setter(o) \/ PrepareStep(o) \/ LoadStep(o)
         \/ CleanupStep(o) \/ ProgramStep(o),
         NEW x \in Objs, obj[x].state # "LOADED"
  PROVE  obj'[x].state # "LOADED" \/ ~obj'[x].ok
<1>0. obj \in [Objs -> ObjectRecord] /\ ObjectLocal(o, obj[o])
  BY DEF ObjectInv, TypeOK
<1>1. CASE \E p \in Progs : set_load_strategy(o, p)
  BY <1>0, <1>1 DEF set_load_strategy, ObjectRecord
<1>2. CASE \E m \in Maps : set_autocreate(o, m)
  BY <1>0, <1>2 DEF set_autocreate, ObjectRecord
<1>3. CASE \E m \in Maps : reuse_fd(o, m)
  BY <1>0, <1>3 DEF reuse_fd, ObjectRecord
<1>4. CASE CallPrepare(o)
  BY <1>0, <1>4 DEF CallPrepare, ObjectRecord
<1>5. CASE BeforeMaps(o)
  BY <1>0, <1>5 DEF BeforeMaps, ObjectRecord
<1>6. CASE SkipMap(o)
  BY <1>0, <1>6 DEF SkipMap, ObjectRecord
<1>7. CASE StartMap(o)
  BY <1>0, <1>7 DEF StartMap, ObjectRecord
<1>8. CASE ReuseNone(o)
  BY <1>0, <1>8 DEF ReuseNone, ObjectRecord, AfterReuse
<1>9. CASE ReuseFound(o)
  BY <1>0, <1>9 DEF ReuseFound, ObjectRecord
<1>10. CASE ReuseFails(o)
  BY <1>0, <1>10 DEF ReuseFails, ObjectRecord, CreateMapsFailed
<1>11. CASE CreateMap(o)
  BY <1>0, <1>11 DEF CreateMap, ObjectRecord
<1>12. CASE CreateFails(o)
  BY <1>0, <1>12 DEF CreateFails, ObjectRecord, CreateMapsFailed
<1>13. CASE NoPin(o)
  BY <1>0, <1>13 DEF NoPin, ObjectRecord
<1>14. CASE PinMap(o)
  BY <1>0, <1>14 DEF PinMap, ObjectRecord
<1>15. CASE PinExists(o)
  BY <1>0, <1>15 DEF PinExists, ObjectRecord, CreateMapsFailed
<1>16. CASE PinFails(o)
  BY SMTT(30), <1>0, <1>16 DEF PinFails, ObjectRecord, CreateMapsFailed
<1>17. CASE PrepareProgs(o)
  <2>o. PICK one \in Nat \ {0} : one = 1
    BY SMTT(30)
  <2>1. PICK hm \in BOOLEAN :
          \/ obj' = [obj EXCEPT ![o].has_manual = hm, ![o].state = "PREPARED",
                                ![o].idx = one, ![o].pc = "prog"]
          \/ obj' = [obj EXCEPT ![o].has_manual = hm, ![o].state = "PREPARED",
                                ![o].idx = one, ![o].pc = "idle"]
          \/ obj' = [obj EXCEPT ![o].has_manual = hm, ![o].ok = FALSE,
                                ![o].pc = "unpin", ![o].idx = one]
    BY ZenonT(30), <1>17, <2>o, PrepareProgsEffect
  <2>2. CASE x # o
    BY <1>0, <2>1, <2>2
  <2>3. CASE x = o
    <3>1. CASE obj'[o].state = "PREPARED"
      BY <2>3, <3>1
    <3>2. CASE obj'[o].ok = FALSE
      BY <2>3, <3>2
    <3>3. CASE obj' = [obj EXCEPT ![o].has_manual = hm, ![o].state = "PREPARED",
                                  ![o].idx = one, ![o].pc = "prog"]
      BY <1>0, <3>1, <3>3 DEF ObjectRecord
    <3>4. CASE obj' = [obj EXCEPT ![o].has_manual = hm, ![o].state = "PREPARED",
                                  ![o].idx = one, ![o].pc = "idle"]
      BY <1>0, <3>1, <3>4 DEF ObjectRecord
    <3>5. CASE obj' = [obj EXCEPT ![o].has_manual = hm, ![o].ok = FALSE,
                                  ![o].pc = "unpin", ![o].idx = one]
      BY <1>0, <3>2, <3>5 DEF ObjectRecord
    <3> QED BY Zenon, <2>1, <3>3, <3>4, <3>5
  <2> QED BY SMTT(30), <2>2, <2>3
<1>18. CASE CallLoad(o)
  BY <1>0, <1>18 DEF CallLoad, ObjectRecord
<1>19. CASE SkipProg(o)
  BY <1>0, <1>19 DEF SkipProg, ObjectRecord
<1>20. CASE LoadProg(o)
  BY <1>0, <1>20 DEF LoadProg, ObjectRecord
<1>21. CASE LoadProgFails(o)
  BY <1>0, <1>21 DEF LoadProgFails, ObjectRecord, LoadFailed
<1>22. CASE FinishLoadFails(o)
  BY <1>0, <1>22 DEF FinishLoadFails, ObjectRecord, LoadFailed
<1>23. CASE UnpinNext(o)
  BY <1>0, <1>23 DEF UnpinNext, ObjectRecord
<1>24. CASE Unload(o)
  BY <1>0, <1>24 DEF Unload, ObjectRecord, AllClosed, At, ObjectLocal, Undone, ObjectInv
<1>25. CASE \E p \in Progs : ProgramLoad(o, p)
  BY <1>0, <1>25 DEF ProgramLoad, ObjectRecord
<1>26. CASE \E p \in Progs : ProgramUnload(o, p)
  BY <1>0, <1>26 DEF ProgramUnload, ObjectRecord
<1>27. CASE Close(o)
  BY <1>0, <1>27 DEF Close, ObjectRecord
<1> QED
  BY ZenonT(30), <1>1, <1>2, <1>3, <1>4, <1>5, <1>6, <1>7, <1>8, <1>9,
     <1>10, <1>11, <1>12, <1>13, <1>14, <1>15, <1>16, <1>17, <1>18,
     <1>19, <1>20, <1>21, <1>22, <1>23, <1>24, <1>25, <1>26, <1>27
     DEF Setter, PrepareStep, LoadStep, CleanupStep, ProgramStep

\* A load that reports success has turned every placeholder it should into a
\* kernel map and has loaded every AUTO program and every program of a
\* PROG_ARRAY (bpf_object_load).
THEOREM LoadCompletes == Spec => LoadComplete
<1> DEFINE Complete(o) ==
      obj[o].state # "LOADED" /\ obj[o]'.state = "LOADED" /\ obj[o]'.ok =>
         /\ \A m \in Maps : obj[o].autocreate[m] => obj[o]'.fd[m] \in KMaps
         /\ \A p \in Progs : obj[o].strat[p] = "AUTO" \/ p \in ArrayProgs =>
              obj[o]'.prog_fd[p]
<1>1. ASSUME ObjectInv, NEW o \in Objs, FinishLoad(o), NEW x \in Objs
      PROVE  Complete(x)
  <2>0. obj[o] \in ObjectRecord /\ ObjectLocal(o, obj[o])
    BY <1>1 DEF ObjectInv, TypeOK
  <2>1. CASE x # o
    BY <1>1, <2>1 DEF FinishLoad, ObjectInv, TypeOK
  <2>2. CASE x = o
    <3>1. obj'[o].fd = obj[o].fd /\ obj'[o].prog_fd = obj[o].prog_fd
      BY <1>1, <2>0 DEF FinishLoad, PostLoadCleanup, ObjectInv, TypeOK, ObjectRecord
    <3>2. \A m \in Maps : obj[o].autocreate[m] => obj[o].fd[m] \in KMaps
      BY <1>1, <2>0 DEF FinishLoad, At, ObjectLocal, Progress
    <3>3. \A p \in Progs : p < obj[o].idx
      BY <1>1, <2>0, ObjectAssumption DEF FinishLoad, InProgs, Progs, ObjectRecord
    <3>4. \A p \in Progs : obj[o].strat[p] = "AUTO" => obj[o].prog_fd[p]
      BY <1>1, <2>0, <3>3 DEF FinishLoad, At, ObjectLocal, Progress
    <3>5. \A p \in ArrayProgs : obj[o].prog_fd[p]
      BY <1>1 DEF FinishLoad, ArraysReady
    <3> QED BY <2>2, <3>1, <3>2, <3>4, <3>5
  <2> QED BY <2>1, <2>2
<1>2. ASSUME ObjectInv, Next PROVE \A x \in Objs : Complete(x)
  <2> SUFFICES ASSUME NEW x \in Objs PROVE Complete(x)
    OBVIOUS
  <2>1. PICK o \in Objs : \/ Setter(o) \/ PrepareStep(o) \/ LoadStep(o)
                          \/ CleanupStep(o) \/ ProgramStep(o)
    BY <1>2 DEF Next
  <2>2. CASE FinishLoad(o)
    BY <1>1, <1>2, <2>2
  <2>3. CASE ~FinishLoad(o)
    BY <1>2, <2>1, <2>3, OnlyFinishLoad
  <2> QED BY <2>2, <2>3
<1>3. ObjectInv /\ [Next]_vars => [\A o \in Objs : Complete(o)]_vars
  BY <1>2
<1> QED BY ObjectInvariant, <1>3, PTL DEF Spec, LoadComplete

==============================================================================

---------------------------- MODULE PinningProofs ----------------------------
(***************************************************************************)
(* Proofs about Pinning for any directories, maps, programs and number of  *)
(* calls: the inductive invariant PinningInv, and from it that a call that *)
(* fails to pin has undone its work and that rollback removes nothing of   *)
(* another process.                                                        *)
(***************************************************************************)
EXTENDS Pinning, TLAPS

MapRec == [autocreate : BOOLEAN, pin_path : Paths \cup {Nothing}, pinned : BOOLEAN]

OpRec == [call : {"idle", "pin_maps", "pin_progs", "unpin_maps", "unpin_progs"},
          object : {None, "pin", "unpin"}, dir : Dirs \cup {None}, i : Nat,
          undo : BOOLEAN]

------------------------------------------------------------------------------
(* Names, paths and what can be pinned *)

LEMMA NameFacts ==
  /\ Len(MapNames) \in Nat /\ Maps = 1..Len(MapNames)
  /\ Len(ProgNames) \in Nat /\ Progs = 1..Len(ProgNames)
BY PinningAssumption DEF Maps, Progs

(* A path is no absence of one, and the pins of maps, of programs and of    *)
(* other processes are told apart.                                          *)
LEMMA PinFacts ==
  /\ Nothing \notin Paths /\ Nothing # Other
  /\ \A i : <<"map", i>> # Nothing /\ <<"map", i>> # Other
  /\ \A k : <<"prog", k>> # Nothing /\ <<"prog", k>> # Other
  /\ \A i, k : <<"map", i>> # <<"prog", k>>
  /\ \A i, j : <<"map", i>> = <<"map", j>> => i = j
  /\ \A i, j : <<"prog", i>> = <<"prog", j>> => i = j
<1>1. Nothing \notin Paths
  BY DEF Nothing, Paths
<1>2. Nothing # Other
  BY DEF Nothing, Other
<1>3. \A i : <<"map", i>> # Nothing /\ <<"map", i>> # Other
  BY DEF Nothing, Other
<1>4. \A k : <<"prog", k>> # Nothing /\ <<"prog", k>> # Other
  BY DEF Nothing, Other
<1>5. \A i, k : <<"map", i>> # <<"prog", k>>
  OBVIOUS
<1>6. \A i, j : <<"map", i>> = <<"map", j>> => i = j
  OBVIOUS
<1>7. \A i, j : <<"prog", i>> = <<"prog", j>> => i = j
  OBVIOUS
<1> QED
  BY <1>1, <1>2, <1>3, <1>4, <1>5, <1>6, <1>7

LEMMA PathFacts ==
  ASSUME NEW d \in Dirs
  PROVE  /\ \A i \in Maps : <<d, MapNames[i]>> \in Paths
         /\ \A k \in Progs : <<d, ProgNames[k]>> \in Paths
         /\ d # None
<1>1. \A i \in Maps : <<d, MapNames[i]>> \in Paths
  BY DEF Paths
<1>2. \A k \in Progs : <<d, ProgNames[k]>> \in Paths
  BY DEF Paths
<1> QED
  BY <1>1, <1>2, PinningAssumption

LEMMA PinsFacts ==
  /\ Nothing \in Pins /\ Other \in Pins
  /\ \A i \in Maps : <<"map", i>> \in Pins
  /\ \A k \in Progs : <<"prog", k>> \in Pins
BY DEF Pins

------------------------------------------------------------------------------
(* What one call on a map or a program can do *)

(* bpf_map__pin(): a failure leaves the files and the flag alone, and a pin *)
(* path that was set; a success finds the map pinned or makes a new file.   *)
LEMMA PinOutcome ==
  ASSUME TypeOK, NEW i \in Maps, NEW path \in Paths \cup {Nothing},
         NEW o \in bpf_map__pin(i, path)
  PROVE  /\ o.m \in MapRec /\ o.m.autocreate = map[i].autocreate
         /\ ~o.ok => /\ o.fs = fs /\ o.m.pinned = map[i].pinned
                     /\ map[i].pinned => o.m.pin_path = map[i].pin_path
         /\ o.ok => \/ /\ o.fs = fs /\ o.m = map[i] /\ map[i].pinned
                       /\ map[i].pin_path # Nothing
                       /\ path # Nothing => path = map[i].pin_path
                    \/ \E p \in Paths :
                         /\ fs[p] = Nothing /\ o.fs = [fs EXCEPT ![p] = <<"map", i>>]
                         /\ o.m.pinned /\ o.m.pin_path = p
                         /\ path # Nothing => path = p
                         /\ map[i].autocreate
<1> DEFINE m == map[i]
           set(p) == [m EXCEPT !.pin_path = p]
           pin(p) == IF m.autocreate
                     THEN ObjPin(p, <<"map", i>>, set(p), [set(p) EXCEPT !.pinned = TRUE])
                     ELSE {Outcome(FALSE, set(p), fs)}
<1>1. m \in MapRec
  BY DEF TypeOK, MapRec
<1>2. ASSUME NEW p \in Paths, o \in pin(p),
             p = m.pin_path \/ (m.pin_path = Nothing /\ ~m.pinned /\ p = path),
             path # Nothing => path = p
      PROVE  /\ o.m \in MapRec /\ o.m.autocreate = m.autocreate
             /\ ~o.ok => /\ o.fs = fs /\ o.m.pinned = m.pinned
                         /\ m.pinned => o.m.pin_path = m.pin_path
             /\ o.ok => /\ fs[p] = Nothing /\ o.fs = [fs EXCEPT ![p] = <<"map", i>>]
                        /\ o.m.pinned /\ o.m.pin_path = p /\ m.autocreate
  <2>1. /\ set(p) \in MapRec /\ set(p).autocreate = m.autocreate
        /\ set(p).pinned = m.pinned /\ set(p).pin_path = p
    BY <1>1 DEF MapRec
  <2>2. LET done == [set(p) EXCEPT !.pinned = TRUE]
        IN  /\ done \in MapRec /\ done.autocreate = m.autocreate
            /\ done.pinned /\ done.pin_path = p
    BY Zenon, <1>1 DEF MapRec
  <2> HIDE DEF set
  <2>3. CASE o = Outcome(FALSE, set(p), fs)
    BY <2>1, <2>3, <1>2 DEF Outcome
  <2>4. CASE m.autocreate /\ fs[p] = Nothing
             /\ o = Outcome(TRUE, [set(p) EXCEPT !.pinned = TRUE],
                            [fs EXCEPT ![p] = <<"map", i>>])
    BY Zenon, <2>2, <2>4 DEF Outcome
  <2> QED
    BY Zenon, <2>3, <2>4, <1>2 DEF ObjPin
<1>3. CASE o = Outcome(FALSE, m, fs)
  BY <1>1, <1>3 DEF Outcome
<1>4. CASE m.pin_path # Nothing /\ (path # Nothing => path = m.pin_path) /\ m.pinned
           /\ o = Outcome(TRUE, m, fs)
  BY <1>1, <1>4 DEF Outcome
<1>5. CASE /\ m.pin_path # Nothing /\ (path # Nothing => path = m.pin_path)
           /\ ~m.pinned /\ o \in pin(m.pin_path)
  <2>1. PICK p \in Paths : p = m.pin_path
    BY <1>1, <1>5 DEF MapRec
  <2>2. o \in pin(p) /\ (path # Nothing => path = p)
    BY Zenon, <2>1, <1>5
  <2> HIDE DEF pin, m
  <2>3. /\ o.m \in MapRec /\ o.m.autocreate = m.autocreate
        /\ ~o.ok => /\ o.fs = fs /\ o.m.pinned = m.pinned
                    /\ m.pinned => o.m.pin_path = m.pin_path
        /\ o.ok => /\ fs[p] = Nothing /\ o.fs = [fs EXCEPT ![p] = <<"map", i>>]
                   /\ o.m.pinned /\ o.m.pin_path = p /\ m.autocreate
    BY <2>1, <2>2, <1>2
  <2> QED
    BY Zenon, <2>1, <2>3, <1>5 DEF m
<1>6. CASE m.pin_path = Nothing /\ path # Nothing /\ ~m.pinned /\ o \in pin(path)
  <2>1. path \in Paths
    BY <1>6
  <2> HIDE DEF pin, m
  <2> QED
    BY Zenon, <2>1, <1>2, <1>6 DEF m
<1> QED
  BY Zenon, <1>3, <1>4, <1>5, <1>6 DEF bpf_map__pin

(* bpf_map__unpin(): a failure changes nothing; a success removes one file, *)
(* that of the pin path if there is one.  It does not fail if that is there. *)
LEMMA UnpinOutcome ==
  ASSUME TypeOK, NEW i \in Maps, NEW path \in Paths \cup {Nothing},
         NEW o \in bpf_map__unpin(i, path)
  PROVE  /\ o.m \in MapRec /\ o.m.autocreate = map[i].autocreate
         /\ o.m.pin_path = map[i].pin_path
         /\ ~o.ok => o.fs = fs /\ o.m = map[i]
         /\ o.ok => \E p \in Paths :
                      /\ fs[p] # Nothing /\ o.fs = [fs EXCEPT ![p] = Nothing]
                      /\ ~o.m.pinned
                      /\ map[i].pin_path # Nothing => p = map[i].pin_path
         /\ map[i].pin_path # Nothing /\ path \in {Nothing, map[i].pin_path}
              /\ fs[map[i].pin_path] # Nothing => o.ok
<1> DEFINE m == map[i]
           p == IF m.pin_path # Nothing THEN m.pin_path ELSE path
           done == [m EXCEPT !.pinned = FALSE]
<1>1. /\ m \in MapRec /\ done \in MapRec /\ done.autocreate = m.autocreate
      /\ done.pin_path = m.pin_path /\ ~done.pinned
  BY Zenon DEF TypeOK, MapRec
<1>2. CASE IF m.pin_path # Nothing THEN path \notin {Nothing, m.pin_path} ELSE path = Nothing
  <2>1. o = Outcome(FALSE, m, fs)
    BY Zenon, <1>2 DEF bpf_map__unpin
  <2> QED
    BY <2>1, <1>1, <1>2 DEF Outcome
<1>3. CASE ~IF m.pin_path # Nothing THEN path \notin {Nothing, m.pin_path} ELSE path = Nothing
  <2>1. o \in Unlink(p, m, done) /\ p \in Paths
    BY <1>1, <1>3 DEF bpf_map__unpin, MapRec
  <2>2. map[i].pin_path # Nothing => p = map[i].pin_path
    OBVIOUS
  <2> HIDE DEF m, p, done
  <2>3. CASE fs[p] = Nothing
    BY <2>1, <2>2, <2>3, <1>1 DEF Unlink, Outcome, m
  <2>4. CASE fs[p] # Nothing
    BY <2>1, <2>2, <2>4, <1>1 DEF Unlink, Outcome, m
  <2> QED
    BY <2>3, <2>4
<1> QED
  BY <1>2, <1>3

(* bpf_program__pin() and bpf_program__unpin(). *)
LEMMA ProgOutcome ==
  ASSUME NEW k \in Progs, NEW path \in Paths
  PROVE  /\ \A o \in bpf_program__pin(k, path) :
              /\ ~o.ok => o.fs = fs
              /\ o.ok => /\ loaded[k] /\ fs[path] = Nothing
                         /\ o.fs = [fs EXCEPT ![path] = <<"prog", k>>]
         /\ \A o \in bpf_program__unpin(k, path) :
              /\ ~o.ok => o.fs = fs
              /\ o.ok => fs[path] # Nothing /\ o.fs = [fs EXCEPT ![path] = Nothing]
              /\ loaded[k] /\ fs[path] # Nothing => o.ok
<1>1. ASSUME NEW o \in bpf_program__pin(k, path)
      PROVE  /\ ~o.ok => o.fs = fs
             /\ o.ok => /\ loaded[k] /\ fs[path] = Nothing
                        /\ o.fs = [fs EXCEPT ![path] = <<"prog", k>>]
  <2>1. CASE o = Outcome(FALSE, Nothing, fs)
    BY <2>1 DEF Outcome
  <2>2. CASE /\ loaded[k] /\ fs[path] = Nothing
             /\ o = Outcome(TRUE, Nothing, [fs EXCEPT ![path] = <<"prog", k>>])
    BY <2>2 DEF Outcome
  <2> QED
    BY Zenon, <1>1, <2>1, <2>2 DEF bpf_program__pin, ObjPin
<1>2. ASSUME NEW o \in bpf_program__unpin(k, path)
      PROVE  /\ ~o.ok => o.fs = fs
             /\ o.ok => fs[path] # Nothing /\ o.fs = [fs EXCEPT ![path] = Nothing]
             /\ loaded[k] /\ fs[path] # Nothing => o.ok
  <2>1. CASE o = Outcome(FALSE, Nothing, fs) /\ ~(loaded[k] /\ fs[path] # Nothing)
    BY <2>1 DEF Outcome
  <2>2. CASE o = Outcome(TRUE, Nothing, [fs EXCEPT ![path] = Nothing])
             /\ fs[path] # Nothing
    BY <2>2 DEF Outcome
  <2> QED
    BY Zenon, <1>2, <2>1, <2>2 DEF bpf_program__unpin, Unlink
<1> QED
  BY Zenon, <1>1, <1>2

------------------------------------------------------------------------------
(* How the pins of the object change with the files *)

LEMMA OurPinsIs ==
  \A pr : pr \in OurPins <=> \E p \in Paths : pr = <<p, fs[p]>> /\ fs[p] \notin {Nothing, Other}
BY DEF OurPins

(* A new file is the only new pin. *)
LEMMA OurPinsAdd ==
  ASSUME NEW p \in Paths, NEW w, fs'[p] = w, \A q \in Paths : q # p => fs'[q] = fs[q]
  PROVE  \A pr \in OurPins' : pr \in OurPins \/ pr = <<p, w>>
<1> SUFFICES ASSUME NEW pr \in OurPins' PROVE pr \in OurPins \/ pr = <<p, w>>
  OBVIOUS
<1>1. PICK q \in Paths : pr = <<q, fs'[q]>> /\ fs'[q] \notin {Nothing, Other}
  BY DEF OurPins
<1>2. CASE q = p
  BY <1>1, <1>2
<1>3. CASE q # p
  <2>1. fs'[q] = fs[q]
    BY <1>3
  <2> QED
    BY <2>1, <1>1, OurPinsIs
<1> QED
  BY <1>2, <1>3

(* Removing a file removes what was pinned there. *)
LEMMA OurPinsDel ==
  ASSUME NEW p \in Paths, fs'[p] = Nothing, \A q \in Paths : q # p => fs'[q] = fs[q]
  PROVE  \A pr \in OurPins' : pr \in OurPins /\ \A w : pr # <<p, w>>
<1> SUFFICES ASSUME NEW pr \in OurPins' PROVE pr \in OurPins /\ \A w : pr # <<p, w>>
  OBVIOUS
<1>1. PICK q \in Paths : pr = <<q, fs'[q]>> /\ fs'[q] \notin {Nothing, Other}
  BY DEF OurPins
<1>2. q # p
  BY <1>1
<1>3. fs'[q] = fs[q]
  BY <1>2
<1> QED
  BY <1>1, <1>2, <1>3, OurPinsIs

------------------------------------------------------------------------------
(* Initially, and what most steps share *)

LEMMA InitInv == Init => PinningInv
<1> SUFFICES ASSUME Init PROVE PinningInv
  OBVIOUS
<1>1. TypeOK
  <2>1. map \in [Maps -> MapRec]
    BY Zenon DEF Init, MapRec
  <2>2. fs \in [Paths -> Pins]
    BY PinsFacts DEF Init
  <2>3. before.pins = {} /\ before.plain = FALSE
        /\ before = [pins |-> {}, plain |-> FALSE]
    BY DEF Init
  <2> QED
    BY <2>1, <2>2, <2>3 DEF Init, TypeOK, Idle, MapRec, None
<1>2. CallsOK /\ WorkKnown
  BY DEF Init, CallsOK, WorkKnown, Idle, None
<1> QED
  BY <1>1, <1>2 DEF PinningInv

(* Between object-wide calls nothing is known. *)
LEMMA IdleKnown ==
  ASSUME op' = Idle PROVE CallsOK' /\ WorkKnown'
BY DEF CallsOK, WorkKnown, PinCall, Idle, None

(* The parts of op after a step that moves the index. *)
LEMMA OpStep ==
  ASSUME TypeOK
  PROVE  /\ \A n : op' = [op EXCEPT !.i = n] =>
                   op'.i = n /\ op'.call = op.call /\ op'.object = op.object
                   /\ op'.dir = op.dir /\ op'.undo = op.undo
         /\ \A n : op' = [op EXCEPT !.undo = TRUE, !.i = n] =>
                   op'.i = n /\ op'.call = op.call /\ op'.object = op.object
                   /\ op'.dir = op.dir /\ op'.undo = TRUE
         /\ \A n, c : op' = [op EXCEPT !.call = c, !.i = n] =>
                   op'.i = n /\ op'.call = c /\ op'.object = op.object
                   /\ op'.dir = op.dir /\ op'.undo = op.undo
BY Zenon DEF TypeOK

(* What a step of a call in progress must show: files, flags and index      *)
(* agree again.                                                             *)
LEMMA KnownStep ==
  ASSUME PinningInv, before' = before, op.call # "idle",
         before.plain =>
           /\ \A pr \in OurPins' : pr \in MadePins' \/ (pr \in OurPins /\ pr \notin MadePins)
           /\ PinCall' =>
                /\ Plain'
                /\ \A j \in MapsDone' : map'[j].pin_path # Nothing => map'[j].pinned
                /\ op'.dir # None =>
                     \A j \in MapsDone' : map'[j].pin_path = <<op'.dir, MapNames[j]>>
                /\ \A k \in ProgsDone' : loaded'[k] /\ fs'[ProgPath(k)'] = <<"prog", k>>
  PROVE  WorkKnown'
<1> SUFFICES ASSUME before.plain
             PROVE  /\ OurPins' \subseteq before.pins \cup MadePins'
                    /\ PinCall' =>
                         /\ Plain'
                         /\ \A j \in MapsDone' : map'[j].pin_path # Nothing => map'[j].pinned
                         /\ op'.dir # None =>
                              \A j \in MapsDone' : map'[j].pin_path = <<op'.dir, MapNames[j]>>
                         /\ \A k \in ProgsDone' : loaded'[k]
                                                  /\ fs'[ProgPath(k)'] = <<"prog", k>>
  BY DEF WorkKnown
<1>1. OurPins \subseteq before.pins \cup MadePins
  BY DEF PinningInv, WorkKnown
<1> QED
  BY <1>1

LEMMA MadePinsIs ==
  \A pr : pr \in MadePins <=>
    \/ \E j \in MapsDone : map[j].pin_path # Nothing /\ pr = <<map[j].pin_path, <<"map", j>>>>
    \/ \E k \in ProgsDone : pr = <<ProgPath(k), <<"prog", k>>>>
BY DEF MadePins

LEMMA TypeStep ==
  ASSUME TypeOK, map' \in [Maps -> MapRec], fs' \in [Paths -> Pins], op' \in OpRec,
         UNCHANGED <<loaded, before, calls>>
  PROVE  TypeOK'
BY DEF TypeOK, MapRec, OpRec

LEMMA OpTypes ==
  ASSUME TypeOK, NEW n \in Nat
  PROVE  /\ Idle \in OpRec /\ op \in OpRec /\ op.i \in Nat
         /\ [op EXCEPT !.i = n] \in OpRec
         /\ [op EXCEPT !.undo = TRUE, !.i = n] \in OpRec
         /\ \A c \in {"pin_progs", "unpin_maps"} : [op EXCEPT !.call = c, !.i = n] \in OpRec
BY Zenon DEF TypeOK, OpRec, Idle, None

(* While a call pins and was begun with everything in order. *)
LEMMA KnownFacts ==
  ASSUME PinningInv, PinCall, before.plain
  PROVE  /\ op.call # "idle"
         /\ \A j \in Maps : /\ map[j].autocreate
                            /\ map[j].pinned => /\ map[j].pin_path # Nothing
                                                /\ fs[map[j].pin_path] = <<"map", j>>
         /\ \A j \in MapsDone : map[j].pin_path # Nothing => map[j].pinned
         /\ op.dir # None => \A j \in MapsDone : map[j].pin_path = <<op.dir, MapNames[j]>>
         /\ \A k \in ProgsDone : loaded[k] /\ fs[ProgPath(k)] = <<"prog", k>>
<1>1. op.call # "idle"
  BY DEF PinCall
<1> QED
  BY <1>1 DEF PinningInv, WorkKnown, Plain

(* One more map is dealt with, and the pin of it, if it has one, is known.  *)
LEMMA MapKnown ==
  ASSUME PinningInv, PinCall, before' = before, loaded' = loaded, NEW n \in Maps,
         NEW S, MapsDone' = S, n \notin MapsDone,
         MapsDone \subseteq S, S \subseteq MapsDone \cup {n},
         ProgsDone = {}, ProgsDone' = {}, op'.dir = op.dir,
         map' \in [Maps -> MapRec], \A j \in Maps : j # n => map'[j] = map[j],
         map'[n].autocreate = map[n].autocreate,
         before.plain =>
           \/ /\ fs' = fs /\ map'[n].pinned = map[n].pinned
              /\ map[n].pinned => map'[n].pin_path = map[n].pin_path
              /\ n \in S /\ map'[n].pin_path # Nothing => map'[n].pinned
           \/ /\ n \in S /\ map'[n].pinned /\ map'[n].pin_path \in Paths
              /\ fs[map'[n].pin_path] = Nothing
              /\ fs' = [fs EXCEPT ![map'[n].pin_path] = <<"map", n>>],
         before.plain /\ n \in S /\ op.dir # None =>
           map'[n].pin_path = <<op.dir, MapNames[n]>>
  PROVE  WorkKnown'
<1> USE DEF PinningInv
<1>1. op.call # "idle"
  BY DEF PinCall
<1>2. SUFFICES ASSUME before.plain
               PROVE  /\ \A pr \in OurPins' : pr \in MadePins' \/ (pr \in OurPins /\ pr \notin MadePins)
                      /\ Plain'
                      /\ \A j \in MapsDone' : map'[j].pin_path # Nothing => map'[j].pinned
                      /\ op'.dir # None =>
                           \A j \in MapsDone' : map'[j].pin_path = <<op'.dir, MapNames[j]>>
                      /\ \A k \in ProgsDone' : loaded'[k] /\ fs'[ProgPath(k)'] = <<"prog", k>>
  BY <1>1, KnownStep
<1>3. /\ \A j \in Maps : /\ map[j].autocreate
                         /\ map[j].pinned => /\ map[j].pin_path # Nothing
                                             /\ fs[map[j].pin_path] = <<"map", j>>
      /\ \A j \in MapsDone : map[j].pin_path # Nothing => map[j].pinned
      /\ op.dir # None => \A j \in MapsDone : map[j].pin_path = <<op.dir, MapNames[j]>>
  BY <1>2, KnownFacts
<1>4. MapsDone \subseteq Maps /\ (\A j \in MapsDone : j # n /\ map'[j] = map[j])
      /\ \A j \in S : j \in MapsDone \/ j = n
  BY DEF MapsDone
<1>5. \A pr \in MadePins : pr \in MadePins'
  <2>1. SUFFICES ASSUME NEW pr \in MadePins PROVE pr \in MadePins'
    OBVIOUS
  <2>2. PICK j \in MapsDone : map[j].pin_path # Nothing /\ pr = <<map[j].pin_path, <<"map", j>>>>
    BY MadePinsIs
  <2>3. j \in MapsDone' /\ map'[j].pin_path # Nothing /\ pr = <<map'[j].pin_path, <<"map", j>>>>
    BY <2>2, <1>4
  <2> QED
    BY <2>3 DEF MadePins
<1>6. CASE /\ fs' = fs /\ map'[n].pinned = map[n].pinned
           /\ map[n].pinned => map'[n].pin_path = map[n].pin_path
           /\ n \in S /\ map'[n].pin_path # Nothing => map'[n].pinned
  <2>1. OurPins' = OurPins
    BY <1>6 DEF OurPins
  <2>2. ASSUME NEW j \in Maps
        PROVE  map'[j].autocreate /\ (map'[j].pinned => /\ map'[j].pin_path # Nothing
                                                       /\ fs'[map'[j].pin_path] = <<"map", j>>)
    <3>1. CASE j = n
      BY ZenonT(30), <3>1, <1>3, <1>6
    <3>2. CASE j # n
      BY ZenonT(30), <3>2, <1>3, <1>6
    <3> QED
      BY <3>1, <3>2
  <2>3. \A j \in S : map'[j].pin_path # Nothing => map'[j].pinned
    BY <1>3, <1>4, <1>6
  <2>4. op'.dir # None => \A j \in S : map'[j].pin_path = <<op'.dir, MapNames[j]>>
    BY <1>2, <1>3, <1>4
  <2> QED
    BY <2>1, <2>2, <2>3, <2>4, <1>5 DEF Plain
<1>7. CASE /\ n \in S /\ map'[n].pinned /\ map'[n].pin_path \in Paths
           /\ fs[map'[n].pin_path] = Nothing
           /\ fs' = [fs EXCEPT ![map'[n].pin_path] = <<"map", n>>]
  <2>0. PICK p \in Paths : p = map'[n].pin_path
    BY <1>7
  <2>1. fs[p] = Nothing /\ fs' = [fs EXCEPT ![p] = <<"map", n>>] /\ p # Nothing
        /\ fs'[p] = <<"map", n>> /\ (\A q \in Paths : q # p => fs'[q] = fs[q])
    BY <2>0, <1>7, PinFacts DEF TypeOK
  <2>2. ASSUME NEW j \in Maps
        PROVE  map'[j].autocreate /\ (map'[j].pinned => /\ map'[j].pin_path # Nothing
                                                       /\ fs'[map'[j].pin_path] = <<"map", j>>)
    <3>1. CASE j = n
      BY <3>1, <2>0, <2>1, <1>3
    <3>2. CASE j # n
      <4>1. map'[j] = map[j] /\ map[j].autocreate
        BY <3>2, <1>3
      <4>2. ASSUME map[j].pinned
            PROVE  map[j].pin_path # Nothing /\ fs'[map[j].pin_path] = <<"map", j>>
        <5>1. map[j].pin_path # Nothing /\ fs[map[j].pin_path] = <<"map", j>>
          BY <4>2, <1>3
        <5>2. map[j].pin_path \in Paths
          BY <5>1 DEF TypeOK
        <5>3. map[j].pin_path # p
          BY <5>1, <2>1, PinFacts
        <5> QED
          BY <5>1, <5>2, <5>3, <2>1
      <4> QED
        BY <4>1, <4>2
    <3> QED
      BY <3>1, <3>2
  <2>3. \A j \in S : map'[j].pin_path # Nothing => map'[j].pinned
    BY <1>3, <1>4, <1>7
  <2>4. op'.dir # None => \A j \in S : map'[j].pin_path = <<op'.dir, MapNames[j]>>
    BY <1>2, <1>3, <1>4
  <2>5. \A pr \in OurPins' : pr \in OurPins \/ pr = <<p, <<"map", n>>>>
    BY Zenon, <2>1, OurPinsAdd
  <2>6. <<p, <<"map", n>>>> \in MadePins'
    BY <2>0, <2>1, <1>7 DEF MadePins
  <2> QED
    BY <2>2, <2>3, <2>4, <2>5, <2>6, <1>5 DEF Plain
<1> QED
  BY <1>2, <1>6, <1>7

(* One map fewer: its pin, if it had one, is gone, and no other is.         *)
LEMMA MapUndone ==
  ASSUME PinningInv, PinCall, before' = before, loaded' = loaded, NEW n \in MapsDone,
         MapsDone' = MapsDone \ {n}, ProgsDone = {}, ProgsDone' = {}, op'.dir = op.dir,
         map' \in [Maps -> MapRec], \A j \in Maps : j # n => map'[j] = map[j],
         map'[n].autocreate = map[n].autocreate,
         before.plain =>
           \/ map[n].pin_path = Nothing /\ map' = map /\ fs' = fs
           \/ /\ map[n].pin_path \in Paths /\ ~map'[n].pinned
              /\ fs' = [fs EXCEPT ![map[n].pin_path] = Nothing]
  PROVE  WorkKnown'
<1> USE DEF PinningInv
<1>1. op.call # "idle" /\ n \in Maps
  BY DEF PinCall, MapsDone
<1>2. SUFFICES ASSUME before.plain
               PROVE  /\ \A pr \in OurPins' : pr \in MadePins' \/ (pr \in OurPins /\ pr \notin MadePins)
                      /\ Plain'
                      /\ \A j \in MapsDone' : map'[j].pin_path # Nothing => map'[j].pinned
                      /\ op'.dir # None =>
                           \A j \in MapsDone' : map'[j].pin_path = <<op'.dir, MapNames[j]>>
                      /\ \A k \in ProgsDone' : loaded'[k] /\ fs'[ProgPath(k)'] = <<"prog", k>>
  BY <1>1, KnownStep
<1>3. /\ \A j \in Maps : /\ map[j].autocreate
                         /\ map[j].pinned => /\ map[j].pin_path # Nothing
                                             /\ fs[map[j].pin_path] = <<"map", j>>
      /\ \A j \in MapsDone : map[j].pin_path # Nothing => map[j].pinned
      /\ op.dir # None => \A j \in MapsDone : map[j].pin_path = <<op.dir, MapNames[j]>>
  BY Zenon, <1>2, KnownFacts
<1>4. \A j \in MapsDone' : j \in Maps /\ j \in MapsDone /\ j # n /\ map'[j] = map[j]
  BY DEF MapsDone
<1>5. /\ \A j \in MapsDone' : map'[j].pin_path # Nothing => map'[j].pinned
      /\ op'.dir # None => \A j \in MapsDone' : map'[j].pin_path = <<op'.dir, MapNames[j]>>
  BY <1>3, <1>4
<1>6. ASSUME NEW pr \in MadePins, pr # <<map[n].pin_path, <<"map", n>>>>
      PROVE  pr \in MadePins'
  <2>1. PICK j \in MapsDone : map[j].pin_path # Nothing /\ pr = <<map[j].pin_path, <<"map", j>>>>
    BY MadePinsIs
  <2>2. j \in MapsDone' /\ map'[j].pin_path # Nothing /\ pr = <<map'[j].pin_path, <<"map", j>>>>
    <3>1. j # n
      BY <2>1, <1>6
    <3>2. j \in MapsDone'
      BY <3>1
    <3> QED
      BY <3>2, <2>1, <1>4
  <2> QED
    BY <2>2 DEF MadePins
<1>7. CASE map[n].pin_path = Nothing /\ map' = map /\ fs' = fs
  <2>1. OurPins' = OurPins /\ Plain'
    BY <1>3, <1>7 DEF OurPins, Plain
  <2>2. \A pr \in OurPins : pr # <<map[n].pin_path, <<"map", n>>>>
    BY <1>7, PinFacts DEF OurPins
  <2> QED
    BY <2>1, <2>2, <1>5, <1>6
<1>8. CASE /\ map[n].pin_path \in Paths /\ ~map'[n].pinned
           /\ fs' = [fs EXCEPT ![map[n].pin_path] = Nothing]
  <2>0. PICK p \in Paths : p = map[n].pin_path
    BY <1>8
  <2>1. fs[p] = <<"map", n>> /\ fs'[p] = Nothing /\ (\A q \in Paths : q # p => fs'[q] = fs[q])
    BY <2>0, <1>1, <1>3, <1>8, PinFacts DEF TypeOK
  <2>2. ASSUME NEW j \in Maps
        PROVE  map'[j].autocreate /\ (map'[j].pinned => /\ map'[j].pin_path # Nothing
                                                       /\ fs'[map'[j].pin_path] = <<"map", j>>)
    <3>1. CASE j = n
      BY <3>1, <1>1, <1>3, <1>8
    <3>2. CASE j # n
      <4>1. map'[j] = map[j] /\ map[j].autocreate
        BY <3>2, <1>3
      <4>2. ASSUME map[j].pinned
            PROVE  map[j].pin_path # Nothing /\ fs'[map[j].pin_path] = <<"map", j>>
        <5>1. map[j].pin_path # Nothing /\ fs[map[j].pin_path] = <<"map", j>>
          BY <4>2, <1>3
        <5>2. map[j].pin_path \in Paths
          BY <5>1 DEF TypeOK
        <5>3. map[j].pin_path # p
          BY <5>1, <3>2, <2>1, PinFacts
        <5> QED
          BY <5>1, <5>2, <5>3, <2>1
      <4> QED
        BY <4>1, <4>2
    <3> QED
      BY <3>1, <3>2
  <2>3. \A pr \in OurPins' : pr \in OurPins /\ \A w : pr # <<p, w>>
    BY <2>1, OurPinsDel
  <2> QED
    BY <2>0, <2>2, <2>3, <1>5, <1>6 DEF Plain
<1> QED
  BY <1>2, <1>7, <1>8

------------------------------------------------------------------------------
(* The steps of the object-wide calls *)

LEMMA MapStepFacts ==
  ASSUME TypeOK, NEW n \in Maps, NEW m \in MapRec, map' = [map EXCEPT ![n] = m]
  PROVE  /\ map' \in [Maps -> MapRec] /\ map'[n] = m
         /\ \A j \in Maps : j # n => map'[j] = map[j]
BY DEF TypeOK, MapRec

LEMMA FsStepFacts ==
  ASSUME TypeOK, NEW p \in Paths, NEW w \in Pins
  PROVE  [fs EXCEPT ![p] = w] \in [Paths -> Pins]
BY DEF TypeOK

LEMMA PinMapsStepInv == PinningInv /\ PinMapsStep => PinningInv'
<1> SUFFICES ASSUME PinningInv, PinMapsStep PROVE PinningInv'
  OBVIOUS
<1>0. PICK n \in Maps : n = op.i
  BY DEF PinMapsStep
<1>1. /\ TypeOK /\ op.call = "pin_maps" /\ op.undo = FALSE /\ PinCall
      /\ op.dir \in Dirs \cup {None} /\ n \in Nat /\ n >= 1
      /\ UNCHANGED <<loaded, before, calls>>
  BY <1>0, NameFacts DEF PinMapsStep, PinningInv, TypeOK, PinCall
<1>2. /\ MapPath(n) \in Paths \cup {Nothing}
      /\ op.dir # None => MapPath(n) = <<op.dir, MapNames[n]>> /\ MapPath(n) # Nothing
  BY <1>1, PathFacts, PinFacts DEF MapPath
<1>3. MapsDone = {j \in Maps : j <= n - 1} /\ ProgsDone = {} /\ n \notin MapsDone
  BY <1>0, <1>1 DEF MapsDone, ProgsDone, Reached
<1>4. ASSUME op'.call = op.call, op'.object = op.object, op'.dir = op.dir,
             \/ op'.undo = TRUE /\ op'.i = n - 1
             \/ op'.undo = FALSE /\ op'.i = n + 1
      PROVE  /\ CallsOK' /\ ProgsDone' = {}
             /\ op'.undo => MapsDone' = MapsDone
             /\ ~op'.undo => MapsDone' = MapsDone \cup {n}
  <2>1. CallsOK'
    BY <1>1, <1>4 DEF CallsOK, PinCall, PinningInv
  <2>2. ProgsDone' = {}
    BY <1>1, <1>4 DEF ProgsDone
  <2>3. op'.undo => MapsDone' = MapsDone
    BY Zenon, <1>1, <1>3, <1>4 DEF MapsDone, Reached
  <2>4. ~op'.undo => MapsDone' = MapsDone \cup {n}
    <3>1. \A j \in Maps : j <= (n + 1) - 1 <=> (j <= n - 1 \/ j = n)
      BY <1>1, NameFacts
    <3>2. ~op'.undo => MapsDone' = {j \in Maps : j <= (n + 1) - 1}
      BY <1>1, <1>4 DEF MapsDone, Reached
    <3> QED
      BY <3>1, <3>2, <1>3
  <2> QED
    BY <2>1, <2>2, <2>3, <2>4
<1>5. CASE /\ ~map[n].autocreate \/ (op.dir = None /\ map[n].pin_path = Nothing)
           /\ op' = [op EXCEPT !.i = op.i + 1] /\ map' = map /\ fs' = fs
  <2>1. /\ op'.call = op.call /\ op'.object = op.object /\ op'.dir = op.dir
        /\ op'.undo = FALSE /\ op'.i = n + 1
    BY Zenon, <1>0, <1>1, <1>5, OpStep
  <2>2. TypeOK'
    <3>1. op' \in OpRec
      <4>1. op' = [op EXCEPT !.i = n + 1] /\ n + 1 \in Nat
        BY <1>0, <1>1, <1>5
      <4> QED
        BY Zenon, <4>1, <1>1, OpTypes
    <3> QED
      BY <3>1, <1>1, <1>5, TypeStep DEF TypeOK, MapRec
  <2>3. CallsOK' /\ ProgsDone' = {} /\ MapsDone' = MapsDone \cup {n}
    BY Zenon, <2>1, <1>4
  <2>4. map \in [Maps -> MapRec]
    BY <1>1 DEF TypeOK, MapRec
  <2>5. ASSUME before.plain PROVE op.dir = None /\ map[n].pin_path = Nothing
    BY <2>5, <1>1, <1>5, KnownFacts
  <2>6. WorkKnown'
    BY <2>1, <2>3, <2>4, <2>5, <1>1, <1>3, <1>5, MapKnown
  <2> QED
    BY <2>2, <2>3, <2>6 DEF PinningInv
<1>6. ASSUME NEW o \in bpf_map__pin(n, MapPath(n)),
             map' = [map EXCEPT ![n] = o.m], fs' = o.fs,
             op' = IF o.ok THEN [op EXCEPT !.i = op.i + 1]
                   ELSE [op EXCEPT !.undo = TRUE, !.i = op.i - 1]
      PROVE  PinningInv'
  <2>1. /\ o.m \in MapRec /\ o.m.autocreate = map[n].autocreate
        /\ ~o.ok => /\ o.fs = fs /\ o.m.pinned = map[n].pinned
                    /\ map[n].pinned => o.m.pin_path = map[n].pin_path
        /\ o.ok => \/ /\ o.fs = fs /\ o.m = map[n] /\ map[n].pinned
                      /\ map[n].pin_path # Nothing
                      /\ MapPath(n) # Nothing => MapPath(n) = map[n].pin_path
                   \/ \E p \in Paths :
                        /\ fs[p] = Nothing /\ o.fs = [fs EXCEPT ![p] = <<"map", n>>]
                        /\ o.m.pinned /\ o.m.pin_path = p
                        /\ MapPath(n) # Nothing => MapPath(n) = p
                        /\ map[n].autocreate
    BY <1>1, <1>2, PinOutcome
  <2>2. /\ map' \in [Maps -> MapRec] /\ map'[n] = o.m
        /\ \A j \in Maps : j # n => map'[j] = map[j]
    BY Zenon, <2>1, <1>1, <1>6, MapStepFacts
  <2>3. fs' \in [Paths -> Pins]
    <3>1. CASE o.fs = fs
      BY <3>1, <1>1, <1>6 DEF TypeOK
    <3>2. CASE \E p \in Paths : o.fs = [fs EXCEPT ![p] = <<"map", n>>]
      BY <3>2, <1>1, <1>6, FsStepFacts, PinsFacts
    <3> QED
      BY Zenon, <3>1, <3>2, <2>1
  <2>4. CASE o.ok
    <3>1. /\ op'.call = op.call /\ op'.object = op.object /\ op'.dir = op.dir
          /\ op'.undo = FALSE /\ op'.i = n + 1 /\ op' \in OpRec
      <4>1. op' = [op EXCEPT !.i = n + 1] /\ n + 1 \in Nat
        BY <2>4, <1>0, <1>1, <1>6
      <4> QED
        BY Zenon, <4>1, <1>1, OpStep, OpTypes
    <3>2. CallsOK' /\ ProgsDone' = {} /\ MapsDone' = MapsDone \cup {n}
      BY Zenon, <3>1, <1>4
    <3>3. \/ fs' = fs /\ map'[n] = map[n] /\ map[n].pinned
          \/ /\ map'[n].pinned /\ map'[n].pin_path \in Paths
             /\ fs[map'[n].pin_path] = Nothing
             /\ fs' = [fs EXCEPT ![map'[n].pin_path] = <<"map", n>>]
      BY Zenon, <2>1, <2>2, <2>4, <1>6
    <3>4. op.dir # None => map'[n].pin_path = <<op.dir, MapNames[n]>>
      BY ZenonT(30), <2>1, <2>2, <2>4, <1>2
    <3>5. map'[n].autocreate = map[n].autocreate
      BY <2>1, <2>2
    <3>6. WorkKnown'
      BY <3>1, <3>2, <3>3, <3>4, <3>5, <2>2, <1>1, <1>3, MapKnown
    <3>7. TypeOK'
      BY <3>1, <2>2, <2>3, <1>1, TypeStep
    <3> QED
      BY <3>2, <3>6, <3>7 DEF PinningInv
  <2>5. CASE ~o.ok
    <3>1. /\ op'.call = op.call /\ op'.object = op.object /\ op'.dir = op.dir
          /\ op'.undo = TRUE /\ op'.i = n - 1 /\ op' \in OpRec
      <4>1. op' = [op EXCEPT !.undo = TRUE, !.i = n - 1] /\ n - 1 \in Nat
        BY <2>5, <1>0, <1>1, <1>6
      <4> QED
        BY Zenon, <4>1, <1>1, OpStep, OpTypes
    <3>2. CallsOK' /\ ProgsDone' = {} /\ MapsDone' = MapsDone
      BY Zenon, <3>1, <1>4
    <3>3. /\ fs' = fs /\ map'[n].pinned = map[n].pinned
          /\ map[n].pinned => map'[n].pin_path = map[n].pin_path
          /\ map'[n].autocreate = map[n].autocreate
      BY <2>1, <2>2, <2>5, <1>6
    <3>4. WorkKnown'
      BY <3>1, <3>2, <3>3, <2>2, <1>1, <1>3, MapKnown
    <3>5. TypeOK'
      BY <3>1, <2>2, <2>3, <1>1, TypeStep
    <3> QED
      BY <3>2, <3>4, <3>5 DEF PinningInv
  <2> QED
    BY <2>4, <2>5
<1> QED
  BY <1>0, <1>5, <1>6 DEF PinMapsStep

LEMMA UndoPinMapsInv == PinningInv /\ UndoPinMaps => PinningInv'
<1> SUFFICES ASSUME PinningInv, UndoPinMaps PROVE PinningInv'
  OBVIOUS
<1>0. PICK n \in Maps : n = op.i
  BY DEF UndoPinMaps
<1>1. /\ TypeOK /\ op.call = "pin_maps" /\ op.undo = TRUE /\ PinCall
      /\ n \in Nat /\ n >= 1 /\ n - 1 \in Nat
      /\ op' = [op EXCEPT !.i = n - 1]
      /\ UNCHANGED <<loaded, before, calls>>
  BY <1>0, NameFacts DEF UndoPinMaps, PinningInv, TypeOK, PinCall
<1>2. /\ op'.call = op.call /\ op'.object = op.object /\ op'.dir = op.dir
      /\ op'.undo = TRUE /\ op'.i = n - 1 /\ op' \in OpRec
  BY Zenon, <1>1, OpStep, OpTypes
<1>3. /\ MapsDone = {j \in Maps : j <= n} /\ ProgsDone = {} /\ n \in MapsDone
      /\ MapsDone' = {j \in Maps : j <= n - 1} /\ ProgsDone' = {}
  BY <1>0, <1>1, <1>2 DEF MapsDone, ProgsDone, Reached
<1>4. MapsDone' = MapsDone \ {n}
  <2>1. \A j \in Maps : j <= n - 1 <=> (j <= n /\ j # n)
    BY <1>1, NameFacts
  <2> QED
    BY <2>1, <1>3
<1>5. CallsOK'
  BY <1>1, <1>2 DEF CallsOK, PinCall, PinningInv
<1>6. CASE map[n].pin_path = Nothing /\ map' = map /\ fs' = fs
  <2>1. map \in [Maps -> MapRec] /\ fs \in [Paths -> Pins]
    BY <1>1 DEF TypeOK, MapRec
  <2>2. TypeOK'
    BY <2>1, <1>1, <1>2, <1>6, TypeStep
  <2>3. WorkKnown'
    BY <2>1, <1>1, <1>2, <1>3, <1>4, <1>6, MapUndone
  <2> QED
    BY <2>2, <2>3, <1>5 DEF PinningInv
<1>7. ASSUME map[n].pin_path # Nothing, NEW o \in bpf_map__unpin(n, Nothing),
             map' = [map EXCEPT ![n] = o.m], fs' = o.fs
      PROVE  PinningInv'
  <2>1. /\ o.m \in MapRec /\ o.m.autocreate = map[n].autocreate
        /\ ~o.ok => o.fs = fs
        /\ o.ok => \E p \in Paths :
                     /\ o.fs = [fs EXCEPT ![p] = Nothing]
                     /\ ~o.m.pinned /\ p = map[n].pin_path
        /\ fs[map[n].pin_path] # Nothing => o.ok
    BY <1>1, <1>7, UnpinOutcome
  <2>2. /\ map' \in [Maps -> MapRec] /\ map'[n] = o.m
        /\ \A j \in Maps : j # n => map'[j] = map[j]
    BY Zenon, <2>1, <1>1, <1>7, MapStepFacts
  <2>3. fs' \in [Paths -> Pins]
    <3>1. CASE o.fs = fs
      BY <3>1, <1>1, <1>7 DEF TypeOK
    <3>2. CASE \E p \in Paths : o.fs = [fs EXCEPT ![p] = Nothing]
      BY <3>2, <1>1, <1>7, FsStepFacts, PinsFacts
    <3> QED
      BY Zenon, <3>1, <3>2, <2>1
  <2>4. ASSUME before.plain
        PROVE  /\ map[n].pin_path \in Paths /\ ~map'[n].pinned
               /\ fs' = [fs EXCEPT ![map[n].pin_path] = Nothing]
    <3>1. fs[map[n].pin_path] = <<"map", n>>
      BY <2>4, <1>1, <1>3, <1>7, KnownFacts
    <3>2. o.ok
      BY <3>1, <2>1, PinFacts
    <3> QED
      BY Zenon, <3>2, <2>1, <2>2, <1>7
  <2>5. map'[n].autocreate = map[n].autocreate
    BY <2>1, <2>2
  <2>6. WorkKnown'
    BY <2>2, <2>4, <2>5, <1>1, <1>2, <1>3, <1>4, MapUndone
  <2>7. TypeOK'
    BY <2>2, <2>3, <1>1, <1>2, TypeStep
  <2> QED
    BY <2>6, <2>7, <1>5 DEF PinningInv
<1> QED
  BY <1>0, <1>6, <1>7 DEF UndoPinMaps

(* Calls that do not pin have no pins to remember. *)
LEMMA NoMadePins ==
  ASSUME ~PinCall PROVE MapsDone = {} /\ ProgsDone = {} /\ MadePins = {}
<1>1. MapsDone = {} /\ ProgsDone = {}
  BY DEF PinCall, MapsDone, ProgsDone
<1> QED
  BY <1>1 DEF MadePins

LEMMA OurPinsLess ==
  ASSUME PinningInv, op.call # "idle", before' = before, ~PinCall,
         \A pr \in OurPins' : pr \in OurPins, ~PinCall'
  PROVE  WorkKnown'
BY NoMadePins, KnownStep

LEMMA UnpinMapsStepInv == PinningInv /\ UnpinMapsStep => PinningInv'
<1> SUFFICES ASSUME PinningInv, UnpinMapsStep PROVE PinningInv'
  OBVIOUS
<1>0. PICK n \in Maps : n = op.i
  BY DEF UnpinMapsStep
<1>1. /\ TypeOK /\ op.call = "unpin_maps" /\ op.dir \in Dirs \cup {None}
      /\ n \in Nat /\ n + 1 \in Nat
      /\ UNCHANGED <<loaded, before, calls>>
  BY <1>0, NameFacts DEF UnpinMapsStep, PinningInv, TypeOK
<1>2. /\ MapPath(n) \in Paths \cup {Nothing}
      /\ op.dir # None => MapPath(n) = <<op.dir, MapNames[n]>> /\ MapPath(n) # Nothing
  BY <1>1, PathFacts, PinFacts DEF MapPath
<1>3. ASSUME op' = [op EXCEPT !.i = op.i + 1]
      PROVE  /\ op'.call = op.call /\ op'.object = op.object /\ op'.dir = op.dir
             /\ op'.undo = op.undo /\ op'.i = n + 1 /\ op' \in OpRec
             /\ CallsOK' /\ (PinCall' <=> PinCall)
             /\ PinCall => /\ n \in MapsDone /\ MapsDone' = MapsDone \ {n}
                          /\ ProgsDone = {} /\ ProgsDone' = {}
  <2>0. op' = [op EXCEPT !.i = n + 1]
    BY SMTT(30), <1>0, <1>3
  <2>1. /\ op'.call = op.call /\ op'.object = op.object /\ op'.dir = op.dir
        /\ op'.undo = op.undo /\ op'.i = n + 1 /\ op' \in OpRec
    BY Zenon, <2>0, <1>1, OpStep, OpTypes
  <2>2. CallsOK' /\ (PinCall' <=> PinCall)
    BY <2>1 DEF CallsOK, PinCall, PinningInv
  <2>3. ASSUME PinCall
        PROVE  /\ n \in MapsDone /\ MapsDone' = MapsDone \ {n}
               /\ ProgsDone = {} /\ ProgsDone' = {}
    <3>1. \A j \in Maps : j >= n + 1 <=> (j >= n /\ j # n)
      BY <1>1, NameFacts
    <3>2. MapsDone = {j \in Maps : j >= n} /\ MapsDone' = {j \in Maps : j >= n + 1}
      BY <2>1, <2>3, <1>0, <1>1 DEF MapsDone, PinCall
    <3>3. ProgsDone = {} /\ ProgsDone' = {}
      BY <2>1, <1>1 DEF ProgsDone
    <3>4. n >= n
      BY <1>1
    <3> QED
      BY <3>1, <3>2, <3>3, <3>4
  <2> QED
    BY <2>1, <2>2, <2>3
<1>4. CASE /\ op.dir = None /\ map[n].pin_path = Nothing
           /\ op' = [op EXCEPT !.i = op.i + 1] /\ map' = map /\ fs' = fs
  <2>1. map \in [Maps -> MapRec] /\ fs \in [Paths -> Pins]
    BY <1>1 DEF TypeOK, MapRec
  <2>2. TypeOK'
    BY <2>1, <1>1, <1>3, <1>4, TypeStep
  <2>3. CASE PinCall
    <3>1. WorkKnown'
      BY <2>1, <2>3, <1>1, <1>3, <1>4, MapUndone
    <3> QED
      BY <3>1, <2>2, <1>3, <1>4 DEF PinningInv
  <2>4. CASE ~PinCall
    <3>1. OurPins' = OurPins
      BY <1>4 DEF OurPins
    <3>2. WorkKnown'
      BY <3>1, <2>4, <1>1, <1>3, <1>4, OurPinsLess
    <3> QED
      BY <3>2, <2>2, <1>3, <1>4 DEF PinningInv
  <2> QED
    BY <2>3, <2>4
<1>5. ASSUME NEW o \in bpf_map__unpin(n, MapPath(n)),
             map' = [map EXCEPT ![n] = o.m], fs' = o.fs,
             IF o.ok THEN op' = [op EXCEPT !.i = op.i + 1] ELSE op' = Idle
      PROVE  PinningInv'
  <2>1. /\ o.m \in MapRec /\ o.m.autocreate = map[n].autocreate
        /\ ~o.ok => o.fs = fs
        /\ o.ok => \E p \in Paths :
                     /\ o.fs = [fs EXCEPT ![p] = Nothing]
                     /\ ~o.m.pinned /\ (map[n].pin_path # Nothing => p = map[n].pin_path)
    BY <1>1, <1>2, UnpinOutcome
  <2>2. /\ map' \in [Maps -> MapRec] /\ map'[n] = o.m
        /\ \A j \in Maps : j # n => map'[j] = map[j]
    BY ZenonT(30), <2>1, <1>1, <1>5, MapStepFacts
  <2>3. fs' \in [Paths -> Pins]
    <3>1. CASE o.fs = fs
      BY <3>1, <1>1, <1>5 DEF TypeOK
    <3>2. CASE \E p \in Paths : o.fs = [fs EXCEPT ![p] = Nothing]
      BY <3>2, <1>1, <1>5, FsStepFacts, PinsFacts
    <3> QED
      BY <3>1, <3>2, <2>1
  <2>4. map'[n].autocreate = map[n].autocreate
    BY <2>1, <2>2
  <2>5. CASE ~o.ok
    <3>1. op' = Idle /\ op' \in OpRec
      BY Zenon, <2>5, <1>1, <1>5, OpTypes
    <3>2. TypeOK'
      BY <3>1, <2>2, <2>3, <1>1, TypeStep
    <3> QED
      BY <3>1, <3>2, IdleKnown DEF PinningInv
  <2>6. CASE o.ok /\ PinCall
    <3>1. op' = [op EXCEPT !.i = op.i + 1]
      BY <2>6, <1>5
    <3>2. op.dir # None
      BY <2>6, <1>1, PinningAssumption DEF PinningInv, CallsOK, PinCall, None
    <3>3. ASSUME before.plain
          PROVE  /\ map[n].pin_path \in Paths /\ ~map'[n].pinned
                 /\ fs' = [fs EXCEPT ![map[n].pin_path] = Nothing]
      <4>1. map[n].pin_path # Nothing
        BY <3>1, <3>2, <3>3, <2>6, <1>2, <1>3, KnownFacts
      <4> QED
        BY Zenon, <4>1, <2>1, <2>2, <2>6, <1>5
    <3>4. WorkKnown'
      BY <3>1, <3>3, <2>2, <2>4, <2>6, <1>1, <1>3, MapUndone
    <3>5. TypeOK'
      BY <3>1, <2>2, <2>3, <1>1, <1>3, TypeStep
    <3> QED
      BY <3>1, <3>4, <3>5, <1>3 DEF PinningInv
  <2>7. CASE o.ok /\ ~PinCall
    <3>1. op' = [op EXCEPT !.i = op.i + 1]
      BY <2>7, <1>5
    <3>2. PICK p \in Paths : o.fs = [fs EXCEPT ![p] = Nothing]
      BY <2>1, <2>7
    <3>3. fs'[p] = Nothing /\ \A q \in Paths : q # p => fs'[q] = fs[q]
      BY <3>2, <1>1, <1>5 DEF TypeOK
    <3>4. \A pr \in OurPins' : pr \in OurPins
      BY <3>3, OurPinsDel
    <3>5. WorkKnown'
      BY <3>1, <3>4, <2>7, <1>1, <1>3, OurPinsLess
    <3>6. TypeOK'
      BY SMTT(30), <3>1, <2>2, <2>3, <1>1, <1>3, TypeStep
    <3> QED
      BY <3>1, <3>5, <3>6, <1>3 DEF PinningInv
  <2> QED
    BY <2>5, <2>6, <2>7
<1> QED
  BY <1>0, <1>4, <1>5 DEF UnpinMapsStep, Return

(* Pins of programs come and go beside those of the maps. *)
LEMMA ProgKnown ==
  ASSUME PinningInv, before' = before, loaded' = loaded, map' = map,
         op.call = "pin_progs", op'.call = "pin_progs", op'.object = op.object,
         op'.dir = op.dir, NEW n \in Progs, n \notin ProgsDone \cap ProgsDone',
         ProgsDone \subseteq ProgsDone' \cup {n}, ProgsDone' \subseteq ProgsDone \cup {n},
         before.plain =>
           \/ fs' = fs /\ ProgsDone' = ProgsDone
           \/ /\ n \in ProgsDone' /\ loaded[n] /\ fs[ProgPath(n)] = Nothing
              /\ ProgPath(n) \in Paths
              /\ fs' = [fs EXCEPT ![ProgPath(n)] = <<"prog", n>>]
           \/ /\ n \in ProgsDone /\ ProgPath(n) \in Paths
              /\ fs' = [fs EXCEPT ![ProgPath(n)] = Nothing]
  PROVE  WorkKnown'
<1> USE DEF PinningInv
<1>1. op.call # "idle" /\ PinCall
  BY SMTT(30) DEF PinCall
<1>2. SUFFICES ASSUME before.plain
               PROVE  /\ \A pr \in OurPins' : pr \in MadePins' \/ (pr \in OurPins /\ pr \notin MadePins)
                      /\ Plain'
                      /\ \A j \in MapsDone' : map'[j].pin_path # Nothing => map'[j].pinned
                      /\ op'.dir # None =>
                           \A j \in MapsDone' : map'[j].pin_path = <<op'.dir, MapNames[j]>>
                      /\ \A k \in ProgsDone' : loaded'[k] /\ fs'[ProgPath(k)'] = <<"prog", k>>
  BY SMTT(30), <1>1, KnownStep
<1>3. /\ \A j \in Maps : /\ map[j].autocreate
                         /\ map[j].pinned => /\ map[j].pin_path # Nothing
                                             /\ fs[map[j].pin_path] = <<"map", j>>
      /\ \A j \in MapsDone : map[j].pin_path # Nothing => map[j].pinned
      /\ op.dir # None => \A j \in MapsDone : map[j].pin_path = <<op.dir, MapNames[j]>>
      /\ \A k \in ProgsDone : loaded[k] /\ fs[ProgPath(k)] = <<"prog", k>>
  BY <1>1, <1>2, KnownFacts
<1>4. MapsDone' = MapsDone /\ ProgsDone \subseteq Progs /\ ProgsDone' \subseteq Progs
      /\ \A k : ProgPath(k)' = ProgPath(k)
  BY DEF MapsDone, ProgsDone, ProgPath
<1>5. /\ \A j \in MapsDone' : map'[j].pin_path # Nothing => map'[j].pinned
      /\ op'.dir # None => \A j \in MapsDone' : map'[j].pin_path = <<op'.dir, MapNames[j]>>
  BY <1>3, <1>4
<1>6. ASSUME NEW pr \in MadePins,
             n \in ProgsDone' \/ pr # <<ProgPath(n), <<"prog", n>>>>
      PROVE  pr \in MadePins'
  <2>1. CASE \E j \in MapsDone : map[j].pin_path # Nothing /\ pr = <<map[j].pin_path, <<"map", j>>>>
    BY <2>1, <1>4 DEF MadePins
  <2>2. CASE \E k \in ProgsDone : pr = <<ProgPath(k), <<"prog", k>>>>
    <3>1. PICK k \in ProgsDone : pr = <<ProgPath(k), <<"prog", k>>>>
      BY <2>2
    <3>2. k \in ProgsDone' /\ pr = <<ProgPath(k)', <<"prog", k>>>>
      BY <3>1, <1>4, <1>6
    <3> QED
      BY <3>2 DEF MadePins
  <2> QED
    BY <2>1, <2>2, MadePinsIs
<1>7. CASE fs' = fs /\ ProgsDone' = ProgsDone
  <2>1. OurPins' = OurPins /\ Plain'
    BY <1>3, <1>7 DEF OurPins, Plain
  <2>2. MadePins' = MadePins
    BY <1>4, <1>7 DEF MadePins
  <2> QED
    BY <2>1, <2>2, <1>3, <1>4, <1>5, <1>7
<1>8. ASSUME ProgPath(n) \in Paths, NEW w, fs' = [fs EXCEPT ![ProgPath(n)] = w],
             \A j : fs[ProgPath(n)] # <<"map", j>>,
             \A k \in ProgsDone' : k # n => fs[ProgPath(n)] # <<"prog", k>>
      PROVE  /\ Plain' /\ fs'[ProgPath(n)] = w
             /\ \A q \in Paths : q # ProgPath(n) => fs'[q] = fs[q]
             /\ \A k \in ProgsDone' : k # n => loaded'[k] /\ fs'[ProgPath(k)'] = <<"prog", k>>
  <2>0. PICK p \in Paths : p = ProgPath(n)
    BY <1>8
  <2>1. fs'[p] = w /\ \A q \in Paths : q # p => fs'[q] = fs[q]
    BY <2>0, <1>8 DEF TypeOK
  <2>2. ASSUME NEW j \in Maps, map[j].pinned
        PROVE  map[j].pin_path # Nothing /\ fs'[map[j].pin_path] = <<"map", j>>
    <3>1. map[j].pin_path # Nothing /\ fs[map[j].pin_path] = <<"map", j>>
      BY <2>2, <1>3
    <3>2. map[j].pin_path \in Paths
      BY <3>1 DEF TypeOK
    <3>3. map[j].pin_path # p
      BY SMTT(30), <3>1, <2>0, <1>8
    <3> QED
      BY <3>1, <3>2, <3>3, <2>1
  <2>3. Plain'
    BY <2>2, <1>3 DEF Plain
  <2>4. ASSUME NEW k \in ProgsDone', k # n
        PROVE  loaded'[k] /\ fs'[ProgPath(k)'] = <<"prog", k>>
    <3>1. k \in ProgsDone /\ k \in Progs
      BY <2>4, <1>4
    <3>2. loaded[k] /\ fs[ProgPath(k)] = <<"prog", k>>
      BY <3>1, <1>3
    <3>3. ProgPath(k) \in Paths
      BY <3>1, PathFacts DEF CallsOK, ProgPath
    <3>4. ProgPath(k) # p
      BY SMTT(30), <3>2, <2>0, <2>4, <1>8
    <3> QED
      BY <3>2, <3>3, <3>4, <2>1, <1>4
  <2> QED
    BY <2>0, <2>1, <2>3, <2>4
<1>9. CASE /\ n \in ProgsDone' /\ loaded[n] /\ fs[ProgPath(n)] = Nothing
           /\ ProgPath(n) \in Paths
           /\ fs' = [fs EXCEPT ![ProgPath(n)] = <<"prog", n>>]
  <2>0. PICK w : w = <<"prog", n>>
    BY Zenon
  <2>1. /\ Plain' /\ fs'[ProgPath(n)] = w
        /\ \A q \in Paths : q # ProgPath(n) => fs'[q] = fs[q]
        /\ \A k \in ProgsDone' : k # n => loaded'[k] /\ fs'[ProgPath(k)'] = <<"prog", k>>
    BY ZenonT(30), <2>0, <1>8, <1>9, PinFacts
  <2>2. \A pr \in OurPins' : pr \in OurPins \/ pr = <<ProgPath(n), w>>
    BY <2>1, <1>9, OurPinsAdd
  <2>3. <<ProgPath(n), <<"prog", n>>>> \in MadePins'
    BY <1>4, <1>9 DEF MadePins
  <2>4. \A k \in ProgsDone' : loaded'[k] /\ fs'[ProgPath(k)'] = <<"prog", k>>
    BY <2>0, <2>1, <1>4, <1>9
  <2> QED
    BY <2>0, <2>1, <2>2, <2>3, <2>4, <1>5, <1>6, <1>9
<1>10. CASE /\ n \in ProgsDone /\ ProgPath(n) \in Paths
            /\ fs' = [fs EXCEPT ![ProgPath(n)] = Nothing]
  <2>0. n \notin ProgsDone' /\ fs[ProgPath(n)] = <<"prog", n>>
    BY <1>3, <1>10
  <2>1. /\ Plain' /\ fs'[ProgPath(n)] = Nothing
        /\ \A q \in Paths : q # ProgPath(n) => fs'[q] = fs[q]
        /\ \A k \in ProgsDone' : k # n => loaded'[k] /\ fs'[ProgPath(k)'] = <<"prog", k>>
    BY Zenon, <2>0, <1>8, <1>10, PinFacts
  <2>2. \A pr \in OurPins' : pr \in OurPins /\ \A w : pr # <<ProgPath(n), w>>
    BY <2>1, <1>10, OurPinsDel
  <2>3. \A k \in ProgsDone' : loaded'[k] /\ fs'[ProgPath(k)'] = <<"prog", k>>
    BY <2>0, <2>1
  <2> QED
    BY SMTT(30), <2>1, <2>2, <2>3, <1>5, <1>6
<1> QED
  BY <1>2, <1>7, <1>9, <1>10

LEMMA PinProgsStepInv == PinningInv /\ PinProgsStep => PinningInv'
<1> SUFFICES ASSUME PinningInv, PinProgsStep PROVE PinningInv'
  OBVIOUS
<1>0. PICK n \in Progs : n = op.i
  BY DEF PinProgsStep
<1>1. /\ TypeOK /\ op.call = "pin_progs" /\ op.undo = FALSE /\ op.dir \in Dirs
      /\ n \in Nat /\ n >= 1 /\ n + 1 \in Nat /\ n - 1 \in Nat
      /\ UNCHANGED <<map, loaded, before, calls>>
  BY <1>0, NameFacts DEF PinProgsStep, PinningInv, TypeOK, CallsOK
<1>2. ProgPath(n) \in Paths
  BY <1>1, PathFacts DEF ProgPath
<1>3. ProgsDone = {k \in Progs : k <= n - 1} /\ n \notin ProgsDone
  BY <1>0, <1>1 DEF ProgsDone, Reached
<1>4. PICK o \in bpf_program__pin(n, ProgPath(n)) :
        /\ fs' = o.fs
        /\ op' = IF o.ok THEN [op EXCEPT !.i = op.i + 1]
                 ELSE [op EXCEPT !.undo = TRUE, !.i = op.i - 1]
  BY <1>0 DEF PinProgsStep
<1>5. /\ ~o.ok => o.fs = fs
      /\ o.ok => /\ loaded[n] /\ fs[ProgPath(n)] = Nothing
                 /\ o.fs = [fs EXCEPT ![ProgPath(n)] = <<"prog", n>>]
  BY Zenon, <1>2, ProgOutcome
<1>6. map' \in [Maps -> MapRec] /\ fs' \in [Paths -> Pins]
  <2>1. map' \in [Maps -> MapRec] /\ fs \in [Paths -> Pins]
    BY <1>1 DEF TypeOK, MapRec
  <2>2. o.ok => o.fs \in [Paths -> Pins]
    BY Zenon, <2>1, <1>2, <1>5, PinsFacts
  <2> QED
    BY <2>1, <2>2, <1>4, <1>5
<1>7. /\ op'.call = op.call /\ op'.object = op.object /\ op'.dir = op.dir /\ op' \in OpRec
      /\ o.ok => op'.undo = FALSE /\ op'.i = n + 1
      /\ ~o.ok => op'.undo = TRUE /\ op'.i = n - 1
  <2>1. CASE o.ok
    <3>1. op' = [op EXCEPT !.i = n + 1]
      BY SMTT(30), <2>1, <1>0, <1>4
    <3> QED
      BY Zenon, <3>1, <2>1, <1>1, OpStep, OpTypes
  <2>2. CASE ~o.ok
    <3>1. op' = [op EXCEPT !.undo = TRUE, !.i = n - 1]
      BY <2>2, <1>0, <1>4
    <3> QED
      BY Zenon, <3>1, <2>2, <1>1, OpStep, OpTypes
  <2> QED
    BY Zenon, <2>1, <2>2
<1>8. /\ ~o.ok => ProgsDone' = ProgsDone
      /\ o.ok => ProgsDone' = ProgsDone \cup {n}
  <2>1. ~o.ok => ProgsDone' = ProgsDone
    BY Zenon, <1>1, <1>3, <1>7 DEF ProgsDone, Reached
  <2>2. \A k \in Progs : k <= (n + 1) - 1 <=> (k <= n - 1 \/ k = n)
    BY <1>1, NameFacts
  <2>3. o.ok => ProgsDone' = {k \in Progs : k <= (n + 1) - 1}
    BY <1>1, <1>7 DEF ProgsDone, Reached
  <2> QED
    BY <2>1, <2>2, <2>3, <1>3
<1>9. CallsOK'
  BY <1>1, <1>7 DEF CallsOK, PinCall, PinningInv
<1>10. WorkKnown'
  BY ZenonT(30), <1>1, <1>2, <1>3, <1>4, <1>5, <1>7, <1>8, ProgKnown
<1>11. TypeOK'
  BY <1>1, <1>6, <1>7, TypeStep
<1> QED
  BY <1>9, <1>10, <1>11 DEF PinningInv

LEMMA UndoPinProgsInv == PinningInv /\ UndoPinProgs => PinningInv'
<1> SUFFICES ASSUME PinningInv, UndoPinProgs PROVE PinningInv'
  OBVIOUS
<1>0. PICK n \in Progs : n = op.i
  BY DEF UndoPinProgs
<1>1. /\ TypeOK /\ op.call = "pin_progs" /\ op.undo = TRUE /\ op.dir \in Dirs
      /\ n \in Nat /\ n - 1 \in Nat /\ PinCall
      /\ op' = [op EXCEPT !.i = n - 1]
      /\ UNCHANGED <<map, loaded, before, calls>>
  BY <1>0, NameFacts DEF UndoPinProgs, PinningInv, TypeOK, CallsOK, PinCall
<1>2. ProgPath(n) \in Paths
  BY <1>1, PathFacts DEF ProgPath
<1>3. /\ op'.call = op.call /\ op'.object = op.object /\ op'.dir = op.dir
      /\ op'.undo = TRUE /\ op'.i = n - 1 /\ op' \in OpRec
  BY Zenon, <1>1, OpStep, OpTypes
<1>4. n \in ProgsDone /\ ProgsDone' = ProgsDone \ {n}
  <2>1. \A k \in Progs : k <= n - 1 <=> (k <= n /\ k # n)
    BY <1>1, NameFacts
  <2>2. ProgsDone = {k \in Progs : k <= n} /\ ProgsDone' = {k \in Progs : k <= n - 1}
    BY <1>0, <1>1, <1>3 DEF ProgsDone, Reached
  <2>3. n <= n
    BY <1>1
  <2> QED
    BY <2>1, <2>2, <2>3
<1>5. PICK o \in bpf_program__unpin(n, ProgPath(n)) : fs' = o.fs
  BY <1>0 DEF UndoPinProgs
<1>6. /\ ~o.ok => o.fs = fs
      /\ o.ok => o.fs = [fs EXCEPT ![ProgPath(n)] = Nothing]
      /\ loaded[n] /\ fs[ProgPath(n)] # Nothing => o.ok
  BY Zenon, <1>2, ProgOutcome
<1>7. map' \in [Maps -> MapRec] /\ fs' \in [Paths -> Pins]
  <2>1. map' \in [Maps -> MapRec] /\ fs \in [Paths -> Pins]
    BY <1>1 DEF TypeOK, MapRec
  <2>2. o.ok => o.fs \in [Paths -> Pins]
    BY Zenon, <2>1, <1>2, <1>6, PinsFacts
  <2> QED
    BY <2>1, <2>2, <1>5, <1>6
<1>8. ASSUME before.plain PROVE o.ok
  <2>1. loaded[n] /\ fs[ProgPath(n)] = <<"prog", n>>
    BY <1>1, <1>4, <1>8, KnownFacts
  <2>2. fs[ProgPath(n)] # Nothing
    BY <2>1, PinFacts
  <2> QED
    BY <2>1, <2>2, <1>6
<1>9. CallsOK'
  BY <1>1, <1>3 DEF CallsOK, PinCall, PinningInv
<1>10. WorkKnown'
  BY Zenon, <1>1, <1>2, <1>3, <1>4, <1>5, <1>6, <1>8, ProgKnown
<1>11. TypeOK'
  BY <1>1, <1>3, <1>7, TypeStep
<1> QED
  BY <1>9, <1>10, <1>11 DEF PinningInv

LEMMA UnpinProgsStepInv == PinningInv /\ UnpinProgsStep => PinningInv'
<1> SUFFICES ASSUME PinningInv, UnpinProgsStep PROVE PinningInv'
  OBVIOUS
<1>0. PICK n \in Progs : n = op.i
  BY DEF UnpinProgsStep
<1>1. /\ TypeOK /\ op.call = "unpin_progs" /\ op.dir \in Dirs
      /\ n + 1 \in Nat /\ ~PinCall
      /\ UNCHANGED <<map, loaded, before, calls>>
  BY <1>0, NameFacts DEF UnpinProgsStep, PinningInv, TypeOK, CallsOK, PinCall
<1>2. ProgPath(n) \in Paths
  BY <1>1, PathFacts DEF ProgPath
<1>3. PICK o \in bpf_program__unpin(n, ProgPath(n)) :
        fs' = o.fs /\ IF o.ok THEN op' = [op EXCEPT !.i = op.i + 1] ELSE op' = Idle
  BY <1>0 DEF UnpinProgsStep, Return
<1>4. /\ ~o.ok => o.fs = fs
      /\ o.ok => o.fs = [fs EXCEPT ![ProgPath(n)] = Nothing]
  BY Zenon, <1>2, ProgOutcome
<1>5. map' \in [Maps -> MapRec] /\ fs' \in [Paths -> Pins]
  <2>1. map' \in [Maps -> MapRec] /\ fs \in [Paths -> Pins]
    BY <1>1 DEF TypeOK, MapRec
  <2>2. o.ok => o.fs \in [Paths -> Pins]
    BY Zenon, <2>1, <1>2, <1>4, PinsFacts
  <2> QED
    BY <2>1, <2>2, <1>3, <1>4
<1>6. CASE ~o.ok
  <2>1. op' = Idle /\ op' \in OpRec
    BY Zenon, <1>1, <1>3, <1>6, OpTypes
  <2> QED
    BY <2>1, <1>1, <1>5, TypeStep, IdleKnown DEF PinningInv
<1>7. CASE o.ok
  <2>0. op' = [op EXCEPT !.i = n + 1]
    BY SMTT(30), <1>0, <1>3, <1>7
  <2>1. /\ op'.call = op.call /\ op'.object = op.object /\ op'.dir = op.dir
        /\ op'.undo = op.undo /\ op' \in OpRec
    BY Zenon, <2>0, <1>1, OpStep, OpTypes
  <2>2. CallsOK' /\ ~PinCall'
    BY <2>1, <1>1 DEF CallsOK, PinCall, PinningInv
  <2>3. fs'[ProgPath(n)] = Nothing /\ \A q \in Paths : q # ProgPath(n) => fs'[q] = fs[q]
    <3>1. fs \in [Paths -> Pins] /\ fs' = [fs EXCEPT ![ProgPath(n)] = Nothing]
      BY <1>1, <1>3, <1>4, <1>7 DEF TypeOK
    <3> QED
      BY <3>1, <1>2
  <2>4. \A pr \in OurPins' : pr \in OurPins
    BY <2>3, <1>2, OurPinsDel
  <2>5. WorkKnown'
    BY <2>2, <2>4, <1>1, OurPinsLess
  <2> QED
    BY <2>1, <2>2, <2>5, <1>1, <1>5, TypeStep DEF PinningInv
<1> QED
  BY <1>6, <1>7

------------------------------------------------------------------------------
(* The steps that touch no file *)

LEMMA ReturnInv ==
  ASSUME PinningInv, op' = Idle, UNCHANGED <<map, loaded, fs, before, calls>>
  PROVE  PinningInv'
<1>1. /\ TypeOK /\ map' \in [Maps -> MapRec] /\ fs' \in [Paths -> Pins]
      /\ UNCHANGED <<loaded, before, calls>> /\ 0 \in Nat
  BY SMTT(30) DEF PinningInv, TypeOK, MapRec
<1>2. op' \in OpRec
  BY Zenon, <1>1, OpTypes
<1> QED
  BY <1>1, <1>2, TypeStep, IdleKnown DEF PinningInv

(* One part of a call on the whole object hands its pins to the next. *)
LEMMA HandOver ==
  ASSUME PinningInv, PinCall, UNCHANGED <<map, loaded, fs, before, calls>>,
         op' \in OpRec, op'.dir = op.dir, CallsOK',
         MapsDone' = MapsDone, ProgsDone = {}, ProgsDone' = {}
  PROVE  PinningInv'
<1>1. /\ TypeOK /\ map' \in [Maps -> MapRec] /\ fs' \in [Paths -> Pins]
      /\ op.call # "idle"
  BY DEF PinningInv, TypeOK, MapRec, PinCall
<1>2. OurPins' = OurPins /\ MadePins' = MadePins
  BY DEF OurPins, MadePins
<1>3. before.plain =>
        /\ Plain'
        /\ \A j \in MapsDone' : map'[j].pin_path # Nothing => map'[j].pinned
        /\ op'.dir # None =>
             \A j \in MapsDone' : map'[j].pin_path = <<op'.dir, MapNames[j]>>
  BY SMTT(30), KnownFacts DEF Plain
<1>4. before.plain => OurPins \subseteq before.pins \cup MadePins
  BY <1>1 DEF PinningInv, WorkKnown
<1>5. WorkKnown'
  BY <1>2, <1>3, <1>4 DEF WorkKnown
<1> QED
  BY <1>1, <1>5, TypeStep DEF PinningInv

LEMMA PinMapsDoneInv == PinningInv /\ PinMapsDone => PinningInv'
<1> SUFFICES ASSUME PinningInv, PinMapsDone PROVE PinningInv'
  OBVIOUS
<1>1. /\ TypeOK /\ op.call = "pin_maps" /\ op.undo = FALSE /\ op.i > Len(MapNames)
      /\ UNCHANGED <<map, loaded, fs, before, calls>> /\ PinCall
      /\ op.i \in Nat /\ 1 \in Nat
  BY DEF PinMapsDone, PinningInv, TypeOK, PinCall
<1>2. CASE op' = Idle
  BY <1>1, <1>2, ReturnInv
<1>3. CASE op.object = "pin" /\ op' = [op EXCEPT !.call = "pin_progs", !.i = 1]
  <2>1. /\ op'.call = "pin_progs" /\ op'.object = "pin" /\ op'.dir = op.dir
        /\ op'.undo = FALSE /\ op'.i = 1 /\ op' \in OpRec
    BY Zenon, <1>1, <1>3, OpStep, OpTypes
  <2>2. CallsOK'
    BY <2>1, <1>3 DEF CallsOK, PinCall, PinningInv, None
  <2>3. MapsDone = Maps
    <3>1. \A j \in Maps : j <= op.i - 1
      BY <1>1, NameFacts
    <3> QED
      BY <3>1, <1>1 DEF MapsDone, Reached
  <2>4. MapsDone' = Maps
    BY <2>1 DEF MapsDone
  <2>5. ProgsDone = {}
    BY <1>1 DEF ProgsDone
  <2>6. ProgsDone' = {}
    <3>1. \A k \in Progs : ~(k <= 1 - 1)
      BY NameFacts
    <3> QED
      BY <3>1, <2>1 DEF ProgsDone, Reached
  <2> QED
    BY SMTT(30), <2>1, <2>2, <2>3, <2>4, <2>5, <2>6, <1>1, HandOver
<1> QED
  BY <1>2, <1>3 DEF PinMapsDone, Return

LEMMA PinProgsFailedInv == PinningInv /\ PinProgsFailed => PinningInv'
<1> SUFFICES ASSUME PinningInv, PinProgsFailed PROVE PinningInv'
  OBVIOUS
<1>1. /\ TypeOK /\ op.call = "pin_progs" /\ op.undo = TRUE /\ op.i = 0
      /\ UNCHANGED <<map, loaded, fs, before, calls>> /\ PinCall /\ 1 \in Nat
  BY DEF PinProgsFailed, PinningInv, TypeOK, PinCall
<1>2. CASE op' = Idle
  BY <1>1, <1>2, ReturnInv
<1>3. CASE op.object = "pin" /\ op' = [op EXCEPT !.call = "unpin_maps", !.i = 1]
  <2>1. /\ op'.call = "unpin_maps" /\ op'.object = "pin" /\ op'.dir = op.dir
        /\ op'.undo = TRUE /\ op'.i = 1 /\ op' \in OpRec
    BY ZenonT(30), <1>1, <1>3, OpStep, OpTypes
  <2>2. CallsOK'
    BY <2>1, <1>3 DEF CallsOK, PinCall, PinningInv, None
  <2>3. MapsDone = Maps
    BY <1>1, <1>3 DEF MapsDone
  <2>4. MapsDone' = Maps
    <3>1. \A j \in Maps : j >= 1
      BY NameFacts
    <3> QED
      BY <3>1, <2>1 DEF MapsDone
  <2>5. ProgsDone = {}
    <3>1. \A k \in Progs : ~(k <= 0)
      BY NameFacts
    <3> QED
      BY <3>1, <1>1 DEF ProgsDone, Reached
  <2>6. ProgsDone' = {}
    BY <2>1 DEF ProgsDone
  <2> QED
    BY SMTT(30), <2>1, <2>2, <2>3, <2>4, <2>5, <2>6, <1>1, HandOver
<1> QED
  BY <1>2, <1>3 DEF PinProgsFailed, Return

LEMMA UnpinProgsDoneInv == PinningInv /\ UnpinProgsDone => PinningInv'
<1> SUFFICES ASSUME PinningInv, UnpinProgsDone PROVE PinningInv'
  OBVIOUS
<1>1. /\ TypeOK /\ op.call = "unpin_progs" /\ op.call # "idle"
      /\ UNCHANGED <<map, loaded, fs, before, calls>> /\ ~PinCall /\ 1 \in Nat
  BY DEF UnpinProgsDone, PinningInv, TypeOK, PinCall
<1>2. CASE op' = Idle
  BY <1>1, <1>2, ReturnInv
<1>3. CASE op.object = "unpin" /\ op' = [op EXCEPT !.call = "unpin_maps", !.i = 1]
  <2>1. /\ op'.call = "unpin_maps" /\ op'.object = "unpin" /\ op'.dir = op.dir
        /\ op'.undo = op.undo /\ op' \in OpRec
    BY Zenon, <1>1, <1>3, OpStep, OpTypes
  <2>2. CallsOK' /\ ~PinCall'
    BY <2>1, <1>1, <1>3 DEF CallsOK, PinCall, PinningInv, None
  <2>3. OurPins' = OurPins
    BY <1>1 DEF OurPins
  <2>4. WorkKnown'
    BY <2>2, <2>3, <1>1, OurPinsLess
  <2>5. map' \in [Maps -> MapRec] /\ fs' \in [Paths -> Pins]
    BY <1>1 DEF TypeOK, MapRec
  <2>6. TypeOK'
    BY <2>1, <2>5, <1>1, TypeStep
  <2> QED
    BY SMTT(30), <2>2, <2>4, <2>6 DEF PinningInv
<1> QED
  BY <1>2, <1>3 DEF UnpinProgsDone, Return

LEMMA ReturnsInv ==
  PinningInv /\ (PinMapsFailed \/ PinProgsDone \/ UnpinMapsDone) => PinningInv'
<1> SUFFICES ASSUME PinningInv, PinMapsFailed \/ PinProgsDone \/ UnpinMapsDone
             PROVE  PinningInv'
  OBVIOUS
<1>1. op' = Idle /\ UNCHANGED <<map, loaded, fs, before, calls>>
  BY DEF PinMapsFailed, PinProgsDone, UnpinMapsDone, Return
<1> QED
  BY <1>1, ReturnInv

------------------------------------------------------------------------------
(* Calls on one map or program, the beginning of a call, other processes *)

LEMMA IdleStep ==
  ASSUME PinningInv, MayCall, map' \in [Maps -> MapRec], fs' \in [Paths -> Pins],
         calls' = calls + 1, UNCHANGED <<loaded, op, before>>
  PROVE  PinningInv'
<1>1. TypeOK'
  BY SMTT(30) DEF PinningInv, TypeOK, MapRec
<1>2. CallsOK' /\ WorkKnown'
  BY SMTT(30) DEF PinningInv, MayCall, CallsOK, PinCall, WorkKnown
<1> QED
  BY <1>1, <1>2 DEF PinningInv

LEMMA OneMapInv ==
  ASSUME PinningInv, NEW i \in Maps, NEW path \in Paths \cup {Nothing},
         PinOne(i, path) \/ UnpinOne(i, path)
  PROVE  PinningInv'
<1>1. PICK o \in bpf_map__pin(i, path) \cup bpf_map__unpin(i, path) :
        map' = [map EXCEPT ![i] = o.m] /\ fs' = o.fs
  BY SMTT(30) DEF PinOne, UnpinOne, OneMap
<1>2. /\ MayCall /\ calls' = calls + 1 /\ UNCHANGED <<loaded, op, before>>
      /\ TypeOK /\ fs \in [Paths -> Pins]
  BY SMTT(30) DEF PinOne, UnpinOne, OneMap, PinningInv, TypeOK
<1>3. o.m \in MapRec
  BY SMTT(30), <1>1, <1>2, PinOutcome, UnpinOutcome
<1>4. o.fs \in [Paths -> Pins]
  <2>1. o.fs = fs \/ \E p \in Paths, w \in Pins : o.fs = [fs EXCEPT ![p] = w]
    <3>1. CASE o \in bpf_map__pin(i, path)
      <4>0. TypeOK
        BY <1>2
      <4>1. o.fs = fs \/ \E p \in Paths : o.fs = [fs EXCEPT ![p] = <<"map", i>>]
        <5>1. CASE ~o.ok
          BY <5>1, <4>0, <3>1, PinOutcome
        <5>2. CASE o.ok
          <6>1. \/ o.fs = fs
                \/ \E p \in Paths :
                     /\ fs[p] = Nothing /\ o.fs = [fs EXCEPT ![p] = <<"map", i>>]
                     /\ o.m.pinned /\ o.m.pin_path = p
                     /\ path # Nothing => path = p
                     /\ map[i].autocreate
            BY SMTT(30), <5>2, <4>0, <3>1, PinOutcome
          <6> QED
            BY Zenon, <6>1
        <5> QED
          BY Zenon, <5>1, <5>2
      <4> QED
        BY Zenon, <4>1, PinsFacts
    <3>2. CASE o \in bpf_map__unpin(i, path)
      BY <3>2, <1>2, UnpinOutcome, PinsFacts
    <3> QED
      BY <3>1, <3>2, <1>1
  <2> QED
    BY Zenon, <2>1, <1>2, FsStepFacts
<1>5. map' \in [Maps -> MapRec]
  BY Zenon, <1>1, <1>2, <1>3, MapStepFacts
<1> QED
  BY <1>1, <1>2, <1>4, <1>5, IdleStep

LEMMA SetPinPathInv ==
  ASSUME PinningInv, NEW i \in Maps, NEW path \in Paths \cup {Nothing},
         SetPinPath(i, path)
  PROVE  PinningInv'
<1>1. map \in [Maps -> MapRec] /\ fs' \in [Paths -> Pins] /\ MayCall
      /\ calls' = calls + 1 /\ UNCHANGED <<loaded, op, before>>
      /\ map' = [map EXCEPT ![i].pin_path = path]
  BY DEF SetPinPath, PinningInv, TypeOK, MapRec
<1>2. [map[i] EXCEPT !.pin_path = path] \in MapRec
  BY <1>1 DEF MapRec
<1>3. map' \in [Maps -> MapRec]
  BY <1>1, <1>2
<1> QED
  BY <1>1, <1>3, IdleStep

LEMMA OneProgramInv ==
  ASSUME PinningInv, NEW k \in Progs, NEW d \in Dirs,
         \/ OneProgram(bpf_program__pin(k, <<d, ProgNames[k]>>))
         \/ OneProgram(bpf_program__unpin(k, <<d, ProgNames[k]>>))
  PROVE  PinningInv'
<1>0. PICK path \in Paths : path = <<d, ProgNames[k]>>
  BY PathFacts
<1>1. PICK o \in bpf_program__pin(k, path) \cup bpf_program__unpin(k, path) : fs' = o.fs
  BY <1>0 DEF OneProgram
<1>2. /\ MayCall /\ calls' = calls + 1 /\ UNCHANGED <<loaded, op, before>>
      /\ TypeOK /\ fs \in [Paths -> Pins] /\ map' \in [Maps -> MapRec]
  BY SMTT(30) DEF OneProgram, PinningInv, TypeOK, MapRec
<1>3. o.fs = fs \/ \E w \in Pins : o.fs = [fs EXCEPT ![path] = w]
  BY Zenon, <1>1, ProgOutcome, PinsFacts
<1>4. o.fs \in [Paths -> Pins]
  BY Zenon, <1>2, <1>3, FsStepFacts
<1> QED
  BY <1>1, <1>2, <1>4, IdleStep

(* A call begins with its record of what is pinned and nothing made. *)
LEMMA CallInv ==
  ASSUME PinningInv, NEW what, NEW object, NEW d \in Dirs \cup {None},
         Call(what, object, d),
         \/ what \in {"pin_maps", "unpin_maps"} /\ object = None
         \/ d \in Dirs /\ what \in {"pin_progs", "unpin_progs"} /\ object = None
         \/ d \in Dirs /\ what = "pin_maps" /\ object = "pin"
         \/ d \in Dirs /\ what = "unpin_progs" /\ object = "unpin"
  PROVE  PinningInv'
<1>1. /\ op'.call = what /\ op'.object = object /\ op'.dir = d /\ op'.i = 1
      /\ op'.undo = FALSE /\ op' \in OpRec
  BY Zenon DEF Call, Idle, OpRec, None
<1>2. /\ UNCHANGED <<map, loaded, fs>> /\ calls' = calls + 1 /\ calls \in Nat
      /\ before' = [pins |-> OurPins, plain |-> Plain] /\ TypeOK
  BY DEF Call, PinningInv, TypeOK
<1>3. OurPins \in SUBSET (Paths \X Pins)
  BY <1>2 DEF OurPins, TypeOK
<1>4. Plain \in BOOLEAN
  BY DEF Plain
<1>5. TypeOK'
  <2>1. before' \in [pins : SUBSET (Paths \X Pins), plain : BOOLEAN]
    BY <1>2, <1>3, <1>4
  <2> QED
    BY <2>1, <1>1, <1>2 DEF TypeOK, OpRec
<1>6. CallsOK'
  BY <1>1 DEF CallsOK, PinCall, None
<1>7. MapsDone' = {} /\ ProgsDone' = {}
  <2>1. (\A j \in Maps : ~(j <= 1 - 1)) /\ (\A k \in Progs : ~(k <= 1 - 1))
    BY SMTT(30), NameFacts
  <2> QED
    BY <2>1, <1>1 DEF MapsDone, ProgsDone, Reached, None
<1>8. OurPins' = OurPins /\ (Plain' <=> Plain)
  BY <1>2 DEF OurPins, Plain
<1>9. before'.pins = OurPins /\ before'.plain = Plain
  BY <1>2
<1>10. WorkKnown'
  BY <1>7, <1>8, <1>9 DEF WorkKnown
<1> QED
  BY <1>5, <1>6, <1>10 DEF PinningInv

(* Another process changes no pin of the object. *)
LEMMA OtherPinFacts ==
  ASSUME TypeOK, NEW p \in Paths, OtherPin(p)
  PROVE  /\ fs' \in [Paths -> Pins] /\ fs[p] \in {Nothing, Other}
         /\ fs'[p] \in {Nothing, Other}
         /\ \A q \in Paths : q # p => fs'[q] = fs[q]
         /\ OurPins' = OurPins
<1>1. /\ fs \in [Paths -> Pins] /\ fs[p] \in {Nothing, Other}
      /\ fs' = [fs EXCEPT ![p] = IF fs[p] = Nothing THEN Other ELSE Nothing]
  BY DEF OtherPin, TypeOK
<1>2. PICK w \in {Nothing, Other} : w = IF fs[p] = Nothing THEN Other ELSE Nothing
  OBVIOUS
<1>3. fs' = [fs EXCEPT ![p] = w] /\ w \in Pins
  BY <1>1, <1>2, PinsFacts
<1>4. /\ fs' \in [Paths -> Pins] /\ fs'[p] = w
      /\ \A q \in Paths : q # p => fs'[q] = fs[q]
  BY <1>1, <1>3
<1>5. \A pr : pr \in OurPins' <=>
        \E q \in Paths : pr = <<q, fs'[q]>> /\ fs'[q] \notin {Nothing, Other}
  BY DEF OurPins
<1>6. ASSUME NEW q \in Paths
      PROVE  /\ fs'[q] \notin {Nothing, Other} => fs'[q] = fs[q]
             /\ fs[q] \notin {Nothing, Other} => fs'[q] = fs[q]
  BY <1>1, <1>2, <1>4
<1>7. \A pr : pr \in OurPins' <=> pr \in OurPins
  BY <1>5, <1>6, OurPinsIs
<1> QED
  BY SMTT(30), <1>1, <1>2, <1>4, <1>7

LEMMA OtherPinInv ==
  ASSUME PinningInv, NEW p \in Paths, OtherPin(p)
  PROVE  PinningInv'
<1>1. /\ TypeOK /\ UNCHANGED <<map, loaded, op, before>>
      /\ calls' = calls + 1 /\ calls \in Nat
  BY DEF OtherPin, PinningInv, TypeOK
<1>2. /\ fs' \in [Paths -> Pins] /\ fs[p] \in {Nothing, Other}
      /\ \A q \in Paths : q # p => fs'[q] = fs[q]
      /\ OurPins' = OurPins
  BY <1>1, OtherPinFacts
<1>3. TypeOK'
  BY <1>1, <1>2 DEF TypeOK
<1>4. CallsOK'
  BY <1>1 DEF PinningInv, CallsOK, PinCall
<1>5. /\ MapsDone' = MapsDone /\ ProgsDone' = ProgsDone /\ (PinCall' <=> PinCall)
      /\ \A k : ProgPath(k)' = ProgPath(k)
  BY SMTT(30), <1>1 DEF MapsDone, ProgsDone, Reached, PinCall, ProgPath
<1>6. MadePins' = MadePins
  BY <1>1, <1>5 DEF MadePins
<1>7. ASSUME before.plain, PinCall
      PROVE  /\ Plain'
             /\ \A k \in ProgsDone : loaded[k] /\ fs'[ProgPath(k)] = <<"prog", k>>
  <2>1. ASSUME NEW j \in Maps
        PROVE  /\ map[j].autocreate
               /\ map[j].pinned => /\ map[j].pin_path # Nothing
                                   /\ fs'[map[j].pin_path] = <<"map", j>>
    <3>1. /\ map[j].autocreate
          /\ map[j].pinned => /\ map[j].pin_path # Nothing
                              /\ fs[map[j].pin_path] = <<"map", j>>
      BY <1>7, KnownFacts
    <3>2. map[j].pin_path \in Paths \cup {Nothing}
      BY <1>1 DEF TypeOK
    <3> QED
      BY Zenon, <3>1, <3>2, <1>2, PinFacts
  <2>2. Plain'
    BY <2>1, <1>1 DEF Plain
  <2>3. ASSUME NEW k \in ProgsDone
        PROVE  loaded[k] /\ fs'[ProgPath(k)] = <<"prog", k>>
    <3>1. loaded[k] /\ fs[ProgPath(k)] = <<"prog", k>>
      BY <1>7, KnownFacts
    <3>2. k \in Progs /\ op.call = "pin_progs"
      BY DEF ProgsDone
    <3>3. ProgPath(k) \in Paths
      BY SMTT(30), <3>2, PathFacts DEF PinningInv, CallsOK, ProgPath
    <3> QED
      BY <3>1, <3>3, <1>2, PinFacts
  <2> QED
    BY SMTT(30), <2>2, <2>3
<1>8. WorkKnown'
  <2>1. SUFFICES ASSUME op.call # "idle", before.plain
                 PROVE  /\ OurPins' \subseteq before.pins \cup MadePins'
                        /\ PinCall' =>
                             /\ Plain'
                             /\ \A j \in MapsDone' : map'[j].pin_path # Nothing => map'[j].pinned
                             /\ op'.dir # None =>
                                  \A j \in MapsDone' : map'[j].pin_path = <<op'.dir, MapNames[j]>>
                             /\ \A k \in ProgsDone' : loaded'[k]
                                                      /\ fs'[ProgPath(k)'] = <<"prog", k>>
    BY SMTT(30), <1>1 DEF WorkKnown
  <2>2. OurPins' \subseteq before.pins \cup MadePins'
    BY SMTT(30), <2>1, <1>2, <1>6 DEF PinningInv, WorkKnown
  <2>3. PinCall => /\ \A j \in MapsDone : map[j].pin_path # Nothing => map[j].pinned
                   /\ op.dir # None =>
                        \A j \in MapsDone : map[j].pin_path = <<op.dir, MapNames[j]>>
    BY <2>1, KnownFacts
  <2> QED
    BY SMTT(30), <2>1, <2>2, <2>3, <1>1, <1>5, <1>7
<1> QED
  BY <1>3, <1>4, <1>8 DEF PinningInv

------------------------------------------------------------------------------
(* The theorems *)

LEMMA NextInv == PinningInv /\ [Next]_vars => PinningInv'
<1> SUFFICES ASSUME PinningInv, [Next]_vars PROVE PinningInv'
  OBVIOUS
<1>1. ASSUME NEW i \in Maps, NEW p \in Paths \cup {Nothing},
             PinOne(i, p) \/ UnpinOne(i, p) \/ SetPinPath(i, p)
      PROVE  PinningInv'
  BY <1>1, OneMapInv, SetPinPathInv
<1>2. ASSUME NEW j \in Progs, NEW d \in Dirs,
             \/ OneProgram(bpf_program__pin(j, <<d, ProgNames[j]>>))
             \/ OneProgram(bpf_program__unpin(j, <<d, ProgNames[j]>>))
      PROVE  PinningInv'
  BY <1>2, OneProgramInv
<1>3. ASSUME NEW d \in Dirs \cup {None},
             Call("pin_maps", None, d) \/ Call("unpin_maps", None, d)
      PROVE  PinningInv'
  BY <1>3, CallInv
<1>4. ASSUME NEW d \in Dirs,
             \/ Call("pin_progs", None, d) \/ Call("unpin_progs", None, d)
             \/ Call("pin_maps", "pin", d) \/ Call("unpin_progs", "unpin", d)
      PROVE  PinningInv'
  BY <1>4, CallInv
<1>5. CASE PinMapsStep \/ PinMapsDone \/ UndoPinMaps \/ PinMapsFailed
  BY <1>5, PinMapsStepInv, PinMapsDoneInv, UndoPinMapsInv, ReturnsInv
<1>6. CASE PinProgsStep \/ PinProgsDone \/ UndoPinProgs \/ PinProgsFailed
  BY <1>6, PinProgsStepInv, ReturnsInv, UndoPinProgsInv, PinProgsFailedInv
<1>7. CASE UnpinMapsStep \/ UnpinMapsDone \/ UnpinProgsStep \/ UnpinProgsDone
  BY <1>7, UnpinMapsStepInv, ReturnsInv, UnpinProgsStepInv, UnpinProgsDoneInv
<1>8. ASSUME NEW p \in Paths, OtherPin(p) PROVE PinningInv'
  BY SMTT(30), <1>8, OtherPinInv
<1>9. CASE UNCHANGED vars
  <2>1. UNCHANGED <<map, loaded, fs, op, before, calls>>
    BY <1>9 DEF vars
  <2>2. TypeOK'
    BY <2>1 DEF PinningInv, TypeOK
  <2>3. CallsOK' /\ PinCall' = PinCall
    BY <2>1 DEF PinningInv, CallsOK, PinCall
  <2>4. /\ OurPins' = OurPins /\ Plain' = Plain
        /\ MapsDone' = MapsDone /\ ProgsDone' = ProgsDone
        /\ \A k : ProgPath(k)' = ProgPath(k)
    BY <2>1 DEF OurPins, Plain, MapsDone, ProgsDone, Reached, ProgPath
  <2>5. MadePins' = MadePins
    BY <2>1, <2>4 DEF MadePins
  <2>6. WorkKnown'
    BY <2>1, <2>3, <2>4, <2>5 DEF PinningInv, WorkKnown
  <2> QED
    BY <2>2, <2>3, <2>6 DEF PinningInv
<1> QED
  BY Zenon, <1>1, <1>2, <1>3, <1>4, <1>5, <1>6, <1>7, <1>8, <1>9 DEF Next

(* PinningInv, that a pin made by the call in progress can be found again,  *)
(* holds of every behaviour of the calls that pin and unpin.                *)
THEOREM PinningInvariant == Spec => []PinningInv
<1>1. Init => PinningInv
  BY InitInv
<1>2. PinningInv /\ [Next]_vars => PinningInv'
  BY NextInv
<1> QED
  BY <1>1, <1>2, PTL DEF Spec

(* When nothing made is left, what is pinned was pinned before the call. *)
LEMMA NothingMade ==
  ASSUME PinningInv, before.plain, op.call # "idle", fs' = fs,
         MapsDone = {}, ProgsDone = {}
  PROVE  OurPins' \subseteq before.pins
<1>1. MadePins = {}
  BY DEF MadePins
<1>2. OurPins' = OurPins
  BY DEF OurPins
<1> QED
  BY <1>1, <1>2 DEF PinningInv, WorkKnown

(* Taking the maps back, bpf_object__unpin_maps() finds each one pinned at  *)
(* the path it works out.                                                   *)
LEMMA TakenBack ==
  ASSUME PinningInv, before.plain, PinCall, UnpinMapsStep
  PROVE  \E n \in Maps : /\ map[n].pin_path \in Paths
                         /\ fs[map[n].pin_path] = <<"map", n>>
                         /\ fs' = [fs EXCEPT ![map[n].pin_path] = Nothing]
                         /\ op'.call # "idle"
<1>0. PICK n \in Maps : n = op.i
  BY DEF UnpinMapsStep
<1>1. /\ TypeOK /\ op.call = "unpin_maps" /\ op.object = "pin" /\ op.dir \in Dirs
      /\ n \in Nat /\ n >= n
  BY <1>0, NameFacts DEF UnpinMapsStep, PinCall, PinningInv, CallsOK, None
<1>2. n \in MapsDone
  BY <1>0, <1>1 DEF MapsDone
<1>3. op.dir # None /\ MapPath(n) = <<op.dir, MapNames[n]>> /\ MapPath(n) \in Paths
  BY SMTT(30), <1>1, PathFacts DEF MapPath
<1>4. map[n].pin_path = MapPath(n) /\ map[n].pin_path # Nothing
  BY SMTT(30), <1>2, <1>3, KnownFacts, PinFacts
<1>5. fs[map[n].pin_path] = <<"map", n>> /\ fs[map[n].pin_path] # Nothing
  BY ZenonT(30), <1>2, <1>4, KnownFacts, PinFacts
<1>6. PICK o \in bpf_map__unpin(n, MapPath(n)) :
        /\ fs' = o.fs
        /\ o.ok => op' = [op EXCEPT !.i = op.i + 1]
  BY <1>0, <1>3 DEF UnpinMapsStep
<1>7. o.ok /\ o.fs = [fs EXCEPT ![map[n].pin_path] = Nothing]
  <2>1. /\ o.ok => \E p \in Paths : /\ o.fs = [fs EXCEPT ![p] = Nothing]
                                    /\ map[n].pin_path # Nothing => p = map[n].pin_path
        /\ map[n].pin_path # Nothing /\ MapPath(n) \in {Nothing, map[n].pin_path}
             /\ fs[map[n].pin_path] # Nothing => o.ok
    <3>1. MapPath(n) \in Paths \cup {Nothing}
      BY <1>3
    <3> QED
      BY <3>1, <1>1, UnpinOutcome
  <2>2. o.ok
    BY <2>1, <1>4, <1>5
  <2> QED
    BY Zenon, <2>1, <2>2, <1>4
<1>8. op'.call # "idle"
  BY Zenon, <1>1, <1>6, <1>7, OpStep
<1> QED
  BY Zenon, <1>3, <1>4, <1>5, <1>6, <1>7, <1>8

LEMMA FailureStep ==
  ASSUME PinningInv, Next, op.call # "idle", op'.call = "idle", ret' = "error", before.plain
  PROVE  OurPins' \subseteq before.pins
<1>0. TypeOK
  BY DEF PinningInv
<1>1. ASSUME PinMapsStep \/ UndoPinMaps \/ PinProgsStep \/ UndoPinProgs PROVE FALSE
  <2>1. op'.call = op.call
    BY ZenonT(30), <1>0, <1>1, OpStep DEF PinMapsStep, UndoPinMaps, PinProgsStep, UndoPinProgs
  <2> QED
    BY SMTT(30), <2>1
<1>2. ASSUME PinMapsDone \/ PinProgsDone \/ UnpinProgsDone PROVE FALSE
  BY ZenonT(30), <1>0, <1>2, OpStep DEF PinMapsDone, PinProgsDone, UnpinProgsDone, Return
<1>3. CASE PinMapsFailed
  <2>1. \A j \in Maps : ~(j <= 0)
    BY NameFacts
  <2>2. MapsDone = {} /\ ProgsDone = {} /\ fs' = fs
    BY <2>1, <1>3 DEF PinMapsFailed, MapsDone, ProgsDone, Reached
  <2> QED
    BY <2>2, NothingMade
<1>4. CASE PinProgsFailed
  <2>1. \A k \in Progs : ~(k <= 0)
    BY SMTT(30), NameFacts
  <2>2. op.object # "pin"
    BY ZenonT(30), <1>0, <1>4, OpStep DEF PinProgsFailed
  <2>3. MapsDone = {} /\ ProgsDone = {} /\ fs' = fs
    BY <2>1, <2>2, <1>4 DEF PinProgsFailed, MapsDone, ProgsDone, Reached
  <2> QED
    BY <2>3, NothingMade
<1>5. CASE UnpinMapsDone
  <2>1. \A j \in Maps : ~(j >= op.i)
    BY <1>0, <1>5, NameFacts DEF UnpinMapsDone, TypeOK
  <2>2. MapsDone = {} /\ ProgsDone = {} /\ fs' = fs
    BY <2>1, <1>5 DEF UnpinMapsDone, MapsDone, ProgsDone
  <2> QED
    BY <2>2, NothingMade
<1>6. CASE UnpinMapsStep
  <2>1. ~PinCall
    BY <1>6, TakenBack
  <2>2. PICK n \in Maps : n = op.i
    BY <1>6 DEF UnpinMapsStep
  <2>3. op' # [op EXCEPT !.i = op.i + 1]
    BY Zenon, <1>0, OpStep
  <2>4. op.dir \in Dirs \cup {None}
    BY <1>0 DEF TypeOK
  <2>5. MapPath(n) \in Paths \cup {Nothing}
    BY <2>4, PathFacts DEF MapPath
  <2>6. PICK o \in bpf_map__unpin(n, MapPath(n)) : fs' = o.fs /\ ~o.ok
    BY SMTT(30), <2>2, <2>3, <1>6 DEF UnpinMapsStep
  <2>7. fs' = fs
    BY <2>5, <2>6, <1>0, UnpinOutcome
  <2> QED
    BY <2>1, <2>7, NoMadePins, NothingMade
<1>7. CASE UnpinProgsStep
  <2>1. ~PinCall /\ op.dir \in Dirs
    BY <1>7 DEF UnpinProgsStep, PinCall, PinningInv, CallsOK
  <2>2. PICK n \in Progs : n = op.i
    BY SMTT(30), <1>7 DEF UnpinProgsStep
  <2>3. op' # [op EXCEPT !.i = op.i + 1]
    BY Zenon, <1>0, OpStep
  <2>4. ProgPath(n) \in Paths
    BY <2>1, PathFacts DEF ProgPath
  <2>5. PICK o \in bpf_program__unpin(n, ProgPath(n)) : fs' = o.fs /\ ~o.ok
    BY SMTT(30), <2>2, <2>3, <1>7 DEF UnpinProgsStep
  <2>6. fs' = fs
    BY Zenon, <2>4, <2>5, ProgOutcome
  <2> QED
    BY <2>1, <2>6, NoMadePins, NothingMade
<1>8. ASSUME \/ \E i \in Maps, p \in Paths \cup {Nothing} :
                  PinOne(i, p) \/ UnpinOne(i, p) \/ SetPinPath(i, p)
             \/ \E j \in Progs, d \in Dirs :
                  \/ OneProgram(bpf_program__pin(j, <<d, ProgNames[j]>>))
                  \/ OneProgram(bpf_program__unpin(j, <<d, ProgNames[j]>>))
             \/ \E d \in Dirs \cup {None} :
                  Call("pin_maps", None, d) \/ Call("unpin_maps", None, d)
             \/ \E d \in Dirs :
                  \/ Call("pin_progs", None, d) \/ Call("unpin_progs", None, d)
                  \/ Call("pin_maps", "pin", d) \/ Call("unpin_progs", "unpin", d)
      PROVE  FALSE
  BY Zenon, <1>8 DEF PinOne, UnpinOne, SetPinPath, OneMap, OneProgram, Call, MayCall
<1>9. ASSUME \E p \in Paths : OtherPin(p) PROVE FALSE
  BY <1>9 DEF OtherPin
<1> QED
  BY Zenon, <1>1, <1>2, <1>3, <1>4, <1>5, <1>6, <1>7, <1>8, <1>9 DEF Next

(* bpf_object__pin_maps(), __pin_programs() and __pin() that return an error *)
(* leave no pin of the object that was not there before, for objects of any  *)
(* size, whatever other processes pin meanwhile.                             *)
THEOREM PinFailureUndone == Spec => FailedPinUndone
<1>1. PinningInv /\ [Next]_vars =>
        [op.call # "idle" /\ op'.call = "idle" /\ ret' = "error" /\ before.plain
           => OurPins' \subseteq before.pins]_vars
  BY FailureStep
<1> QED
  BY <1>1, PinningInvariant, PTL DEF Spec, FailedPinUndone

LEMMA RollbackStep ==
  ASSUME PinningInv, Next, Undoing, before.plain, calls' = calls,
         NEW p \in Paths, fs[p] = Other
  PROVE  fs'[p] = Other
<1>0. TypeOK /\ PinCall /\ fs \in [Paths -> Pins] /\ calls \in Nat
  BY DEF PinningInv, TypeOK, CallsOK, Undoing, PinCall
<1>1. ASSUME NEW q \in Paths, NEW w, fs[q] = w, w # Other, fs' = [fs EXCEPT ![q] = Nothing]
      PROVE  fs'[p] = Other
  BY <1>0, <1>1
<1>2. CASE UndoPinMaps
  <2>0. PICK n \in Maps : n = op.i
    BY <1>2 DEF UndoPinMaps
  <2>1. n \in MapsDone
    <3>1. n <= n
      BY NameFacts
    <3> QED
      BY <3>1, <2>0, <1>2 DEF UndoPinMaps, MapsDone, Reached
  <2>2. CASE map[n].pin_path = Nothing
    BY SMTT(30), <2>0, <2>2, <1>2 DEF UndoPinMaps
  <2>3. CASE map[n].pin_path # Nothing
    <3>1. PICK q \in Paths : q = map[n].pin_path
      BY SMTT(30), <2>3, <1>0 DEF TypeOK
    <3>2. fs[q] = <<"map", n>> /\ <<"map", n>> # Other
      BY <3>1, <2>1, <2>3, <1>0, KnownFacts, PinFacts
    <3>3. PICK o \in bpf_map__unpin(n, Nothing) : fs' = o.fs
      BY <2>0, <2>3, <1>2 DEF UndoPinMaps
    <3>4. o.fs = fs \/ o.fs = [fs EXCEPT ![q] = Nothing]
      <4>1. /\ ~o.ok => o.fs = fs
            /\ o.ok => \E r \in Paths : /\ o.fs = [fs EXCEPT ![r] = Nothing]
                                        /\ map[n].pin_path # Nothing => r = map[n].pin_path
        BY <1>0, UnpinOutcome
      <4> QED
        BY Zenon, <4>1, <3>1, <2>3
    <3> QED
      BY <3>2, <3>3, <3>4, <1>1
  <2> QED
    BY <2>2, <2>3
<1>3. CASE UndoPinProgs
  <2>0. PICK n \in Progs : n = op.i
    BY <1>3 DEF UndoPinProgs
  <2>1. n \in ProgsDone
    <3>1. n <= n
      BY NameFacts
    <3> QED
      BY <3>1, <2>0, <1>3 DEF UndoPinProgs, ProgsDone, Reached
  <2>2. PICK q \in Paths : q = ProgPath(n)
    BY Zenon, <1>3, PathFacts DEF UndoPinProgs, PinningInv, CallsOK, ProgPath
  <2>3. fs[q] = <<"prog", n>> /\ <<"prog", n>> # Other
    BY <2>1, <2>2, <1>0, KnownFacts, PinFacts
  <2>4. PICK o \in bpf_program__unpin(n, q) : fs' = o.fs
    BY <2>0, <2>2, <1>3 DEF UndoPinProgs
  <2>5. o.fs = fs \/ o.fs = [fs EXCEPT ![q] = Nothing]
    BY Zenon, ProgOutcome
  <2> QED
    BY <2>3, <2>4, <2>5, <1>1
<1>4. CASE UnpinMapsStep
  <2>1. PICK n \in Maps : /\ map[n].pin_path \in Paths
                          /\ fs[map[n].pin_path] = <<"map", n>>
                          /\ fs' = [fs EXCEPT ![map[n].pin_path] = Nothing]
    BY <1>0, <1>4, TakenBack
  <2>2. PICK q \in Paths : q = map[n].pin_path
    BY <2>1
  <2> QED
    BY Zenon, <2>1, <2>2, <1>1, PinFacts
<1>5. ASSUME PinMapsStep \/ PinProgsStep \/ UnpinProgsStep PROVE FALSE
  BY <1>0, <1>5 DEF PinMapsStep, PinProgsStep, UnpinProgsStep, Undoing, PinCall
<1>6. CASE \/ PinMapsDone \/ PinMapsFailed \/ PinProgsDone \/ PinProgsFailed
           \/ UnpinMapsDone \/ UnpinProgsDone
  BY <1>6 DEF PinMapsDone, PinMapsFailed, PinProgsDone, PinProgsFailed, UnpinMapsDone,
              UnpinProgsDone
<1>7. ASSUME calls' = calls + 1 PROVE FALSE
  BY <1>0, <1>7
<1>8. ASSUME NEW i \in Maps, NEW q \in Paths \cup {Nothing},
             PinOne(i, q) \/ UnpinOne(i, q) \/ SetPinPath(i, q)
      PROVE  FALSE
  BY SMTT(30), <1>7, <1>8 DEF PinOne, UnpinOne, SetPinPath, OneMap
<1>9. ASSUME NEW j \in Progs, NEW d \in Dirs,
             \/ OneProgram(bpf_program__pin(j, <<d, ProgNames[j]>>))
             \/ OneProgram(bpf_program__unpin(j, <<d, ProgNames[j]>>))
      PROVE  FALSE
  BY <1>7, <1>9 DEF OneProgram
<1>10. ASSUME NEW w, NEW obj, NEW d, Call(w, obj, d) PROVE FALSE
  BY <1>7, <1>10 DEF Call
<1>11. ASSUME NEW q \in Paths, OtherPin(q) PROVE FALSE
  BY <1>7, <1>11 DEF OtherPin
<1> QED
  BY Zenon, <1>2, <1>3, <1>4, <1>5, <1>6, <1>8, <1>9, <1>10, <1>11 DEF Next

(* While a failed call is undone, none of its steps removes what another    *)
(* process has pinned: each unlinks a path that holds the object's own pin. *)
THEOREM RollbackSparesOthers == Spec => RollbackKeepsOthers
<1>1. PinningInv /\ [Next]_vars =>
        [Undoing /\ before.plain /\ calls' = calls =>
           \A p \in Paths : fs[p] = Other => fs'[p] = Other]_vars
  BY RollbackStep
<1> QED
  BY <1>1, PinningInvariant, PTL DEF Spec, RollbackKeepsOthers

==============================================================================

------------------------------- MODULE Pinning -------------------------------
(***************************************************************************)
(* Pinning the maps and programs of a loaded object in the BPF file        *)
(* system, one by one and for the whole object with rollback, while other  *)
(* processes use the same directories.                                     *)
(*                                                                         *)
(* A path is a directory and a file name; names are as sanitize_pin_path() *)
(* leaves them.  Pinning or unpinning one map or program is one step: it   *)
(* makes one system call that matters.                                     *)
(***************************************************************************)
EXTENDS Integers, Sequences, FiniteSets

CONSTANTS
  Dirs,       \* directories of the BPF file system
  MapNames,   \* names of the object's maps, in order
  ProgNames,  \* names of its programs, in order
  Calls       \* bound: API calls in a behaviour

None == "none"       \* no directory, no call
Nothing == <<>>       \* no path, no pin
Other == <<"other">>  \* a pin of another process
Maps == DOMAIN MapNames
Progs == DOMAIN ProgNames
Paths == Dirs \X {MapNames[i] : i \in Maps} \cup Dirs \X {ProgNames[i] : i \in Progs}

ASSUME PinningAssumption ==
  /\ MapNames \in Seq(STRING) /\ ProgNames \in Seq(STRING)
  /\ Calls \in Nat /\ None \notin Dirs

VARIABLES
  map,      \* per map: autocreate (and so created), pin_path, pinned
  loaded,   \* per program: has it a file descriptor?
  fs,       \* path -> what is pinned there: Nothing, Other or one of ours
  op,       \* the object-wide call in progress
  before,   \* history: our pins, and whether Plain, when that call began
  ret,      \* what the last object-wide call returned
  calls     \* API calls made

vars == <<map, loaded, fs, op, before, ret, calls>>

Idle == [call |-> "idle", object |-> None, dir |-> None, i |-> 1, undo |-> FALSE]

\* All maps were created, and a map that thinks it is pinned is.
Plain == \A i \in Maps : /\ map[i].autocreate
                         /\ map[i].pinned => /\ map[i].pin_path # Nothing
                                             /\ fs[map[i].pin_path] = <<"map", i>>

OurPins == {<<p, fs[p]>> : p \in {q \in Paths : fs[q] \notin {Nothing, Other}}}

------------------------------------------------------------------------------
(* One map or one program: what a call may do to the map and the file system *)

Outcome(ok, m, f) == [ok |-> ok, m |-> m, fs |-> f]

\* bpf_obj_pin() of what at path: it may fail, and does if the file exists.
ObjPin(path, what, m, done) ==
  {Outcome(FALSE, m, fs)} \cup
  (IF fs[path] = Nothing THEN {Outcome(TRUE, done, [fs EXCEPT ![path] = what])} ELSE {})

\* The pin path stays set when the pinning then fails, as it does for a map
\* that was not created: its descriptor is a placeholder.
bpf_map__pin(i, path) ==
  LET m == map[i]
      pin(p) == LET set == [m EXCEPT !.pin_path = p]
                IN  IF m.autocreate
                    THEN ObjPin(p, <<"map", i>>, set, [set EXCEPT !.pinned = TRUE])
                    ELSE {Outcome(FALSE, set, fs)}
  IN  IF m.pin_path # Nothing
      THEN IF path # Nothing /\ path # m.pin_path THEN {Outcome(FALSE, m, fs)}
           ELSE IF m.pinned THEN {Outcome(TRUE, m, fs)}
           ELSE pin(m.pin_path)
      ELSE IF path = Nothing \/ m.pinned THEN {Outcome(FALSE, m, fs)}
      ELSE pin(path) \cup {Outcome(FALSE, m, fs)}

\* unlink() of whatever the path holds; it fails if there is nothing.
Unlink(path, m, done) ==
  IF fs[path] = Nothing THEN {Outcome(FALSE, m, fs)}
  ELSE {Outcome(TRUE, done, [fs EXCEPT ![path] = Nothing])}

bpf_map__unpin(i, path) ==
  LET m == map[i]
  IN  IF IF m.pin_path # Nothing THEN path \notin {Nothing, m.pin_path} ELSE path = Nothing
      THEN {Outcome(FALSE, m, fs)}
      ELSE Unlink(IF m.pin_path # Nothing THEN m.pin_path ELSE path,
                  m, [m EXCEPT !.pinned = FALSE])

bpf_program__pin(j, path) ==
  IF loaded[j] THEN ObjPin(path, <<"prog", j>>, Nothing, Nothing)
  ELSE {Outcome(FALSE, Nothing, fs)}

bpf_program__unpin(j, path) ==
  IF loaded[j] THEN Unlink(path, Nothing, Nothing) ELSE {Outcome(FALSE, Nothing, fs)}

------------------------------------------------------------------------------
(* Calls on one map or program *)

MayCall == op.call = "idle" /\ calls < Calls

OneMap(i, outcomes) ==
  /\ MayCall
  /\ \E o \in outcomes : map' = [map EXCEPT ![i] = o.m] /\ fs' = o.fs
  /\ calls' = calls + 1
  /\ UNCHANGED <<loaded, op, before, ret>>

PinOne(i, path) == OneMap(i, bpf_map__pin(i, path))

UnpinOne(i, path) == OneMap(i, bpf_map__unpin(i, path))

OneProgram(outcomes) ==
  /\ MayCall
  /\ \E o \in outcomes : fs' = o.fs
  /\ calls' = calls + 1
  /\ UNCHANGED <<map, loaded, op, before, ret>>

SetPinPath(i, path) ==
  /\ MayCall
  /\ map' = [map EXCEPT ![i].pin_path = path]
  /\ calls' = calls + 1
  /\ UNCHANGED <<loaded, fs, op, before, ret>>

------------------------------------------------------------------------------
(* Calls on the object: what = "pin_maps", "unpin_maps", "pin_progs" or        *)
(* "unpin_progs", alone or as part of bpf_object__pin() or bpf_object__unpin() *)

Call(what, object, dir) ==
  /\ MayCall
  /\ op' = [Idle EXCEPT !.call = what, !.object = object, !.dir = dir]
  /\ before' = [pins |-> OurPins, plain |-> Plain] /\ ret' = None
  /\ calls' = calls + 1
  /\ UNCHANGED <<map, loaded, fs>>

Return(r) == op' = Idle /\ ret' = r

MapPath(i) == IF op.dir = None THEN Nothing ELSE <<op.dir, MapNames[i]>>
ProgPath(j) == <<op.dir, ProgNames[j]>>

\* Mutant: the rollback begins with the map that failed.
PinMapsStep_UndoesItself ==
  /\ op.call = "pin_maps" /\ ~op.undo /\ op.i \in Maps
  /\ IF ~map[op.i].autocreate \/ (op.dir = None /\ map[op.i].pin_path = Nothing)
     THEN op' = [op EXCEPT !.i = @ + 1] /\ UNCHANGED <<map, fs>>
     ELSE \E o \in bpf_map__pin(op.i, MapPath(op.i)) :
            /\ map' = [map EXCEPT ![op.i] = o.m] /\ fs' = o.fs
            /\ op' = IF o.ok THEN [op EXCEPT !.i = @ + 1] ELSE [op EXCEPT !.undo = TRUE]
  /\ UNCHANGED <<loaded, before, ret, calls>>

PinMapsStep ==
  /\ op.call = "pin_maps" /\ ~op.undo /\ op.i \in Maps
  /\ IF ~map[op.i].autocreate \/ (op.dir = None /\ map[op.i].pin_path = Nothing)
     THEN op' = [op EXCEPT !.i = @ + 1] /\ UNCHANGED <<map, fs>>
     ELSE \E o \in bpf_map__pin(op.i, MapPath(op.i)) :
            /\ map' = [map EXCEPT ![op.i] = o.m] /\ fs' = o.fs
            /\ op' = IF o.ok THEN [op EXCEPT !.i = @ + 1]
                     ELSE [op EXCEPT !.undo = TRUE, !.i = @ - 1]
  /\ UNCHANGED <<loaded, before, ret, calls>>

PinMapsDone ==
  /\ op.call = "pin_maps" /\ ~op.undo /\ op.i > Len(MapNames)
  /\ IF op.object = "pin"
     THEN op' = [op EXCEPT !.call = "pin_progs", !.i = 1] /\ UNCHANGED ret
     ELSE Return("ok")
  /\ UNCHANGED <<map, loaded, fs, before, calls>>

\* err_unpin_maps: every earlier map that has a pin path.
UndoPinMaps ==
  /\ op.call = "pin_maps" /\ op.undo /\ op.i \in Maps
  /\ IF map[op.i].pin_path = Nothing THEN UNCHANGED <<map, fs>>
     ELSE \E o \in bpf_map__unpin(op.i, Nothing) :
            map' = [map EXCEPT ![op.i] = o.m] /\ fs' = o.fs
  /\ op' = [op EXCEPT !.i = @ - 1]
  /\ UNCHANGED <<loaded, before, ret, calls>>

PinMapsFailed ==
  /\ op.call = "pin_maps" /\ op.undo /\ op.i = 0
  /\ Return("error")
  /\ UNCHANGED <<map, loaded, fs, before, calls>>

PinProgsStep ==
  /\ op.call = "pin_progs" /\ ~op.undo /\ op.i \in Progs
  /\ \E o \in bpf_program__pin(op.i, ProgPath(op.i)) :
       /\ fs' = o.fs
       /\ op' = IF o.ok THEN [op EXCEPT !.i = @ + 1]
                ELSE [op EXCEPT !.undo = TRUE, !.i = @ - 1]
  /\ UNCHANGED <<map, loaded, before, ret, calls>>

PinProgsDone ==
  /\ op.call = "pin_progs" /\ ~op.undo /\ op.i > Len(ProgNames)
  /\ Return("ok")
  /\ UNCHANGED <<map, loaded, fs, before, calls>>

UndoPinProgs ==
  /\ op.call = "pin_progs" /\ op.undo /\ op.i \in Progs
  /\ \E o \in bpf_program__unpin(op.i, ProgPath(op.i)) : fs' = o.fs
  /\ op' = [op EXCEPT !.i = @ - 1]
  /\ UNCHANGED <<map, loaded, before, ret, calls>>

\* Mutant: the maps stay pinned.
PinProgsFailed_KeepsMaps ==
  /\ op.call = "pin_progs" /\ op.undo /\ op.i = 0
  /\ Return("error")
  /\ UNCHANGED <<map, loaded, fs, before, calls>>

\* bpf_object__pin() then takes the maps back with bpf_object__unpin_maps().
PinProgsFailed ==
  /\ op.call = "pin_progs" /\ op.undo /\ op.i = 0
  /\ IF op.object = "pin"
     THEN op' = [op EXCEPT !.call = "unpin_maps", !.i = 1] /\ UNCHANGED ret
     ELSE Return("error")
  /\ UNCHANGED <<map, loaded, fs, before, calls>>

\* The first map that cannot be unpinned ends the call.
UnpinMapsStep ==
  /\ op.call = "unpin_maps" /\ op.i \in Maps
  /\ IF op.dir = None /\ map[op.i].pin_path = Nothing
     THEN op' = [op EXCEPT !.i = @ + 1] /\ UNCHANGED <<map, fs, ret>>
     ELSE \E o \in bpf_map__unpin(op.i, MapPath(op.i)) :
            /\ map' = [map EXCEPT ![op.i] = o.m] /\ fs' = o.fs
            /\ IF o.ok THEN op' = [op EXCEPT !.i = @ + 1] /\ UNCHANGED ret
               ELSE Return("error")
  /\ UNCHANGED <<loaded, before, calls>>

UnpinMapsDone ==
  /\ op.call = "unpin_maps" /\ op.i > Len(MapNames)
  /\ Return(IF op.object = "pin" THEN "error" ELSE "ok")
  /\ UNCHANGED <<map, loaded, fs, before, calls>>

UnpinProgsStep ==
  /\ op.call = "unpin_progs" /\ op.i \in Progs
  /\ \E o \in bpf_program__unpin(op.i, ProgPath(op.i)) :
       /\ fs' = o.fs
       /\ IF o.ok THEN op' = [op EXCEPT !.i = @ + 1] /\ UNCHANGED ret
          ELSE Return("error")
  /\ UNCHANGED <<map, loaded, before, calls>>

UnpinProgsDone ==
  /\ op.call = "unpin_progs" /\ op.i > Len(ProgNames)
  /\ IF op.object = "unpin"
     THEN op' = [op EXCEPT !.call = "unpin_maps", !.i = 1] /\ UNCHANGED ret
     ELSE Return("ok")
  /\ UNCHANGED <<map, loaded, fs, before, calls>>

------------------------------------------------------------------------------
(* Other processes, external: they pin where there is room, and unpin theirs *)

OtherPin(p) ==
  /\ calls < Calls
  /\ fs[p] \in {Nothing, Other}
  /\ fs' = [fs EXCEPT ![p] = IF @ = Nothing THEN Other ELSE Nothing]
  /\ calls' = calls + 1
  /\ UNCHANGED <<map, loaded, op, before, ret>>

------------------------------------------------------------------------------

Init ==
  /\ map \in [Maps -> [autocreate : BOOLEAN, pin_path : {Nothing}, pinned : {FALSE}]]
  /\ loaded \in [Progs -> BOOLEAN]
  /\ fs = [p \in Paths |-> Nothing]
  /\ op = Idle /\ before = [pins |-> {}, plain |-> FALSE] /\ ret = None /\ calls = 0

Next ==
  \/ \E i \in Maps, p \in Paths \cup {Nothing} :
       PinOne(i, p) \/ UnpinOne(i, p) \/ SetPinPath(i, p)
  \/ \E j \in Progs, d \in Dirs :
       \/ OneProgram(bpf_program__pin(j, <<d, ProgNames[j]>>))
       \/ OneProgram(bpf_program__unpin(j, <<d, ProgNames[j]>>))
  \/ \E d \in Dirs \cup {None} : Call("pin_maps", None, d) \/ Call("unpin_maps", None, d)
  \/ \E d \in Dirs : \/ Call("pin_progs", None, d) \/ Call("unpin_progs", None, d)
                     \/ Call("pin_maps", "pin", d) \/ Call("unpin_progs", "unpin", d)
  \/ PinMapsStep \/ PinMapsDone \/ UndoPinMaps \/ PinMapsFailed
  \/ PinProgsStep \/ PinProgsDone \/ UndoPinProgs \/ PinProgsFailed
  \/ UnpinMapsStep \/ UnpinMapsDone \/ UnpinProgsStep \/ UnpinProgsDone
  \/ \E p \in Paths : OtherPin(p)

Spec == Init /\ [][Next]_vars

------------------------------------------------------------------------------

\* A call on the object that fails to pin has undone what it pinned: every pin
\* of the object was there before the call.  (Rollback goes through maps that
\* were not created too, and stops at one it cannot unpin; and it trusts the
\* pinned flag, which says nothing once the pin path was changed or another
\* call has removed the file.)
FailedPinUndone ==
  [][op.call # "idle" /\ op'.call = "idle" /\ ret' = "error" /\ before.plain
       => OurPins' \subseteq before.pins]_vars

Undoing == op.undo \/ (op.object = "pin" /\ op.call = "unpin_maps")

\* Rollback never removes what another process has pinned.
RollbackKeepsOthers ==
  [][Undoing /\ before.plain /\ calls' = calls =>
       \A p \in Paths : fs[p] = Other => fs'[p] = Other]_vars

------------------------------------------------------------------------------
(* The inductive invariant: what holds between the steps of an object-wide call *)

Pins == {Nothing, Other} \cup {"map"} \X Maps \cup {"prog"} \X Progs

TypeOK ==
  /\ map \in [Maps -> [autocreate : BOOLEAN, pin_path : Paths \cup {Nothing},
                       pinned : BOOLEAN]]
  /\ loaded \in [Progs -> BOOLEAN]
  /\ fs \in [Paths -> Pins]
  /\ op \in [call : {"idle", "pin_maps", "pin_progs", "unpin_maps", "unpin_progs"},
             object : {None, "pin", "unpin"}, dir : Dirs \cup {None}, i : Nat,
             undo : BOOLEAN]
  /\ before \in [pins : SUBSET (Paths \X Pins), plain : BOOLEAN]
  /\ calls \in Nat

PinCall == \/ op.call \in {"pin_maps", "pin_progs"}
           \/ op.call = "unpin_maps" /\ op.object = "pin"

\* Only the calls that pin are undone; those on programs, and on the whole
\* object, have a directory.
CallsOK ==
  /\ op.call \in {"pin_progs", "unpin_progs"} \/ op.object # None => op.dir \in Dirs
  /\ op.call = "pin_progs" => op.object \in {None, "pin"}
  /\ op.call = "unpin_progs" => op.object \in {None, "unpin"}
  /\ op.call = "pin_maps" => op.object \in {None, "pin"}
  /\ op.undo => PinCall

\* Where the call in progress has got to, as the last index it has dealt with
\* and not undone yet.
Reached == IF op.undo THEN op.i ELSE op.i - 1

\* The maps and programs the call may have pinned and has not unpinned again.
MapsDone == {j \in Maps : \/ op.call = "pin_maps" /\ j <= Reached
                          \/ op.call = "pin_progs" /\ op.object = "pin"
                          \/ op.call = "unpin_maps" /\ op.object = "pin" /\ j >= op.i}
ProgsDone == {k \in Progs : op.call = "pin_progs" /\ k <= Reached}

MadePins ==
  {<<map[j].pin_path, <<"map", j>>>> : j \in {m \in MapsDone : map[m].pin_path # Nothing}}
    \cup {<<ProgPath(k), <<"prog", k>>>> : k \in ProgsDone}

\* What is pinned now and was not before is the work of this call, which can
\* find it again: by the pin path of a map whose flag is right, and by the path
\* of a program.
WorkKnown ==
  op.call # "idle" /\ before.plain =>
    /\ OurPins \subseteq before.pins \cup MadePins
    /\ PinCall =>
         /\ Plain
         /\ \A j \in MapsDone : map[j].pin_path # Nothing => map[j].pinned
         /\ op.dir # None => \A j \in MapsDone : map[j].pin_path = <<op.dir, MapNames[j]>>
         /\ \A k \in ProgsDone : loaded[k] /\ fs[ProgPath(k)] = <<"prog", k>>

PinningInv == TypeOK /\ CallsOK /\ WorkKnown

==============================================================================

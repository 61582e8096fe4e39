---------------------------- MODULE LinksProofs -----------------------------
(***************************************************************************)
(* The inductive invariant LinksInv of Links and what follows from it for  *)
(* any skeleton and any number of descriptors, attachments and threads.    *)
(***************************************************************************)
EXTENDS Links, TLAPS

\* Slots, holders and owners as ranges of numbers.
LEMMA Ranges ==
  ASSUME TypeOK
  PROVE  /\ Len(Kinds) \in Nat /\ Slots = 1 .. Len(Kinds)
         /\ Holders = 0 .. Len(Kinds) /\ Owners = -3 .. Len(Kinds)
         /\ \A s \in Slots : s - 1 \in Fds /\ s \in Nat /\ s # 0
<1>1. Kinds \in Seq({"probe", "link", "bare", "ops", "ops_link"})
      /\ Len(Kinds) <= MaxFd + 1 /\ MaxFd \in Nat
  BY Zenon, LinksAssumption DEF TypeOK
<1>2. Len(Kinds) \in Nat /\ Slots = 1 .. Len(Kinds)
  BY <1>1 DEF Slots
<1> QED BY <1>1, <1>2 DEF Holders, Handle, Owners, Fds

\* The arithmetic used below.
LEMMA Numbers ==
  /\ \A k \in Nat : k \in Int /\ k >= k /\ 0 <= k /\ k + 1 \in Nat /\ k + 1 >= k /\ k + 1 > k
  /\ \A s, t \in Int : s <= t /\ s # t => s < t
OBVIOUS

\* Descriptors are numbers from 0 on, and -1 is none of them.
LEMMA FdNumbers ==
  /\ \A n \in Fds : n \in Int /\ n + 1 \in Nat /\ n >= 0 /\ n # -1
  /\ ~(-1 >= 0)
  /\ \A n \in Int : (n + 1) - 1 = n
  /\ \A n, s \in Int : n = s - 1 => n + 1 = s
BY DEF Fds

\* Positions of a walk over slots 1 to m, which ends at m + 1.
LEMMA SlotNumbers ==
  ASSUME NEW m \in Nat
  PROVE  /\ \A h \in 0 .. m : h \in Nat
         /\ \A i \in 1 .. (m + 1) : /\ ~(i > m) => i \in 1 .. m
                                    /\ i > m => \A s \in 1 .. m : s < i
                                    /\ \A s \in 1 .. m : s <= i => s < i \/ s = i
OBVIOUS

\* Files of different kinds, or of different slots, differ.
LEMMA FilesDiffer ==
  /\ \A k : Event(k) # NoFile /\ BpfLink(k) # NoFile /\ ObjFile(k) # NoFile
  /\ \A s, t : ObjFile(s) = ObjFile(t) => s = t
  /\ \A f \in Pinnable : f \in Files /\ f \notin {NoFile, App}
BY DEF Event, BpfLink, ObjFile, NoFile, App, Pinnable, Files

\* The shape of a link is a matter of these fields.
LEMMA SameShape ==
  ASSUME NEW l, NEW m, Shape(l), m.kind = l.kind, m.fd = l.fd, m.pfd = l.pfd,
         m.id = l.id, m.file = l.file, m.legacy <=> l.legacy
  PROVE  Shape(m)
BY DEF Shape

------------------------------------------------------------------------------
(* Owners of descriptors: what opening, closing and handing over do *)

\* A free descriptor is opened for owner w.
LEMMA AccountOpen ==
  ASSUME NEW table \in [Fds -> Files], NEW owned, NEW owned1,
         Accounted(owned, table), DOMAIN owned1 = DOMAIN owned,
         NEW w \in DOMAIN owned, NEW n \in Fds, table[n] = NoFile,
         NEW f, f \notin {NoFile, App},
         owned1[w] = owned[w] \cup {<<n, f>>},
         \A v \in DOMAIN owned : v # w => owned1[v] = owned[v]
  PROVE  Accounted(owned1, [table EXCEPT ![n] = f])
<1> DEFINE t == [table EXCEPT ![n] = f]
<1>0. t[n] = f /\ \A m \in Fds : m # n => t[m] = table[m]
  BY Zenon
<1>1. \A v \in DOMAIN owned : \A p \in owned[v] : \E m \in Fds \ {n} :
        p = <<m, table[m]>> /\ table[m] \notin {NoFile, App}
  BY Zenon DEF Accounted
<1> HIDE DEF t
<1>2. \A v \in DOMAIN owned1 : \A p \in owned1[v] : \E m \in Fds :
        p = <<m, t[m]>> /\ t[m] \notin {NoFile, App}
  BY <1>0, <1>1
<1>3. ASSUME NEW m \in Fds, NEW u \in DOMAIN owned1, NEW v \in DOMAIN owned1,
             <<m, t[m]>> \in owned1[u], <<m, t[m]>> \in owned1[v]
      PROVE  u = v
  <2>1. CASE m = n
    <3>1. \A x \in DOMAIN owned : <<n, f>> \notin owned[x]
      BY Zenon, <1>1
    <3> QED BY Zenon, <1>0, <1>3, <2>1, <3>1
  <2>2. CASE m # n
    BY <1>0, <1>3, <2>2 DEF Accounted
  <2> QED BY Zenon, <2>1, <2>2
<1>4. ASSUME NEW m \in Fds, t[m] \notin {NoFile, App}
      PROVE  \E v \in DOMAIN owned1 : <<m, t[m]>> \in owned1[v]
  <2>1. CASE m = n
    BY Zenon, <1>0, <2>1
  <2>2. CASE m # n
    <3>1. PICK v \in DOMAIN owned : <<m, table[m]>> \in owned[v]
      BY Zenon, <1>0, <1>4, <2>2 DEF Accounted
    <3> QED BY Zenon, <1>0, <2>2, <3>1
  <2> QED BY Zenon, <2>1, <2>2
<1> QED BY Zenon, <1>2, <1>3, <1>4 DEF Accounted, t

\* Owner w closes descriptor n of its own.
LEMMA AccountClose ==
  ASSUME NEW table \in [Fds -> Files], NEW owned, NEW owned1,
         Accounted(owned, table), DOMAIN owned1 = DOMAIN owned,
         NEW w \in DOMAIN owned, NEW n \in Fds,
         <<n, table[n]>> \in owned[w], owned1[w] = owned[w] \ {<<n, table[n]>>},
         \A v \in DOMAIN owned : v # w => owned1[v] = owned[v]
  PROVE  Accounted(owned1, [table EXCEPT ![n] = NoFile])
<1> DEFINE t == [table EXCEPT ![n] = NoFile]
<1>0. t[n] = NoFile /\ \A m \in Fds : m # n => t[m] = table[m]
  BY Zenon
<1>1. \A v \in DOMAIN owned1 : owned1[v] \subseteq owned[v] /\ <<n, table[n]>> \notin owned1[v]
  BY Zenon DEF Accounted
<1>2. ASSUME NEW v \in DOMAIN owned1, NEW p \in owned1[v]
      PROVE  \E m \in Fds : p = <<m, t[m]>> /\ t[m] \notin {NoFile, App}
  <2>1. PICK m \in Fds : p = <<m, table[m]>> /\ table[m] \notin {NoFile, App}
    BY <1>1, <1>2 DEF Accounted
  <2>2. m # n
    BY Zenon, <1>1, <1>2, <2>1
  <2> QED BY Zenon, <1>0, <2>1, <2>2
<1> HIDE DEF t
<1>3. ASSUME NEW m \in Fds, NEW u \in DOMAIN owned1, NEW v \in DOMAIN owned1,
             <<m, t[m]>> \in owned1[u], <<m, t[m]>> \in owned1[v]
      PROVE  u = v
  <2>1. m # n
    BY Zenon, <1>0, <1>2, <1>3
  <2> QED BY Zenon, <1>0, <1>1, <1>3, <2>1 DEF Accounted
<1>4. ASSUME NEW m \in Fds, t[m] \notin {NoFile, App}
      PROVE  \E v \in DOMAIN owned1 : <<m, t[m]>> \in owned1[v]
  <2>1. m # n /\ t[m] = table[m]
    BY Zenon, <1>0, <1>4
  <2>2. PICK v \in DOMAIN owned : <<m, table[m]>> \in owned[v]
    BY Zenon, <1>4, <2>1 DEF Accounted
  <2> QED BY Zenon, <2>1, <2>2
<1> QED BY Zenon, <1>2, <1>3, <1>4 DEF Accounted, t

\* Owner w hands all it has over to owner u.
LEMMA AccountMove ==
  ASSUME NEW table, NEW owned, NEW owned1,
         Accounted(owned, table), DOMAIN owned1 = DOMAIN owned,
         NEW w \in DOMAIN owned, NEW u \in DOMAIN owned, u # w,
         owned1[u] = owned[u] \cup owned[w], owned1[w] = {},
         \A v \in DOMAIN owned : v # w /\ v # u => owned1[v] = owned[v]
  PROVE  Accounted(owned1, table)
<1>1. \A v \in DOMAIN owned1 : \A p \in owned1[v] : \E x \in DOMAIN owned : p \in owned[x]
  BY Zenon
<1>2. \A v \in DOMAIN owned1 : \A p \in owned1[v] :
        \E n \in Fds : p = <<n, table[n]>> /\ table[n] \notin {NoFile, App}
  BY <1>1 DEF Accounted
<1>3. ASSUME NEW n \in Fds, NEW x \in DOMAIN owned1, NEW y \in DOMAIN owned1,
             <<n, table[n]>> \in owned1[x], <<n, table[n]>> \in owned1[y]
      PROVE  x = y
  BY Zenon, <1>3 DEF Accounted
<1>4. ASSUME NEW n \in Fds, table[n] \notin {NoFile, App}
      PROVE  \E v \in DOMAIN owned1 : <<n, table[n]>> \in owned1[v]
  <2>1. PICK v \in DOMAIN owned : <<n, table[n]>> \in owned[v]
    BY Zenon, <1>4 DEF Accounted
  <2> QED BY Zenon, <2>1
<1> QED BY Zenon, <1>2, <1>3, <1>4 DEF Accounted

\* Descriptors of other threads come and go.
LEMMA AccountApp ==
  ASSUME NEW table \in [Fds -> Files], NEW owned, Accounted(owned, table),
         NEW n \in Fds, table[n] \in {NoFile, App}, NEW f \in {NoFile, App}
  PROVE  Accounted(owned, [table EXCEPT ![n] = f])
<1> DEFINE t == [table EXCEPT ![n] = f]
<1>0. t[n] = f /\ \A m \in Fds : m # n => t[m] = table[m]
  BY Zenon
<1> HIDE DEF t
<1>1. \A v \in DOMAIN owned : \A p \in owned[v] :
        \E m \in Fds : p = <<m, t[m]>> /\ t[m] \notin {NoFile, App}
  BY Zenon, <1>0 DEF Accounted
<1>2. ASSUME NEW m \in Fds, NEW u \in DOMAIN owned, NEW v \in DOMAIN owned,
             <<m, t[m]>> \in owned[u], <<m, t[m]>> \in owned[v]
      PROVE  u = v
  <2>1. m # n
    BY Zenon, <1>0, <1>1, <1>2
  <2> QED BY Zenon, <1>0, <1>2, <2>1 DEF Accounted
<1>3. \A m \in Fds : t[m] \notin {NoFile, App} =>
        \E v \in DOMAIN owned : <<m, t[m]>> \in owned[v]
  BY Zenon, <1>0 DEF Accounted
<1> QED BY Zenon, <1>1, <1>2, <1>3 DEF Accounted, t

------------------------------------------------------------------------------
(* What Owned says of each owner *)

LEMMA OwnedValues ==
  ASSUME TypeOK
  PROVE  /\ DOMAIN Owned = Owners /\ Holders \subseteq Owners
         /\ {TheObject, TheCall, GivenUp} \subseteq Owners
         /\ {TheObject, TheCall, GivenUp} \cap Holders = {}
         /\ \A w \in Owners : w \in Holders \/ w \in {TheObject, TheCall, GivenUp}
         /\ TheObject # TheCall /\ TheObject # GivenUp /\ TheCall # GivenUp
         /\ Owned[TheObject] = IF obj THEN {<<s - 1, ObjFile(s)>> : s \in Slots} ELSE {}
         /\ Owned[TheCall] = CallOwns
         /\ Owned[GivenUp] = UNION {Descriptors(l) : l \in left}
         /\ \A h \in Holders : Owned[h] = LinkOwns(h)
<1>1. /\ Len(Kinds) \in Nat /\ Holders = 0 .. Len(Kinds) /\ Owners = -3 .. Len(Kinds)
  BY Zenon, Ranges
<1> QED BY <1>1 DEF Owned, TheObject, TheCall, GivenUp

\* A step that leaves the skeleton alone has the same owners.
LEMMA OwnedNext ==
  ASSUME TypeOK, Kinds' = Kinds
  PROVE  /\ DOMAIN Owned' = Owners /\ Slots' = Slots /\ Holders' = Holders
         /\ Owned'[TheObject] = IF obj' THEN {<<s - 1, ObjFile(s)>> : s \in Slots} ELSE {}
         /\ Owned'[TheCall] = CallOwns'
         /\ Owned'[GivenUp] = UNION {Descriptors(l) : l \in left'}
         /\ \A h \in Holders : Owned'[h] = LinkOwns(h)'
<1>1. /\ Len(Kinds) \in Nat /\ Holders = 0 .. Len(Kinds) /\ Owners = -3 .. Len(Kinds)
  BY Zenon, Ranges
<1>2. Slots' = Slots /\ Holders' = Holders /\ Owners' = Owners
  BY Zenon DEF Slots, Holders, Owners
<1>3. Owned' = [w \in Owners |->
        IF w = TheObject THEN IF obj' THEN {<<s - 1, ObjFile(s)>> : s \in Slots} ELSE {}
        ELSE IF w = TheCall THEN CallOwns'
        ELSE IF w = GivenUp THEN UNION {Descriptors(l) : l \in left'}
        ELSE LinkOwns(w)']
  BY Zenon, <1>2 DEF Owned, TheObject, TheCall, GivenUp, Descriptors, Event, ObjFile
<1> QED BY <1>1, <1>2, <1>3 DEF TheObject, TheCall, GivenUp

\* A step that concerns one holder and the call in progress.
LEMMA OwnedOf ==
  ASSUME TypeOK, UNCHANGED <<Kinds, obj, left>>, NEW i \in Holders,
         \A h \in Holders : h # i => LinkOwns(h)' = LinkOwns(h)
  PROVE  /\ DOMAIN Owned' = Owners /\ DOMAIN Owned = Owners
         /\ i \in Owners /\ Owned[i] = LinkOwns(i) /\ Owned'[i] = LinkOwns(i)'
         /\ TheCall \in Owners /\ TheCall # i
         /\ Owned[TheCall] = CallOwns /\ Owned'[TheCall] = CallOwns'
         /\ \A w \in Owners : w # i /\ w # TheCall => Owned'[w] = Owned[w]
<1>1. Kinds' = Kinds /\ obj' = obj /\ left' = left
  BY Zenon
<1>2. Owned'[TheObject] = Owned[TheObject] /\ Owned'[GivenUp] = Owned[GivenUp]
  BY <1>1, OwnedValues, OwnedNext
<1>3. \A h \in Holders : h # i => Owned'[h] = Owned[h]
  BY Zenon, <1>1, OwnedValues, OwnedNext
<1>4. \A w \in Owners : w # i /\ w # TheCall => Owned'[w] = Owned[w]
  BY Zenon, <1>2, <1>3, OwnedValues
<1> QED BY Zenon, <1>1, <1>4, OwnedValues, OwnedNext

\* The owners after a step that opens or closes descriptor n, or hands over all
\* that w has.
LEMMA OwnersOpen ==
  ASSUME TypeOK, Kinds' = Kinds, Accounted(Owned, fds), NEW w \in Owners, NEW n \in Fds,
         fds[n] = NoFile, NEW f, f \notin {NoFile, App}, fds' = [fds EXCEPT ![n] = f],
         Owned'[w] = Owned[w] \cup {<<n, f>>},
         \A v \in Owners : v # w => Owned'[v] = Owned[v]
  PROVE  Accounted(Owned, fds)'
<1>1. DOMAIN Owned = Owners /\ DOMAIN Owned' = DOMAIN Owned /\ fds \in [Fds -> Files]
  BY Zenon, OwnedValues, OwnedNext DEF TypeOK
<1>2. \A v \in DOMAIN Owned : v # w => Owned'[v] = Owned[v]
  BY Zenon, <1>1
<1>3. w \in DOMAIN Owned
  BY Zenon, <1>1
<1>4. Accounted(Owned', [fds EXCEPT ![n] = f])
  BY Zenon, <1>1, <1>2, <1>3, AccountOpen
<1>5. Accounted(Owned', fds')
  BY Zenon, <1>4
<1> QED BY Zenon, <1>5 DEF Accounted

LEMMA OwnersClose ==
  ASSUME TypeOK, Kinds' = Kinds, Accounted(Owned, fds), NEW w \in Owners, NEW n \in Fds,
         NEW f, fds[n] = f, fds' = [fds EXCEPT ![n] = NoFile],
         <<n, f>> \in Owned[w], Owned'[w] = Owned[w] \ {<<n, f>>},
         \A v \in Owners : v # w => Owned'[v] = Owned[v]
  PROVE  Accounted(Owned, fds)'
<1>1. DOMAIN Owned = Owners /\ DOMAIN Owned' = DOMAIN Owned /\ fds \in [Fds -> Files]
  BY Zenon, OwnedValues, OwnedNext DEF TypeOK
<1>2. \A v \in DOMAIN Owned : v # w => Owned'[v] = Owned[v]
  BY Zenon, <1>1
<1>3. w \in DOMAIN Owned
  BY Zenon, <1>1
<1>4. <<n, fds[n]>> \in Owned[w] /\ Owned'[w] = Owned[w] \ {<<n, fds[n]>>}
  BY Zenon
<1>5. Accounted(Owned', [fds EXCEPT ![n] = NoFile])
  BY Zenon, <1>1, <1>2, <1>3, <1>4, AccountClose
<1>6. Accounted(Owned', fds')
  BY Zenon, <1>5
<1> QED BY Zenon, <1>6 DEF Accounted

LEMMA OwnersMove ==
  ASSUME TypeOK, Kinds' = Kinds, fds' = fds, Accounted(Owned, fds),
         NEW w \in Owners, NEW u \in Owners, u # w,
         Owned'[u] = Owned[u] \cup Owned[w], Owned'[w] = {},
         \A v \in Owners : v # w /\ v # u => Owned'[v] = Owned[v]
  PROVE  Accounted(Owned, fds)'
<1>1. DOMAIN Owned = Owners /\ DOMAIN Owned' = DOMAIN Owned
  BY Zenon, OwnedValues, OwnedNext
<1>2. \A v \in DOMAIN Owned : v # w /\ v # u => Owned'[v] = Owned[v]
  BY Zenon, <1>1
<1>3. w \in DOMAIN Owned /\ u \in DOMAIN Owned
  BY Zenon, <1>1
<1>4. Accounted(Owned', fds)
  BY Zenon, <1>1, <1>2, <1>3, AccountMove
<1>5. Accounted(Owned', fds')
  BY Zenon, <1>4
<1> QED BY Zenon, <1>5 DEF Accounted

\* Is the link of h half closed?
Closing(h) == InDestroy /\ op.s = h /\ op.pc \in {"close", "remove"}

LEMMA LinkOwnsSame ==
  ASSUME NEW h, link'[h] = link[h], ~Closing(h), ~Closing(h)'
  PROVE  LinkOwns(h)' = LinkOwns(h)
BY Zenon DEF LinkOwns, Closing, Null, Descriptors, Event

\* The same owners with the same descriptors.
LEMMA OwnersSame ==
  ASSUME TypeOK, Accounted(Owned, fds), UNCHANGED <<Kinds, fds, obj, left>>,
         CallOwns' = CallOwns, \A h \in Holders : LinkOwns(h)' = LinkOwns(h)
  PROVE  Accounted(Owned, fds)'
<1>1. \A w \in Owners : Owned'[w] = Owned[w]
  BY OwnedValues, OwnedNext, ZenonT(20)
<1>2. DOMAIN Owned' = DOMAIN Owned
  BY OwnedValues, OwnedNext, ZenonT(20)
<1>3. Owned' = Owned
  BY Zenon, <1>1, <1>2, OwnedValues DEF Owned
<1> QED BY Zenon, <1>3 DEF Accounted

------------------------------------------------------------------------------
(* What a step preserves that leaves the links alone *)

LEMMA ShapedFrame ==
  ASSUME LinksShaped, UNCHANGED <<Kinds, link, left>>, index \in Nat, index' \in Nat,
         index' >= index, TypeOK
  PROVE  LinksShaped'
<1>1. Slots' = Slots /\ Holders' = Holders /\ \A h : Null(h)' = Null(h)
  BY Zenon DEF Slots, Holders, Null
<1>2. ASSUME NEW l, l.id \in Nat, Shape(l)
      PROVE  Shape(l)'
  BY <1>1, <1>2 DEF Shape, Event, BpfLink, ObjFile, Pinnable
<1>3. (\A h \in Holders : link[h].id \in Nat) /\ \A l \in left : l.id \in Nat
  BY Zenon DEF TypeOK, LinkRecord
<1> QED BY Zenon, <1>1, <1>2, <1>3 DEF LinksShaped, ObjFile

LEMMA IdsFrame ==
  ASSUME IdsDiffer, LinksShaped, TypeOK, UNCHANGED <<Kinds, link, left>>,
         InAttach' => (InAttach /\ op'.id = op.id) \/ op'.id > index, op'.id \in Nat
  PROVE  IdsDiffer'
<1>1. Slots' = Slots /\ Holders' = Holders /\ \A h : Null(h)' = Null(h)
  BY Zenon DEF Slots, Holders, Null
<1>2. /\ \A s \in Slots : ~Null(s) => link[s].id <= index /\ link[s].id \in Nat
      /\ \A l \in left : l.id <= index /\ l.id \in Nat
  BY Zenon DEF LinksShaped, Shape, TypeOK, LinkRecord, Holders
<1>3. index \in Nat
  BY Zenon DEF TypeOK
<1> QED BY <1>1, <1>2, <1>3 DEF IdsDiffer

LEMMA ProbesFrame ==
  ASSUME ProbesInv, UNCHANGED <<Kinds, link, left, tracefs, stuck>>,
         (HasProbe' <=> HasProbe), HasProbe => op'.id = op.id
  PROVE  ProbesInv'
<1>1. Slots' = Slots /\ Holders' = Holders /\ \A h : Null(h)' = Null(h)
  BY Zenon DEF Slots, Holders, Null
<1> QED BY Zenon, <1>1 DEF ProbesInv, Probed

LEMMA ValuesFrame ==
  ASSUME ValuesInv, UNCHANGED <<Kinds, link, left, ops>>, stuck \subseteq stuck'
  PROVE  ValuesInv'
BY Zenon DEF ValuesInv, Slots, ObjFile

------------------------------------------------------------------------------
(* How calls go on and end *)

LEMMA IdleFacts ==
  /\ Idle \in OpRecord /\ Idle.call = "idle" /\ Idle.pc = "none" /\ Idle.s = 0
  /\ Idle.pfd = -1 /\ Idle.fd = -1 /\ Idle.id = 0 /\ Idle.legacy = FALSE
BY Zenon DEF Idle, OpRecord, At

Calls == {"idle", "attach", "destroy", "open"} \cup Skeleton
Pcs == {"none", "next", "object"} \cup Attaching \cup Destroying

\* A call that begins, and one that goes on.
LEMMA CallRecord ==
  ASSUME NEW c \in Calls, NEW n \in Nat, NEW p \in Pcs
  PROVE  /\ At(c, n, p) \in OpRecord
         /\ At(c, n, p).call = c /\ At(c, n, p).s = n /\ At(c, n, p).pc = p
         /\ At(c, n, p).id = 0 /\ At(c, n, p).pfd = -1 /\ At(c, n, p).fd = -1
BY Zenon DEF OpRecord, Calls, Pcs, At

LEMMA GotoFacts ==
  ASSUME TypeOK, NEW p \in Pcs, Goto(p)
  PROVE  /\ op' \in OpRecord /\ op'.call = op.call /\ op'.s = op.s /\ op'.pc = p
         /\ op'.id = op.id /\ op'.pfd = op.pfd /\ op'.fd = op.fd /\ op'.mode = op.mode
         /\ op'.legacy = op.legacy
<1>1. op \in OpRecord /\ op' = [op EXCEPT !.pc = p]
  BY Zenon DEF TypeOK, Goto
<1> QED BY Zenon, <1>1 DEF OpRecord, Pcs

Onward == After(TRUE)

\* The call is over, or goes on with the next slot.
LEMMA AfterFacts ==
  ASSUME TypeOK, op' = Idle \/ op' = Onward
  PROVE  /\ op' \in OpRecord /\ op'.pc \in {"none", "next"} /\ op'.id \in Nat
         /\ op'.call = "idle" \/ (op'.call \in Skeleton /\ op'.call = op.call
                                  /\ op'.s = op.s + 1 /\ op'.pc = "next")
<1>1. op.s + 1 \in Nat
  BY Zenon, Numbers, FdNumbers DEF TypeOK, OpRecord
<1>2. CASE op' = Idle
  BY <1>2, IdleFacts
<1>3. CASE op' = At(op.call, op.s + 1, "next")
           /\ op.call \in Skeleton
  <2>1. op.call \in Calls /\ "next" \in Pcs
    BY Zenon, <1>3 DEF Calls, Pcs
  <2>2. op' \in OpRecord /\ op'.call = op.call /\ op'.s = op.s + 1 /\ op'.pc = "next"
        /\ op'.id = 0 /\ op.call \in Skeleton
    BY <1>1, <1>3, <2>1, CallRecord
  <2> QED BY <2>2
<1>4. Onward = IF op.call \in Skeleton
                THEN At(op.call, op.s + 1, "next") ELSE Idle
  BY Zenon DEF Onward, After
<1> QED BY Zenon, <1>2, <1>3, <1>4

\* ... and then owns nothing.
LEMMA CallOver ==
  ASSUME TypeOK, CallInv, Kinds' = Kinds, obj' = obj,
         op' = Idle \/ op' = Onward,
         op'.call \in Skeleton => op.s \in Slots,
         ~obj => \A s \in Slots : Null(s)',
         op.call = "destroy_skeleton" => \A s \in Slots : s <= op.s => Null(s)'
  PROVE  /\ CallInv' /\ AttachInv' /\ DestroyInv' /\ ~InAttach' /\ ~HasProbe'
         /\ CallOwns' = {} /\ \A h : ~Closing(h)'
<1>1. /\ op'.pc \in {"none", "next"}
      /\ op'.call = "idle" \/ (op'.call \in Skeleton /\ op'.call = op.call
                               /\ op'.s = op.s + 1 /\ op'.pc = "next")
  BY Zenon, AfterFacts
<1>2. ~InAttach' /\ ~InDestroy'
  BY Zenon, <1>1 DEF InAttach, InDestroy, Skeleton
<1>3. Slots' = Slots /\ Slots = 1 .. Len(Kinds) /\ Len(Kinds) \in Nat /\ op.s \in Nat
  BY Zenon, Ranges DEF Slots, TypeOK, OpRecord
<1>4. CallInv'
  BY <1>1, <1>3 DEF CallInv, Skeleton
<1>5. op'.call # "open"
  BY Zenon, <1>1 DEF Skeleton
<1> QED BY Zenon, <1>2, <1>4, <1>5 DEF AttachInv, DestroyInv, HasProbe, CallOwns, Closing

------------------------------------------------------------------------------
(* Steps that leave the links alone *)

LEMMA FrameInv ==
  ASSUME LinksInv, UNCHANGED <<Kinds, kernel, link, left>>,
         fds' \in [Fds -> Files], tracefs' \subseteq Nat, ops' \subseteq Slots,
         pinned' \in Pinnable \cup {NoFile}, op' \in OpRecord, obj' \in BOOLEAN,
         index' \in Nat, index' >= index, extra' \in Nat, stray' = FALSE,
         CallInv', AttachInv', DestroyInv',
         InAttach' => (InAttach /\ op'.id = op.id) \/ op'.id > index,
         Accounted(Owned, fds)', ProbesInv', ValuesInv'
  PROVE  LinksInv'
<1>1. TypeOK /\ LinksShaped /\ IdsDiffer
  BY Zenon DEF LinksInv
<1>2. TypeOK'
  BY Zenon, <1>1 DEF TypeOK, Slots, Holders
<1>3. LinksShaped'
  BY Zenon, <1>1, ShapedFrame DEF TypeOK
<1>4. IdsDiffer'
  <2>1. op'.id \in Nat
    BY Zenon DEF OpRecord
  <2> QED BY Zenon, <1>1, <2>1, IdsFrame
<1> QED BY Zenon, <1>2, <1>3, <1>4 DEF LinksInv

LEMMA OpStep ==
  ASSUME LinksInv, UNCHANGED <<Kinds, kernel, fds, link, tracefs, ops, pinned, obj, left, stuck>>,
         op' \in OpRecord, index' \in Nat, index' >= index, extra' \in Nat, stray' = FALSE,
         CallInv', AttachInv', DestroyInv',
         InAttach' => (InAttach /\ op'.id = op.id) \/ op'.id > index,
         HasProbe' <=> HasProbe, HasProbe => op'.id = op.id,
         CallOwns' = CallOwns, \A h \in Holders : LinkOwns(h)' = LinkOwns(h)
  PROVE  LinksInv'
<1>1. TypeOK /\ Accounted(Owned, fds) /\ ProbesInv /\ ValuesInv
  BY Zenon DEF LinksInv
<1>2. Accounted(Owned, fds)'
  BY Zenon, <1>1, OwnersSame
<1>3. ProbesInv'
  BY Zenon, <1>1, ProbesFrame
<1>4. ValuesInv'
  BY Zenon, <1>1, ValuesFrame
<1>5. /\ fds' \in [Fds -> Files] /\ tracefs' \subseteq Nat /\ ops' \subseteq Slots
      /\ pinned' \in Pinnable \cup {NoFile} /\ obj' \in BOOLEAN
  BY Zenon, <1>1 DEF TypeOK
<1> QED BY Zenon, <1>2, <1>3, <1>4, <1>5, FrameInv

\* An attachment that has made nothing yet, or no longer has anything, fails.
LEMMA AttachErrorInv ==
  ASSUME LinksInv, InAttach, op' = Idle, CallOwns = {}, ~HasProbe, stray' = FALSE,
         UNCHANGED <<Kinds, kernel, fds, link, tracefs, ops, pinned, obj, left, stuck, index, extra>>
  PROVE  LinksInv'
<1>1. TypeOK /\ CallInv
  BY Zenon DEF LinksInv
<1>2. op' \in OpRecord /\ op'.call = "idle" /\ ~Closing(op.s)
  BY Zenon, IdleFacts DEF InAttach, InDestroy, Closing
<1>3. /\ CallInv' /\ AttachInv' /\ DestroyInv' /\ ~InAttach' /\ ~HasProbe'
      /\ CallOwns' = {} /\ \A h : ~Closing(h)'
  <2>1. ~obj => \A s \in Slots : Null(s)'
    BY Zenon, <1>1 DEF CallInv, Null
  <2>2. op.call # "destroy_skeleton"
    BY Zenon DEF InAttach
  <2>3. op'.call \notin Skeleton
    BY Zenon, <1>2 DEF Skeleton
  <2> QED BY Zenon, <1>1, <2>1, <2>2, <2>3, CallOver
<1>4. \A h \in Holders : LinkOwns(h)' = LinkOwns(h)
  <2>1. \A h : ~Closing(h)
    BY Zenon DEF Closing, InAttach, InDestroy
  <2> QED BY Zenon, <1>3, <2>1, LinkOwnsSame
<1>5. index' \in Nat /\ index' >= index /\ extra' \in Nat
  BY Zenon, <1>1, Numbers, FdNumbers DEF TypeOK
<1> QED BY Zenon, <1>2, <1>3, <1>4, <1>5, OpStep

------------------------------------------------------------------------------
(* Other threads *)

LEMMA AppInv ==
  ASSUME LinksInv, NEW n \in Fds, fds[n] \in {NoFile, App}, NEW f \in {NoFile, App},
         fds' = [fds EXCEPT ![n] = f],
         UNCHANGED <<Kinds, kernel, link, tracefs, ops, pinned, op, obj, index, left, stuck, stray, extra>>
  PROVE  LinksInv'
<1>1. TypeOK /\ LinksShaped /\ CallInv /\ AttachInv /\ DestroyInv /\ IdsDiffer
      /\ Accounted(Owned, fds) /\ ProbesInv /\ ValuesInv /\ ~stray
  BY Zenon DEF LinksInv
<1>2. fds \in [Fds -> Files] /\ f \in Files
  BY <1>1 DEF TypeOK, Files, NoFile, App
<1>3. InAttach' = InAttach /\ InDestroy' = InDestroy /\ (HasProbe' <=> HasProbe)
  BY Zenon DEF InAttach, InDestroy, HasProbe
<1>4. op.call = "open" => op.fd \in Fds /\ fds[op.fd] \in Pinnable /\ op.fd # n
  BY <1>1 DEF CallInv, Pinnable, NoFile, App
<1>5. CallInv' /\ AttachInv' /\ DestroyInv'
  <2>1. op.call = "open" => fds'[op.fd] = fds[op.fd]
    BY Zenon, <1>2, <1>4
  <2>2. CallInv'
    BY Zenon, <1>1, <2>1 DEF CallInv, Null, Slots
  <2>3. AttachInv'
    BY Zenon, <1>1, <1>3 DEF AttachInv, Null, Slots
  <2>4. DestroyInv'
    BY Zenon, <1>1, <1>3 DEF DestroyInv, Null, Slots, Holders
  <2> QED BY Zenon, <2>2, <2>3, <2>4
<1>6. Accounted(Owned, fds)'
  <2>1. CallOwns' = CallOwns
    BY Zenon, <1>2, <1>3, <1>4 DEF CallOwns, Event, BpfLink
  <2>2. \A h \in Holders : LinkOwns(h)' = LinkOwns(h)
    BY Zenon, <1>3, Numbers, FdNumbers DEF LinkOwns, Null, Descriptors, Event
  <2>3. \A w \in Owners : Owned'[w] = Owned[w]
    BY <1>1, <2>1, <2>2, OwnedValues, OwnedNext, ZenonT(20)
  <2>4. Owned' = Owned
    BY Zenon, <1>1, <2>3, OwnedValues, OwnedNext DEF Owned
  <2>5. Accounted(Owned, [fds EXCEPT ![n] = f])
    BY Zenon, <1>1, <1>2, AccountApp
  <2> QED BY Zenon, <2>4, <2>5 DEF Accounted
<1>7. ProbesInv' /\ ValuesInv'
  <2>1. ProbesInv'
    BY Zenon, <1>1, <1>3, ProbesFrame
  <2> QED BY Zenon, <1>1, <2>1, ValuesFrame
<1>8. fds' \in [Fds -> Files] /\ stray' = FALSE
  BY Zenon, <1>1, <1>2 DEF TypeOK
<1>9. /\ tracefs' \subseteq Nat /\ ops' \subseteq Slots
      /\ pinned' \in Pinnable \cup {NoFile} /\ op' \in OpRecord /\ obj' \in BOOLEAN
      /\ index' \in Nat /\ index' >= index /\ extra' \in Nat
  BY Zenon, <1>1, Numbers, FdNumbers DEF TypeOK
<1> QED BY Zenon, <1>3, <1>5, <1>6, <1>7, <1>8, <1>9, FrameInv

LEMMA AppOpenInv ==
  ASSUME LinksInv, AppOpen
  PROVE  LinksInv'
<1>1. PICK n \in Fds : Open(App, n)
  BY Zenon DEF AppOpen
<1>2. fds[n] = NoFile /\ fds' = [fds EXCEPT ![n] = App]
  BY Zenon, <1>1 DEF Open, LowestFd, FreeFds
<1> QED BY Zenon, <1>2, AppInv DEF AppOpen

LEMMA AppCloseInv ==
  ASSUME LinksInv, NEW n \in Fds, AppClose(n)
  PROVE  LinksInv'
BY Zenon, AppInv DEF AppClose

------------------------------------------------------------------------------
(* Calls begin *)

Modes == {"default", "legacy", "perf", "link"}

LEMMA AttachSlotFacts ==
  ASSUME TypeOK, NEW s \in Slots, NEW call \in {"attach", "attach_skeleton"},
         NEW mode \in Modes, AttachSlot(s, call, mode), Kinds[s] # "bare"
  PROVE  /\ index' = index + 1 /\ op' \in OpRecord /\ op'.call = call /\ op'.s = s
         /\ op'.id = index + 1 /\ op'.pfd = -1 /\ op'.fd = -1
         /\ op'.pc \in {"add", "open", "update", "create"}
         /\ op'.pc = "add" => op'.legacy /\ Kinds[s] = "probe"
         /\ op'.pc = "open" => ~op'.legacy /\ Kinds[s] = "probe"
         /\ op'.pc = "update" => Kinds[s] \in {"ops", "ops_link"}
         /\ op'.pc = "create" => Kinds[s] = "link"
<1> DEFINE legacy == mode = "legacy" \/ ~kernel.pmu
           pc == CASE Kinds[s] = "probe" -> IF legacy THEN "add" ELSE "open"
                   [] Kinds[s] \in {"ops", "ops_link"} -> "update"
                   [] OTHER -> "create"
<1>1. index' = index + 1
      /\ op' = [At(call, s, pc) EXCEPT !.mode = mode, !.id = index + 1, !.legacy = legacy]
  BY Zenon DEF AttachSlot
<1>2. /\ pc \in {"add", "open", "update", "create"}
      /\ pc = "add" => legacy /\ Kinds[s] = "probe"
      /\ pc = "open" => ~legacy /\ Kinds[s] = "probe"
      /\ pc = "update" => Kinds[s] \in {"ops", "ops_link"}
      /\ pc = "create" => Kinds[s] = "link"
  <2>1. Kinds[s] \in {"probe", "link", "bare", "ops", "ops_link"}
    BY LinksAssumption DEF TypeOK, Slots
  <2> QED BY Zenon, <2>1
<1>3. legacy \in BOOLEAN /\ index + 1 \in Nat /\ s \in Nat
  BY Zenon, Ranges, Numbers, FdNumbers DEF TypeOK
<1> HIDE DEF legacy, pc
<1>4. call \in Calls /\ pc \in Pcs
  BY Zenon, <1>2 DEF Calls, Pcs, Skeleton, Attaching
<1>5. At(call, s, pc) \in OpRecord /\ At(call, s, pc).call = call /\ At(call, s, pc).s = s
      /\ At(call, s, pc).pc = pc /\ At(call, s, pc).pfd = -1 /\ At(call, s, pc).fd = -1
  BY <1>3, <1>4, CallRecord
<1> DEFINE q == At(call, s, pc)
<1> HIDE DEF q
<1>6. /\ op' \in OpRecord /\ op'.call = q.call /\ op'.s = q.s /\ op'.pc = q.pc
      /\ op'.id = index + 1 /\ op'.pfd = q.pfd /\ op'.fd = q.fd /\ op'.legacy = legacy
  <2>1. q \in OpRecord /\ op' = [q EXCEPT !.mode = mode, !.id = index + 1, !.legacy = legacy]
    BY Zenon, <1>1, <1>5 DEF q
  <2> QED BY Zenon, <2>1, <1>3 DEF OpRecord, Modes
<1>7. /\ op'.call = call /\ op'.s = s /\ op'.pc = pc /\ op'.pfd = -1 /\ op'.fd = -1
  BY Zenon, <1>5, <1>6 DEF q
<1> QED BY Zenon, <1>1, <1>2, <1>6, <1>7

LEMMA AttachSlotInv ==
  ASSUME LinksInv, NEW s \in Slots, NEW call \in {"attach", "attach_skeleton"},
         NEW mode \in Modes, AttachSlot(s, call, mode), obj, Null(s), Kinds[s] # "bare",
         op.call = "idle" \/ (op.call = "attach_skeleton" /\ op.pc = "next"),
         UNCHANGED <<Kinds, kernel, fds, link, tracefs, ops, pinned, obj, left, stuck, stray, extra>>
  PROVE  LinksInv'
<1>1. TypeOK /\ CallInv /\ ~stray /\ index \in Nat
  BY Zenon DEF LinksInv, TypeOK
<1>2. /\ index' = index + 1 /\ op' \in OpRecord /\ op'.call = call /\ op'.s = s
      /\ op'.id = index + 1 /\ op'.pfd = -1 /\ op'.fd = -1
      /\ op'.pc \in {"add", "open", "update", "create"}
      /\ op'.pc = "add" => op'.legacy /\ Kinds[s] = "probe"
      /\ op'.pc = "open" => ~op'.legacy /\ Kinds[s] = "probe"
      /\ op'.pc = "update" => Kinds[s] \in {"ops", "ops_link"}
      /\ op'.pc = "create" => Kinds[s] = "link"
  BY Zenon, <1>1, AttachSlotFacts
<1>3. InAttach' /\ ~InDestroy' /\ ~InAttach /\ ~InDestroy /\ ~HasProbe
  BY Zenon, <1>2 DEF InAttach, InDestroy, HasProbe
<1>4. ~HasProbe' /\ CallOwns' = {} /\ CallOwns = {}
  BY Zenon, <1>2, <1>3, Numbers, FdNumbers DEF HasProbe, CallOwns
<1>5. CallInv'
  BY <1>1, <1>2, Ranges DEF CallInv, Null, Slots, Attaching, Skeleton
<1>6. AttachInv' /\ DestroyInv'
  BY <1>1, <1>2, <1>3 DEF AttachInv, DestroyInv, Null, Slots
<1>7. \A h \in Holders : LinkOwns(h)' = LinkOwns(h)
  <2>1. \A h : ~Closing(h) /\ ~Closing(h)'
    BY Zenon, <1>3 DEF Closing
  <2> QED BY Zenon, <2>1, LinkOwnsSame
<1>8. /\ index' \in Nat /\ index' >= index /\ extra' \in Nat /\ stray' = FALSE
      /\ op'.id > index
  BY <1>1, <1>2 DEF TypeOK
<1>9. CallOwns' = CallOwns /\ HasProbe' <=> HasProbe
  BY Zenon, <1>3, <1>4
<1> QED BY Zenon, <1>2, <1>3, <1>4, <1>5, <1>6, <1>7, <1>8, OpStep

LEMMA AttachInvStep ==
  ASSUME LinksInv, NEW s \in Slots, NEW mode \in Modes, Attach(s, mode)
  PROVE  LinksInv'
BY Zenon, AttachSlotInv DEF Attach

\* A call that is over, or goes on with the next slot, and had nothing.
LEMMA OnwardInv ==
  ASSUME LinksInv, ~InAttach, ~InDestroy, op.call # "open", op' = Idle \/ op' = Onward,
         op'.call \in Skeleton => op.s \in Slots,
         op.call = "destroy_skeleton" => \A s \in Slots : s <= op.s => Null(s),
         UNCHANGED <<Kinds, kernel, fds, link, tracefs, ops, pinned, obj, left, stuck, stray,
                     extra, index>>
  PROVE  LinksInv'
<1>1. TypeOK /\ CallInv /\ ~stray
  BY Zenon DEF LinksInv
<1>2. /\ CallInv' /\ AttachInv' /\ DestroyInv' /\ ~InAttach' /\ ~HasProbe'
      /\ CallOwns' = {} /\ \A h : ~Closing(h)'
  <2>1. ~obj => \A s \in Slots : Null(s)'
    BY Zenon, <1>1 DEF CallInv, Null
  <2>2. op.call = "destroy_skeleton" => \A s \in Slots : s <= op.s => Null(s)'
    BY Zenon DEF Null
  <2> QED BY Zenon, <1>1, <2>1, <2>2, CallOver
<1>3. ~HasProbe /\ CallOwns = {} /\ \A h : ~Closing(h)
  BY Zenon DEF HasProbe, CallOwns, Closing
<1>4. \A h \in Holders : LinkOwns(h)' = LinkOwns(h)
  BY Zenon, <1>2, <1>3, LinkOwnsSame
<1>5. op' \in OpRecord
  BY Zenon, <1>1, AfterFacts
<1>6. index' \in Nat /\ index' >= index /\ extra' \in Nat /\ stray' = FALSE
  BY Zenon, <1>1, Numbers, FdNumbers DEF TypeOK
<1> QED BY Zenon, <1>2, <1>3, <1>4, <1>5, <1>6, OpStep

LEMMA BeginInv ==
  ASSUME LinksInv, NEW call \in Skeleton, Begin(call)
  PROVE  LinksInv'
<1>1. TypeOK /\ CallInv /\ ~stray
  BY Zenon DEF LinksInv
<1>2. op' \in OpRecord /\ op'.call = call /\ op'.s = 1 /\ op'.pc = "next" /\ op'.id = 0
  <2>1. call \in Calls /\ 1 \in Nat /\ "next" \in Pcs
    BY Zenon DEF Calls, Pcs
  <2>2. op' = At(call, 1, "next")
    BY Zenon DEF Begin
  <2> QED BY <2>1, <2>2, CallRecord
<1>3. op.call = "idle" /\ obj
      /\ UNCHANGED <<Kinds, kernel, fds, link, tracefs, ops, pinned, obj, index, left, stuck, stray, extra>>
  BY Zenon DEF Begin
<1>4. ~InAttach' /\ ~InDestroy' /\ ~InAttach /\ ~InDestroy
  BY Zenon, <1>2, <1>3 DEF InAttach, InDestroy
<1>5. ~HasProbe' /\ ~HasProbe /\ CallOwns' = {} /\ CallOwns = {}
  BY Zenon, <1>2, <1>3, <1>4 DEF HasProbe, CallOwns, Skeleton
<1>6. AttachInv' /\ DestroyInv'
  BY Zenon, <1>4 DEF AttachInv, DestroyInv
<1>7. CallInv'
  <2>1. Slots = 1 .. Len(Kinds) /\ Len(Kinds) \in Nat
    BY Zenon, <1>1, Ranges
  <2>2. 1 \in 1 .. (Len(Kinds) + 1) /\ \A s \in Slots : ~(s < 1)
    BY <2>1
  <2> QED BY Zenon, <1>2, <1>3, <2>2 DEF CallInv, Null, Skeleton, Slots
<1>8. \A h \in Holders : LinkOwns(h)' = LinkOwns(h)
  <2>1. \A h : ~Closing(h) /\ ~Closing(h)'
    BY Zenon, <1>4 DEF Closing
  <2> QED BY Zenon, <1>3, <2>1, LinkOwnsSame
<1>9. index' \in Nat /\ index' >= index /\ extra' \in Nat /\ stray' = FALSE
  BY Zenon, <1>1, <1>3, Numbers, FdNumbers DEF TypeOK
<1> QED BY Zenon, <1>2, <1>3, <1>4, <1>5, <1>6, <1>7, <1>8, <1>9, OpStep

LEMMA AttachNextInv ==
  ASSUME LinksInv, AttachNext
  PROVE  LinksInv'
<1>1. TypeOK /\ CallInv
  BY Zenon DEF LinksInv
<1>2. op.call = "attach_skeleton" /\ op.pc = "next"
      /\ UNCHANGED <<Kinds, kernel, fds, link, tracefs, ops, pinned, obj, left, stuck, stray, extra>>
  BY Zenon DEF AttachNext
<1>3. ~InAttach /\ ~InDestroy /\ op.call # "open" /\ op.call # "destroy_skeleton" /\ obj
      /\ op.call \in Skeleton
  BY Zenon, <1>1, <1>2 DEF InAttach, InDestroy, Skeleton, CallInv
<1>4. After(FALSE) = Idle
  BY Zenon DEF After
<1>5. Idle.call \notin Skeleton
  BY Zenon, IdleFacts DEF Skeleton
<1>6. CASE op' = Idle /\ UNCHANGED index
  BY Zenon, <1>2, <1>3, <1>5, <1>6, OnwardInv
<1>7. CASE op.s <= Len(Kinds)
  <2>1. op.s \in Slots
    BY <1>1, <1>3, <1>7, Ranges DEF CallInv
  <2>2. CASE op' = After(TRUE) /\ UNCHANGED index
    BY Zenon, <1>2, <1>3, <2>1, <2>2, OnwardInv DEF Onward
  <2>3. CASE AttachSlot(op.s, op.call, "default") /\ Null(op.s) /\ Kinds[op.s] # "bare"
    <3>1. "default" \in Modes /\ op.call \in {"attach", "attach_skeleton"}
      BY Zenon, <1>2 DEF Modes
    <3> QED BY Zenon, <1>2, <1>3, <2>1, <2>3, <3>1, AttachSlotInv
  <2>4. ~(op.s > Len(Kinds))
    BY <1>1, <1>7, <2>1, Ranges
  <2> QED BY Zenon, <1>4, <1>6, <2>2, <2>3, <2>4 DEF AttachNext
<1>8. CASE ~(op.s <= Len(Kinds))
  <2>1. op.s > Len(Kinds)
    BY <1>1, <1>8, Ranges DEF TypeOK, OpRecord
  <2> QED BY Zenon, <1>6, <2>1 DEF AttachNext
<1> QED BY Zenon, <1>7, <1>8

------------------------------------------------------------------------------
(* Attaching *)

LEMMA ErrorIsIdle == AttachError => op' = Idle /\ UNCHANGED link
<1>1. After(FALSE) = Idle
  BY Zenon DEF After
<1> QED BY Zenon, <1>1 DEF AttachError

\* The link that an attachment ends with.
LEMMA AttachedLink ==
  ASSUME TypeOK, op.s \in Slots, Kinds[op.s] # "bare", NEW fd \in Fds, NEW file \in Files,
         Attached(fd, file), op.pfd \in Fds \cup {-1}
  PROVE  /\ link' \in [Holders -> LinkRecord]
         /\ \A h \in Holders : h # op.s => link'[h] = link[h]
         /\ link'[op.s].kind = Kinds[op.s] /\ link'[op.s].kind # "null"
         /\ link'[op.s].kind \notin {"null", "opened"}
         /\ link'[op.s].fd = fd /\ link'[op.s].pfd = op.pfd
         /\ link'[op.s].id = op.id /\ link'[op.s].file = file
         /\ link'[op.s].legacy <=> op.pfd >= 0 /\ op.legacy
<1> DEFINE l == [kind |-> Kinds[op.s], fd |-> fd, pfd |-> op.pfd, id |-> op.id, file |-> file,
                 legacy |-> op.pfd >= 0 /\ op.legacy, disconnected |-> FALSE, pin_path |-> FALSE]
<1>1. link' = [link EXCEPT ![op.s] = l]
  BY Zenon DEF Attached
<1>2. Kinds[op.s] \in {"probe", "link", "ops", "ops_link"}
  BY LinksAssumption DEF TypeOK, Slots
<1>3. op.id \in Nat
  BY Zenon DEF TypeOK, OpRecord
<1>4. l \in LinkRecord
  BY Zenon, <1>2, <1>3 DEF LinkRecord
<1>5. l.kind = Kinds[op.s] /\ l.fd = fd /\ l.pfd = op.pfd /\ l.id = op.id /\ l.file = file
      /\ l.legacy = (op.pfd >= 0 /\ op.legacy)
  BY Zenon
<1> HIDE DEF l
<1>6. link \in [Holders -> LinkRecord] /\ op.s \in Holders
  BY Zenon DEF TypeOK, Holders
<1>7. link'[op.s] = l /\ link' \in [Holders -> LinkRecord]
      /\ \A h \in Holders : h # op.s => link'[h] = link[h]
  BY Zenon, <1>1, <1>4, <1>6
<1>8. l.kind # "null" /\ l.kind \notin {"null", "opened"}
  BY Zenon, <1>2, <1>5
<1> QED BY Zenon, <1>5, <1>7, <1>8

\* What every step that ends an attachment with a link does.
LEMMA AttachedFacts ==
  ASSUME LinksInv, InAttach, NEW i, i = op.s, NEW fd \in Fds, NEW file \in Files, Attached(fd, file),
         UNCHANGED <<Kinds, obj, index, left>>, Kinds[i] # "bare",
         Kinds[i] = "probe" =>
           op.pfd \in Fds /\ file = IF fd = op.pfd THEN Event(op.id) ELSE BpfLink(op.id),
         Kinds[i] # "probe" => op.pfd = -1,
         Kinds[i] \in {"link", "ops_link"} => file = BpfLink(op.id),
         Kinds[i] = "ops" => fd = i - 1 /\ file = ObjFile(i)
  PROVE  /\ op' \in OpRecord /\ LinksShaped' /\ IdsDiffer'
         /\ CallInv' /\ AttachInv' /\ DestroyInv' /\ ~HasProbe' /\ CallOwns' = {}
         /\ \A h \in Holders : h # i => LinkOwns(h)' = LinkOwns(h)
         /\ LinkOwns(i) = {}
         /\ Kinds[i] = "ops" => LinkOwns(i)' = {}
         /\ Kinds[i] \in {"link", "ops_link"} => LinkOwns(i)' = {<<fd, file>>}
         /\ Kinds[i] = "probe" => LinkOwns(i)' = {<<fd, file>>, <<op.pfd, Event(op.id)>>}
<1>1. TypeOK /\ LinksShaped /\ CallInv /\ AttachInv /\ IdsDiffer
  BY Zenon DEF LinksInv
<1>2. i \in Slots /\ Null(i) /\ op.id = index /\ index \in Nat
  BY Zenon, <1>1 DEF AttachInv, TypeOK
<1>3. /\ link' \in [Holders -> LinkRecord]
      /\ \A h \in Holders : h # i => link'[h] = link[h]
      /\ link'[i].kind = Kinds[i] /\ link'[i].kind # "null"
      /\ link'[i].kind \notin {"null", "opened"}
      /\ link'[i].fd = fd /\ link'[i].pfd = op.pfd
      /\ link'[i].id = op.id /\ link'[i].file = file
      /\ link'[i].legacy <=> op.pfd >= 0 /\ op.legacy
  <2>1. op.pfd \in Fds \cup {-1}
    BY Zenon, <1>1 DEF TypeOK, OpRecord
  <2> QED BY Zenon, <1>1, <1>2, <2>1, AttachedLink
<1>4. Slots' = Slots /\ Holders' = Holders /\ i \in Holders /\ Handle \in Holders /\ i # Handle
      /\ Slots \subseteq Holders
  BY Zenon, <1>1, <1>2, Ranges DEF Slots, Holders, Handle
<1>5. \A h \in Holders : h # i => (Null(h)' <=> Null(h))
  BY Zenon, <1>3 DEF Null
<1>6. ~Null(i)'
  BY Zenon, <1>3 DEF Null
<1>7. LinksShaped'
  <2>1. Shape(link[i])'
    BY Zenon, <1>2, <1>3, <1>4, Numbers, FdNumbers DEF Shape, Event, BpfLink, ObjFile, Fds
  <2>2. \A l : Shape(l)' <=> Shape(l)
    BY Zenon, <1>4, Numbers, FdNumbers DEF Shape, Event, BpfLink, ObjFile
  <2>3. \A h \in Holders : ~Null(h)' => Shape(link[h])'
    BY Zenon, <1>1, <1>3, <1>5, <2>1, <2>2 DEF LinksShaped
  <2>4. \A s \in Slots : ~Null(s)' => /\ link'[s].kind = Kinds[s] /\ link'[s].kind # "opened"
                                      /\ link'[s].kind = "ops" => link'[s].file = ObjFile(s)
    <3>1. CASE Kinds[i] = "ops"
      BY <1>1, <1>3, <1>4, <1>5, <3>1 DEF LinksShaped
    <3>2. CASE Kinds[i] # "ops"
      BY <1>1, <1>3, <1>4, <1>5, <3>2 DEF LinksShaped
    <3> QED BY Zenon, <3>1, <3>2
  <2>5. link'[Handle].kind \in {"null", "opened"}
    BY Zenon, <1>1, <1>3, <1>4 DEF LinksShaped
  <2>6. \A l \in left : l.kind # "null" /\ Shape(l)'
    BY Zenon, <1>1, <2>2 DEF LinksShaped
  <2> QED BY Zenon, <1>4, <2>3, <2>4, <2>5, <2>6 DEF LinksShaped, ObjFile
<1>8. op' = Onward
  BY Zenon DEF Attached, Onward
<1>9. op' \in OpRecord
  BY Zenon, <1>1, <1>8, AfterFacts
<1>10. /\ CallInv' /\ AttachInv' /\ DestroyInv' /\ ~InAttach' /\ ~HasProbe'
       /\ CallOwns' = {} /\ \A h : ~Closing(h)'
  <2>1. obj /\ op.call # "destroy_skeleton"
    BY Zenon, <1>1 DEF CallInv, InAttach, Skeleton
  <2> QED BY Zenon, <1>1, <1>2, <1>8, <2>1, CallOver
<1>11. IdsDiffer'
  <2>1. \A s \in Slots : s # i => link'[s] = link[s] /\ (Null(s)' <=> Null(s))
    BY Zenon, <1>3, <1>4, <1>5
  <2>2. link'[i].id = op.id
    BY Zenon, <1>3
  <2>3. /\ \A s \in Slots : ~Null(s) => link[s].id # op.id
        /\ \A l \in left : l.kind # "opened" => l.id # op.id
    BY Zenon, <1>1 DEF IdsDiffer
  <2>4. \A s, t \in Slots : s # t /\ ~Null(s)' /\ ~Null(t)' => link'[s].id # link'[t].id
    BY <1>1, <2>1, <2>2, <2>3 DEF IdsDiffer
  <2>5. \A s \in Slots, l \in left : ~Null(s)' /\ l.kind # "opened" => link'[s].id # l.id
    BY <1>1, <2>1, <2>2, <2>3 DEF IdsDiffer
  <2> QED BY Zenon, <1>4, <1>10, <2>4, <2>5 DEF IdsDiffer
<1>12. ~InDestroy
  BY Zenon DEF InAttach, InDestroy
<1>13. \A h \in Holders : h # i => LinkOwns(h)' = LinkOwns(h)
  <2>1. \A h : ~Closing(h)
    BY Zenon, <1>12 DEF Closing
  <2> QED BY Zenon, <1>3, <1>10, <2>1, LinkOwnsSame
<1>14. LinkOwns(i) = {}
  BY Zenon, <1>2 DEF LinkOwns
<1>15. /\ Kinds[i] = "ops" => LinkOwns(i)' = {}
       /\ Kinds[i] \in {"link", "ops_link"} => LinkOwns(i)' = {<<fd, file>>}
       /\ Kinds[i] = "probe" => LinkOwns(i)' = {<<fd, file>>, <<op.pfd, Event(op.id)>>}
  <2>1. ~Closing(i)'
    BY Zenon, <1>10
  <2>2. LinkOwns(i)' = IF link'[i].kind = "ops" THEN {} ELSE Descriptors(link'[i])
    BY Zenon, <1>4, <1>6, <2>1, <1>10 DEF LinkOwns, Closing, Descriptors, Event
  <2>3. Kinds[i] # "ops" => LinkOwns(i)' = {<<fd, file>>} \cup
          (IF op.pfd >= 0 THEN {<<op.pfd, Event(op.id)>>} ELSE {})
    BY Zenon, <1>3, <2>2 DEF Descriptors
  <2>4. Kinds[i] = "probe" => op.pfd >= 0
    BY Zenon, Numbers, FdNumbers DEF Fds
  <2>5. Kinds[i] # "probe" => ~(op.pfd >= 0)
    BY Zenon, Numbers, FdNumbers
  <2>6. Kinds[i] = "ops" => LinkOwns(i)' = {}
    BY Zenon, <1>3, <2>2
  <2>7. Kinds[i] \in {"link", "ops_link"} => LinkOwns(i)' = {<<fd, file>>}
    BY Zenon, <2>3, <2>5
  <2>8. Kinds[i] = "probe" => LinkOwns(i)' = {<<fd, file>>, <<op.pfd, Event(op.id)>>}
    BY Zenon, <2>3, <2>4
  <2> QED BY Zenon, <2>6, <2>7, <2>8
<1> QED BY Zenon, <1>7, <1>9, <1>10, <1>11, <1>13, <1>14, <1>15

LEMMA AttachedProbes ==
  ASSUME ProbesInv, NEW i \in Holders, \A h \in Holders : h # i => link'[h] = link[h],
         Null(i), link'[i].legacy <=> HasProbe, link'[i].id = op.id, link'[i].kind # "null",
         ~HasProbe', UNCHANGED <<Kinds, left, tracefs, stuck>>
  PROVE  ProbesInv'
<1>1. Holders' = Holders
  BY Zenon DEF Holders, Slots
<1>2. \A h \in Holders : h # i => (Null(h)' <=> Null(h))
  BY Zenon DEF Null
<1>3. ~Null(i)'
  BY Zenon DEF Null
<1>4. \A h \in Holders : ~Null(h)' /\ link'[h].legacy => link'[h].id \in tracefs
  BY Zenon, <1>2 DEF ProbesInv
<1>5. ASSUME NEW k \in tracefs
      PROVE  Probed(k)' \/ <<"probe", k>> \in stuck
  <2>1. CASE \E h \in Holders : ~Null(h) /\ link[h].legacy /\ link[h].id = k
    <3>1. PICK h \in Holders : ~Null(h) /\ link[h].legacy /\ link[h].id = k
      BY Zenon, <2>1
    <3>2. h # i
      BY Zenon, <3>1
    <3> QED BY Zenon, <1>1, <1>2, <3>1, <3>2 DEF Probed
  <2>2. CASE \E l \in left : l.legacy /\ l.id = k
    BY Zenon, <2>2 DEF Probed
  <2>3. CASE HasProbe /\ op.id = k
    BY Zenon, <1>1, <1>3, <2>3 DEF Probed
  <2> QED BY Zenon, <2>1, <2>2, <2>3 DEF ProbesInv, Probed
<1> QED BY Zenon, <1>1, <1>4, <1>5 DEF ProbesInv

LEMMA AttachedValues ==
  ASSUME TypeOK, ValuesInv, NEW i \in Slots, \A s \in Slots : s # i => link'[s] = link[s],
         Null(i), link'[i].kind # "ops", UNCHANGED <<Kinds, left, ops>>, stuck' = stuck
  PROVE  ValuesInv'
<1>1. Slots' = Slots /\ link[i].kind # "ops"
  BY Zenon DEF Slots, Null
<1>2. \A s \in Slots : link'[s].kind = "ops" <=> link[s].kind = "ops"
  BY Zenon, <1>1
<1>3. \A s \in Slots : link'[s].kind = "ops" => s \in ops
  BY Zenon, <1>2 DEF ValuesInv
<1>4. \A l \in left, s \in Slots : l.kind = "ops" /\ l.file = ObjFile(s) =>
        s \in ops /\ link'[s].kind # "ops"
  BY Zenon, <1>2 DEF ValuesInv
<1>5. \A s \in ops : \/ Kinds[s] = "ops_link" \/ link'[s].kind = "ops"
                     \/ <<"ops", s>> \in stuck
                     \/ \E l \in left : l.kind = "ops" /\ l.file = ObjFile(s)
  BY Zenon, <1>2 DEF ValuesInv, TypeOK
<1> QED BY Zenon, <1>1, <1>3, <1>4, <1>5 DEF ValuesInv, ObjFile

\* An attachment ends with a link that has what the call had.
LEMMA AttachedInv ==
  ASSUME LinksInv, InAttach, NEW i, i = op.s, NEW fd \in Fds, NEW file \in Files, Attached(fd, file),
         UNCHANGED <<Kinds, kernel, obj, index, left, tracefs, pinned, stuck, extra>>,
         Kinds[i] # "bare",
         Kinds[i] = "probe" =>
           op.pfd \in Fds /\ file = IF fd = op.pfd THEN Event(op.id) ELSE BpfLink(op.id),
         Kinds[i] # "probe" => op.pfd = -1,
         Kinds[i] \in {"link", "ops_link"} => file = BpfLink(op.id),
         Kinds[i] = "ops" => fd = i - 1 /\ file = ObjFile(i),
         (op.pfd >= 0 /\ op.legacy) <=> HasProbe,
         fds' \in [Fds -> Files], ops' \subseteq Slots, stray' = FALSE,
         Accounted(Owned, fds)', Kinds[i] = "ops" \/ ops' = ops, Kinds[i] = "ops" => ValuesInv'
  PROVE  LinksInv'
<1>1. TypeOK /\ AttachInv /\ ProbesInv /\ ValuesInv
  BY Zenon DEF LinksInv
<1>2. op.s \in Slots /\ i \in Slots /\ i \in Holders /\ Null(i)
  BY Zenon, <1>1 DEF AttachInv, Holders
<1>3. /\ link' \in [Holders -> LinkRecord]
      /\ \A h \in Holders : h # i => link'[h] = link[h]
      /\ link'[i].kind = Kinds[i] /\ link'[i].kind # "null"
      /\ link'[i].id = op.id
      /\ link'[i].legacy <=> op.pfd >= 0 /\ op.legacy
  <2>1. op.pfd \in Fds \cup {-1}
    BY Zenon, <1>1 DEF TypeOK, OpRecord
  <2> QED BY Zenon, <1>1, <1>2, <2>1, AttachedLink
<1>4. /\ op' \in OpRecord /\ LinksShaped' /\ IdsDiffer'
      /\ CallInv' /\ AttachInv' /\ DestroyInv' /\ ~HasProbe'
  BY Zenon, AttachedFacts
<1>5. ProbesInv'
  BY Zenon, <1>1, <1>2, <1>3, <1>4, AttachedProbes
<1>6. ValuesInv'
  <2>1. CASE Kinds[i] = "ops"
    BY Zenon, <2>1
  <2>2. CASE Kinds[i] # "ops"
    <3>1. \A s \in Slots : s # i => link'[s] = link[s]
      BY Zenon, <1>3 DEF Holders
    <3> QED BY Zenon, <1>1, <1>2, <1>3, <2>2, <3>1, AttachedValues
  <2> QED BY Zenon, <2>1, <2>2
<1>7. TypeOK'
  <2>1. Holders' = Holders /\ Slots' = Slots
    BY Zenon DEF Holders, Slots
  <2> QED BY Zenon, <1>1, <1>3, <1>4, <2>1 DEF TypeOK
<1> QED BY Zenon, <1>4, <1>5, <1>6, <1>7 DEF LinksInv

LEMMA LinkCreateInv ==
  ASSUME LinksInv, LinkCreate
  PROVE  LinksInv'
<1>1. TypeOK /\ CallInv /\ AttachInv /\ Accounted(Owned, fds) /\ ~stray
  BY Zenon DEF LinksInv
<1>2. InAttach /\ op.pc = "create"
      /\ UNCHANGED <<Kinds, kernel, tracefs, ops, pinned, obj, index, left, stuck, stray, extra>>
  BY Zenon DEF LinkCreate, AttachStep, InAttach
<1>3. op.s \in Slots /\ Kinds[op.s] \in {"link", "ops_link"} /\ op.pfd = -1
  BY Zenon, <1>1, <1>2 DEF AttachInv
<1>4. ~HasProbe /\ CallOwns = {} /\ stray' = FALSE
  BY Zenon, <1>1, <1>2 DEF HasProbe, CallOwns, InAttach, TypeOK
<1>5. CASE AttachError /\ UNCHANGED fds
  BY Zenon, <1>2, <1>4, <1>5, ErrorIsIdle, AttachErrorInv
<1>6. ASSUME NEW n \in Fds, Open(BpfLink(op.id), n), Attached(n, BpfLink(op.id))
      PROVE  LinksInv'
  <2>i. PICK i : i = op.s
    BY Zenon
  <2>f. PICK f : f = BpfLink(op.id)
    BY Zenon
  <2>1. fds[n] = NoFile /\ fds' = [fds EXCEPT ![n] = f]
    BY Zenon, <1>6, <2>f DEF Open, LowestFd, FreeFds
  <2>2. f \in Files /\ f \notin {NoFile, App} /\ fds \in [Fds -> Files]
    BY Zenon, <1>1, <2>f DEF TypeOK, OpRecord, Files, BpfLink, NoFile, App
  <2>3. /\ Kinds[i] \in {"link", "ops_link"} /\ i = op.s /\ i \in Slots /\ i \in Holders
        /\ Kinds[i] # "bare" /\ Kinds[i] # "ops" /\ Kinds[i] # "probe"
    BY Zenon, <1>3, <2>i DEF Holders
  <2>4. ~(op.pfd >= 0)
    BY Zenon, <1>3, Numbers, FdNumbers
  <2>5. /\ CallOwns' = {} /\ \A h \in Holders : h # i => LinkOwns(h)' = LinkOwns(h)
        /\ LinkOwns(i) = {} /\ LinkOwns(i)' = {<<n, f>>}
    <3>1. Attached(n, f) /\ f = BpfLink(op.id) /\ UNCHANGED <<Kinds, obj, index, left>>
      BY Zenon, <1>2, <1>6, <2>f
    <3> QED BY ZenonT(30), <1>2, <1>3, <2>2, <2>3, <3>1, AttachedFacts
  <2>6. Accounted(Owned, fds)'
    <3>0. UNCHANGED <<Kinds, obj, left>>
      BY Zenon, <1>2
    <3>1. i \in Owners /\ Owned'[i] = Owned[i] \cup {<<n, f>>}
      <4>1. i \in Owners /\ Owned'[i] = {<<n, f>>} /\ Owned[i] = {}
        BY Zenon, <1>1, <3>0, <2>3, <2>5, OwnedOf
      <4> QED BY Zenon, <4>1
    <3>2. \A w \in Owners : w # i => Owned'[w] = Owned[w]
      BY Zenon, <1>1, <3>0, <1>4, <2>3, <2>5, OwnedOf
    <3>3. Kinds' = Kinds
      BY Zenon, <1>2
    <3> QED BY ZenonT(30), <1>1, <2>1, <2>2, <3>1, <3>2, <3>3, OwnersOpen
  <2>7. fds' \in [Fds -> Files] /\ ops' \subseteq Slots
    BY Zenon, <1>1, <1>2, <2>1, <2>2 DEF TypeOK
  <2> QED BY ZenonT(30), <1>2, <1>3, <1>4, <1>6, <2>2, <2>3, <2>4, <2>6, <2>7, <2>f, AttachedInv
<1> QED BY Zenon, <1>5, <1>6 DEF LinkCreate

------------------------------------------------------------------------------
(* What owners have, and what removing a probe does *)

LEMMA Holds ==
  ASSUME TypeOK, Accounted(Owned, fds), NEW w \in Owners, NEW n, NEW f,
         <<n, f>> \in Owned[w]
  PROVE  n \in Fds /\ fds[n] = f
<1>1. DOMAIN Owned = Owners
  BY Zenon, OwnedValues
<1>2. PICK m \in Fds : <<n, f>> = <<m, fds[m]>>
  BY Zenon, <1>1 DEF Accounted
<1> QED BY Zenon, <1>2

LEMMA CallHas ==
  ASSUME LinksInv, InAttach
  PROVE  /\ op.pc \in {"set", "enable", "undo_set", "undo_open"} =>
              op.pfd \in Fds /\ fds[op.pfd] = Event(op.id)
         /\ op.pc \in {"enable", "undo_set"} /\ op.fd # op.pfd =>
              op.fd \in Fds /\ fds[op.fd] = BpfLink(op.id)
<1>1. TypeOK /\ Accounted(Owned, fds)
  BY Zenon DEF LinksInv
<1>2. TheCall \in Owners /\ Owned[TheCall] = CallOwns
  BY Zenon, <1>1, OwnedValues
<1>3. op.call # "open"
  BY Zenon DEF InAttach
<1>4. op.pc \in {"set", "enable", "undo_set", "undo_open"} =>
        <<op.pfd, Event(op.id)>> \in CallOwns
  BY Zenon, <1>3 DEF CallOwns
<1>5. op.pc \in {"enable", "undo_set"} /\ op.fd # op.pfd =>
        <<op.fd, BpfLink(op.id)>> \in CallOwns
  BY Zenon, <1>3 DEF CallOwns
<1>6. \A n, f : <<n, f>> \in CallOwns => n \in Fds /\ fds[n] = f
  BY Zenon, <1>1, <1>2, Holds
<1> QED BY Zenon, <1>4, <1>5, <1>6

LEMMA LinkHas ==
  ASSUME LinksInv, NEW i \in Holders, ~Null(i), link[i].kind # "ops"
  PROVE  /\ ~Closing(i) => link[i].fd \in Fds /\ fds[link[i].fd] = link[i].file
         /\ ~Closing(i) /\ link[i].kind = "probe" =>
              link[i].pfd \in Fds /\ fds[link[i].pfd] = Event(link[i].id)
         /\ Closing(i) /\ op.pc = "close" =>
              link[i].fd \in Fds /\ fds[link[i].fd] = link[i].file
<1>1. TypeOK /\ Accounted(Owned, fds) /\ Shape(link[i])
  BY Zenon DEF LinksInv, LinksShaped
<1>2. i \in Owners /\ Owned[i] = LinkOwns(i)
  BY Zenon, <1>1, OwnedValues
<1>3. ~Closing(i) => <<link[i].fd, link[i].file>> \in LinkOwns(i)
  BY Zenon DEF LinkOwns, Closing, Descriptors
<1>4. link[i].kind = "probe" => link[i].pfd >= 0
  BY Zenon, <1>1, Numbers, FdNumbers DEF Shape, Fds
<1>5. ~Closing(i) /\ link[i].kind = "probe" =>
        <<link[i].pfd, Event(link[i].id)>> \in LinkOwns(i)
  BY Zenon, <1>4 DEF LinkOwns, Closing, Descriptors
<1>6. Closing(i) /\ op.pc = "close" => <<link[i].fd, link[i].file>> \in LinkOwns(i)
  BY Zenon DEF LinkOwns, Closing
<1>7. ASSUME NEW n, NEW f, <<n, f>> \in LinkOwns(i)
      PROVE  n \in Fds /\ fds[n] = f
  <2>1. <<n, f>> \in Owned[i]
    BY Zenon, <1>2, <1>7
  <2> QED BY Zenon, <1>1, <1>2, <2>1, Holds
<1>8. ~Closing(i) => link[i].fd \in Fds /\ fds[link[i].fd] = link[i].file
  BY Zenon, <1>3, <1>7
<1>9. ~Closing(i) /\ link[i].kind = "probe" =>
        link[i].pfd \in Fds /\ fds[link[i].pfd] = Event(link[i].id)
  BY Zenon, <1>5, <1>7
<1>10. Closing(i) /\ op.pc = "close" =>
         link[i].fd \in Fds /\ fds[link[i].fd] = link[i].file
  BY ZenonT(60), <1>6, <1>7, Numbers, FdNumbers
<1> QED BY Zenon, <1>8, <1>9, <1>10, Numbers, FdNumbers

\* Only a probe's link has a descriptor open on an event, and on its own.
LEMMA EventOfLink ==
  ASSUME NEW l, Shape(l), l.kind \in {"probe", "link", "ops", "ops_link", "opened"},
         NEW n, NEW k, <<n, Event(k)>> \in Descriptors(l)
  PROVE  l.kind = "probe" /\ l.id = k
<1>1. CASE l.kind = "ops"
  BY Zenon, <1>1 DEF Descriptors
<1>2. CASE l.kind \in {"link", "ops_link"}
  BY <1>2 DEF Descriptors, Shape, BpfLink, Event
<1>3. CASE l.kind = "opened"
  BY <1>3 DEF Descriptors, Shape, Pinnable, Event
<1>4. CASE l.kind = "probe"
  BY <1>4 DEF Descriptors, Shape, BpfLink, Event
<1> QED BY Zenon, <1>1, <1>2, <1>3, <1>4

LEMMA EventOwner ==
  ASSUME LinksInv, NEW n \in Fds, NEW k, fds[n] = Event(k)
  PROVE  \/ \E s \in Slots : ~Null(s) /\ link[s].id = k /\ <<n, Event(k)>> \in LinkOwns(s)
         \/ \E l \in left : l.kind # "opened" /\ l.id = k
         \/ InAttach /\ <<n, Event(k)>> \in CallOwns
<1>1. TypeOK /\ LinksShaped /\ CallInv /\ Accounted(Owned, fds)
  BY Zenon DEF LinksInv
<1>2. PICK w \in Owners : <<n, Event(k)>> \in Owned[w]
  <2>1. fds[n] \notin {NoFile, App}
    BY DEF Event, NoFile, App
  <2>2. DOMAIN Owned = Owners
    BY Zenon, <1>1, OwnedValues
  <2> QED BY Zenon, <1>1, <2>1, <2>2 DEF Accounted
<1>3. CASE w = TheObject
  <2>1. Owned[w] = IF obj THEN {<<s - 1, ObjFile(s)>> : s \in Slots} ELSE {}
    BY Zenon, <1>1, <1>3, OwnedValues
  <2> QED BY <1>2, <2>1 DEF ObjFile, Event
<1>4. CASE w = TheCall
  <2>1. <<n, Event(k)>> \in CallOwns
    BY Zenon, <1>1, <1>2, <1>4, OwnedValues
  <2>2. op.call # "open"
    BY <1>1, <2>1 DEF CallOwns, CallInv, Pinnable, Event
  <2> QED BY Zenon, <2>1, <2>2 DEF CallOwns
<1>5. CASE w = GivenUp
  <2>1. PICK l \in left : <<n, Event(k)>> \in Descriptors(l)
    BY Zenon, <1>1, <1>2, <1>5, OwnedValues
  <2>2. Shape(l) /\ l.kind \in {"probe", "link", "ops", "ops_link", "opened"}
    BY Zenon, <1>1 DEF LinksShaped, TypeOK, LinkRecord
  <2>3. l.kind = "probe" /\ l.id = k
    BY Zenon, <2>1, <2>2, EventOfLink
  <2> QED BY Zenon, <2>3
<1>6. CASE w \in Holders
  <2>1. <<n, Event(k)>> \in LinkOwns(w)
    BY Zenon, <1>1, <1>2, <1>6, OwnedValues
  <2>2. ~Null(w) /\ link[w].kind # "ops"
    BY Zenon, <2>1 DEF LinkOwns
  <2>3. Shape(link[w]) /\ link[w].kind \in {"probe", "link", "ops", "ops_link", "opened"}
    BY Zenon, <1>1, <1>6, <2>2 DEF LinksShaped, TypeOK, LinkRecord, Null
  <2>4. <<n, Event(k)>> \in Descriptors(link[w])
    BY Zenon, <2>1, <2>2 DEF LinkOwns, Descriptors
  <2>5. link[w].kind = "probe" /\ link[w].id = k
    BY Zenon, <2>3, <2>4, EventOfLink
  <2>6. w \in Slots
    BY Zenon, <1>1, <1>6, <2>5 DEF LinksShaped, Holders
  <2> QED BY Zenon, <2>1, <2>2, <2>5, <2>6
<1> QED BY Zenon, <1>1, <1>3, <1>4, <1>5, <1>6, OwnedValues

\* A probe whose event is closed is removed, or recorded as one that stays.
LEMMA RemoveProbeFacts ==
  ASSUME TypeOK, NEW k \in Nat, RemoveProbe(k), \A n \in Fds : fds[n] # Event(k)
  PROVE  /\ extra' \in Nat /\ tracefs' \subseteq Nat
         /\ \/ tracefs' = tracefs \ {k} /\ stuck' = stuck
            \/ tracefs' = tracefs /\ stuck' = stuck \cup {<<"probe", k>>}
<1>1. extra \in Nat /\ tracefs \subseteq Nat
  BY Zenon DEF TypeOK
<1>2. CASE Extra /\ stuck' = stuck \cup {<<"probe", k>>} /\ UNCHANGED tracefs
  BY Zenon, <1>1, <1>2, Numbers, FdNumbers DEF Extra
<1>3. CASE /\ tracefs' = IF EventAlive(k) THEN tracefs ELSE tracefs \ {k}
           /\ stuck' = IF LinkAlive(k) THEN stuck \cup {<<"probe", k>>} ELSE stuck
           /\ UNCHANGED extra
  <2>1. EventAlive(k) <=> LinkAlive(k)
    BY Zenon DEF EventAlive
  <2> QED BY Zenon, <1>1, <1>3, <2>1
<1> QED BY Zenon, <1>2, <1>3 DEF RemoveProbe

\* ... so that every probe is still there for something.
LEMMA RemovedProbes ==
  ASSUME ProbesInv, NEW k,
         \/ tracefs' = tracefs \ {k} /\ stuck' = stuck
         \/ tracefs' = tracefs /\ stuck' = stuck \cup {<<"probe", k>>},
         UNCHANGED <<Kinds, left>>, ~HasProbe', HasProbe => op.id = k,
         \A h \in Holders : ~Null(h)' => ~Null(h) /\ link'[h] = link[h]
                              /\ (link[h].legacy => link[h].id # k),
         \A h \in Holders : ~Null(h) /\ Null(h)' => (link[h].legacy => link[h].id = k),
         \A l \in left : l.legacy => l.id # k
  PROVE  ProbesInv'
<1>1. Holders' = Holders
  BY Zenon DEF Holders, Slots
<1>2. \A h \in Holders : ~Null(h)' /\ link'[h].legacy => link'[h].id \in tracefs'
  BY Zenon DEF ProbesInv
<1>3. \A l \in left : l.legacy => l.id \in tracefs'
  BY Zenon DEF ProbesInv
<1>4. ASSUME NEW j \in tracefs'
      PROVE  Probed(j)' \/ <<"probe", j>> \in stuck'
  <2>1. j \in tracefs /\ (j = k => <<"probe", j>> \in stuck') /\ stuck \subseteq stuck'
    BY Zenon, <1>4
  <2>2. ASSUME j # k, NEW h \in Holders, ~Null(h), link[h].legacy, link[h].id = j
        PROVE  Probed(j)'
    <3>1. ~Null(h)'
      BY Zenon, <2>2
    <3> QED BY Zenon, <1>1, <2>2, <3>1 DEF Probed
  <2>3. ASSUME NEW l \in left, l.legacy, l.id = j
        PROVE  Probed(j)'
    BY Zenon, <2>3 DEF Probed
  <2> QED BY Zenon, <2>1, <2>2, <2>3 DEF ProbesInv, Probed
<1> QED BY Zenon, <1>1, <1>2, <1>3, <1>4 DEF ProbesInv

------------------------------------------------------------------------------
(* An attachment goes on *)

LEMMA AttachGoes ==
  ASSUME LinksInv, InAttach, UNCHANGED <<Kinds, link, left, obj>>,
         op'.call = op.call, op'.s = op.s, op'.pc \in Attaching
  PROVE  /\ CallInv' /\ DestroyInv' /\ InAttach' /\ ~InDestroy'
         /\ \A h \in Holders : LinkOwns(h)' = LinkOwns(h)
<1>1. TypeOK /\ CallInv
  BY Zenon DEF LinksInv
<1>2. op.call \in {"attach", "attach_skeleton"} /\ obj
  BY Zenon, <1>1 DEF InAttach, CallInv, Skeleton
<1>3. InAttach' /\ ~InDestroy' /\ ~InDestroy
  BY Zenon, <1>2 DEF InAttach, InDestroy, Attaching
<1>4. CallInv'
  BY Zenon, <1>1, <1>2 DEF CallInv, Attaching, Skeleton
<1>5. DestroyInv'
  BY Zenon, <1>3 DEF DestroyInv
<1>6. \A h : ~Closing(h) /\ ~Closing(h)'
  BY Zenon, <1>3 DEF Closing
<1>7. \A h \in Holders : LinkOwns(h)' = LinkOwns(h)
  BY Zenon, <1>6, LinkOwnsSame
<1> QED BY Zenon, <1>3, <1>4, <1>5, <1>7

LEMMA AttachGoesInv ==
  ASSUME LinksInv, InAttach,
         UNCHANGED <<Kinds, kernel, link, left, obj, index, pinned, extra>>,
         op' \in OpRecord, op'.call = op.call, op'.s = op.s, op'.id = op.id,
         op'.pc \in Attaching, fds' \in [Fds -> Files], tracefs' \subseteq Nat,
         ops' \subseteq Slots, stray' = FALSE, AttachInv', Accounted(Owned, fds)',
         ProbesInv', ValuesInv'
  PROVE  LinksInv'
<1>1. TypeOK
  BY Zenon DEF LinksInv
<1>2. CallInv' /\ DestroyInv'
  <2>1. UNCHANGED <<Kinds, link, left, obj>>
    BY Zenon
  <2> QED BY Zenon, <2>1, AttachGoes
<1>3. /\ pinned' \in Pinnable \cup {NoFile} /\ obj' \in BOOLEAN
      /\ index' \in Nat /\ index' >= index /\ extra' \in Nat
  BY Zenon, <1>1, Numbers, FdNumbers DEF TypeOK
<1> QED BY Zenon, <1>2, <1>3, FrameInv

\* ... with the descriptors it has.
LEMMA AttachOpStep ==
  ASSUME LinksInv, InAttach, UNCHANGED <<Kinds, kernel, fds, link, left, obj, index, pinned, extra>>,
         op' \in OpRecord, op'.call = op.call, op'.s = op.s, op'.id = op.id,
         op'.pc \in Attaching, tracefs' \subseteq Nat, ops' \subseteq Slots, stray' = FALSE,
         AttachInv', CallOwns' = CallOwns, ProbesInv', ValuesInv'
  PROVE  LinksInv'
<1>1. TypeOK /\ Accounted(Owned, fds)
  BY Zenon DEF LinksInv
<1>2. UNCHANGED <<Kinds, link, left, obj>> /\ UNCHANGED <<Kinds, fds, obj, left>>
  BY Zenon
<1>3. \A h \in Holders : LinkOwns(h)' = LinkOwns(h)
  BY Zenon, <1>2, AttachGoes
<1>4. Accounted(Owned, fds)'
  BY Zenon, <1>1, <1>2, <1>3, OwnersSame
<1>5. fds' \in [Fds -> Files]
  BY Zenon, <1>1 DEF TypeOK
<1> QED BY Zenon, <1>4, <1>5, AttachGoesInv

\* ... having opened descriptor n.
LEMMA AttachOpens ==
  ASSUME LinksInv, InAttach,
         UNCHANGED <<Kinds, kernel, link, left, obj, index, pinned, extra, tracefs, ops>>,
         op' \in OpRecord, op'.call = op.call, op'.s = op.s, op'.id = op.id,
         op'.pc \in Attaching, stray' = FALSE, AttachInv',
         NEW n \in Fds, NEW f \in Files, f \notin {NoFile, App}, Open(f, n),
         CallOwns' = CallOwns \cup {<<n, f>>}, ProbesInv', ValuesInv'
  PROVE  LinksInv'
<1>1. TypeOK /\ Accounted(Owned, fds)
  BY Zenon DEF LinksInv
<1>2. UNCHANGED <<Kinds, link, left, obj>> /\ UNCHANGED <<Kinds, obj, left>> /\ Kinds' = Kinds
      /\ obj' = obj /\ left' = left
  BY Zenon
<1>3. \A h \in Holders : LinkOwns(h)' = LinkOwns(h)
  BY Zenon, <1>2, AttachGoes
<1>4. fds[n] = NoFile /\ fds' = [fds EXCEPT ![n] = f] /\ fds \in [Fds -> Files]
  BY Zenon, <1>1 DEF Open, LowestFd, FreeFds, TypeOK
<1>5. Handle \in Holders
  BY Zenon DEF Holders
<1>6. Accounted(Owned, fds)'
  <2>1. /\ TheCall \in Owners /\ Owned[TheCall] = CallOwns /\ Owned'[TheCall] = CallOwns'
        /\ DOMAIN Owned = Owners /\ DOMAIN Owned' = Owners
    BY Zenon, <1>1, <1>2, OwnedValues, OwnedNext
  <2>2. \A w \in Owners : w # TheCall => Owned'[w] = Owned[w]
    BY ZenonT(30), <1>1, <1>2, <1>3, <1>5, OwnedOf, OwnedValues, OwnedNext
  <2>3. Owned'[TheCall] = Owned[TheCall] \cup {<<n, f>>}
    BY ZenonT(30), <2>1
  <2> QED BY Zenon, <1>1, <1>2, <1>4, <2>1, <2>2, <2>3, OwnersOpen
<1>7. fds' \in [Fds -> Files] /\ tracefs' \subseteq Nat /\ ops' \subseteq Slots
  BY Zenon, <1>1, <1>4 DEF TypeOK
<1> QED BY ZenonT(30), <1>6, <1>7, AttachGoesInv

LEMMA AddProbeInv ==
  ASSUME LinksInv, AddProbe
  PROVE  LinksInv'
<1>1. TypeOK /\ AttachInv /\ ProbesInv /\ ValuesInv /\ ~stray
  BY Zenon DEF LinksInv
<1>2. InAttach /\ op.pc = "add" /\ op.call # "open"
      /\ UNCHANGED <<Kinds, kernel, fds, ops, pinned, obj, index, left, stuck, stray, extra>>
  BY Zenon DEF AddProbe, AttachStep, InAttach
<1>3. ~HasProbe /\ CallOwns = {} /\ stray' = FALSE
  BY Zenon, <1>1, <1>2 DEF HasProbe, CallOwns, TypeOK
<1>4. CASE AttachError /\ UNCHANGED tracefs
  BY Zenon, <1>2, <1>3, <1>4, ErrorIsIdle, AttachErrorInv
<1>5. CASE tracefs' = tracefs \cup {op.id} /\ Goto("open") /\ UNCHANGED link
  <2>1. "open" \in Pcs /\ "open" \in Attaching
    BY Zenon DEF Pcs, Attaching
  <2>2. /\ op' \in OpRecord /\ op'.call = op.call /\ op'.s = op.s /\ op'.pc = "open"
        /\ op'.id = op.id /\ op'.pfd = op.pfd /\ op'.fd = op.fd /\ op'.legacy = op.legacy
    BY Zenon, <1>1, <1>5, <2>1, GotoFacts
  <2>3. InAttach'
    BY Zenon, <1>2, <2>2 DEF InAttach
  <2>4. AttachInv'
    BY Zenon, <1>1, <1>2, <1>5, <2>2 DEF AttachInv, Null, Slots
  <2>5. CallOwns' = CallOwns
    BY Zenon, <1>2, <1>3, <2>2, <2>3 DEF CallOwns
  <2>6. op.legacy /\ HasProbe'
    BY Zenon, <1>1, <1>2, <2>2, <2>3 DEF AttachInv, HasProbe
  <2>7. ProbesInv'
    <3>1. Holders' = Holders /\ (\A h : Null(h)' <=> Null(h)) /\ link' = link /\ left' = left
          /\ stuck' = stuck
      BY Zenon, <1>2, <1>5 DEF Holders, Slots, Null
    <3>2. \A k \in tracefs : Probed(k)' \/ <<"probe", k>> \in stuck
      BY Zenon, <1>1, <1>3, <3>1 DEF ProbesInv, Probed
    <3>3. Probed(op.id)'
      BY Zenon, <2>2, <2>6 DEF Probed
    <3> QED BY ZenonT(30), <1>1, <1>5, <2>2, <2>6, <3>1, <3>2, <3>3 DEF ProbesInv
  <2>8. ValuesInv'
    BY Zenon, <1>1, <1>2, <1>5, ValuesFrame
  <2>9. tracefs' \subseteq Nat /\ ops' \subseteq Slots
    BY Zenon, <1>1, <1>2, <1>5 DEF TypeOK, OpRecord
  <2> QED BY ZenonT(30), <1>2, <1>3, <1>5, <2>1, <2>2, <2>4, <2>5, <2>7, <2>8, <2>9, AttachOpStep
<1> QED BY Zenon, <1>4, <1>5 DEF AddProbe

LEMMA StructOpsUpdateInv ==
  ASSUME LinksInv, StructOpsUpdate
  PROVE  LinksInv'
<1>1. TypeOK /\ CallInv /\ AttachInv /\ Accounted(Owned, fds) /\ ProbesInv /\ ValuesInv /\ ~stray
  BY Zenon DEF LinksInv
<1>2. InAttach /\ op.pc = "update" /\ op.call # "open"
      /\ UNCHANGED <<Kinds, kernel, fds, tracefs, pinned, obj, index, left, stuck, extra>>
  BY Zenon DEF StructOpsUpdate, AttachStep, InAttach
<1>i. PICK i : i = op.s
  BY Zenon
<1>3. i \in Slots /\ i \in Holders /\ Kinds[i] \in {"ops", "ops_link"} /\ op.pfd = -1 /\ obj
      /\ Null(i)
  BY Zenon, <1>1, <1>2, <1>i DEF AttachInv, CallInv, InAttach, Holders, Skeleton
<1>4. ~HasProbe /\ CallOwns = {}
  BY Zenon, <1>2 DEF HasProbe, CallOwns
<1>5. i - 1 \in Fds /\ fds[i - 1] = ObjFile(i)
  <2>1. TheObject \in Owners /\ <<i - 1, ObjFile(i)>> \in Owned[TheObject]
    <3>1. TheObject \in Owners /\ Owned[TheObject] = {<<s - 1, ObjFile(s)>> : s \in Slots}
      BY Zenon, <1>1, <1>3, OwnedValues
    <3> QED BY Zenon, <1>3, <3>1
  <2> QED BY Zenon, <1>1, <2>1, Holds
<1>6. stray' = FALSE
  <2>1. stray' = (stray \/ fds[i - 1] # ObjFile(i))
    BY Zenon, <1>i DEF StructOpsUpdate, Use
  <2> QED BY Zenon, <1>1, <1>5, <2>1
<1>7. CASE AttachError /\ UNCHANGED ops
  BY ZenonT(30), <1>2, <1>4, <1>6, <1>7, ErrorIsIdle, AttachErrorInv
<1>8. CASE /\ Kinds[i] = "ops_link" /\ ops' = ops \cup {i}
           /\ Goto("create") /\ UNCHANGED link
  <2>1. "create" \in Pcs /\ "create" \in Attaching
    BY Zenon DEF Pcs, Attaching
  <2>2. /\ op' \in OpRecord /\ op'.call = op.call /\ op'.s = op.s /\ op'.pc = "create"
        /\ op'.id = op.id /\ op'.pfd = op.pfd /\ op'.fd = op.fd /\ op'.legacy = op.legacy
    BY Zenon, <1>1, <1>8, <2>1, GotoFacts
  <2>3. InAttach'
    BY Zenon, <1>2, <2>2 DEF InAttach
  <2>4. AttachInv'
    BY ZenonT(30), <1>1, <1>2, <1>3, <1>8, <1>i, <2>2 DEF AttachInv, Null, Slots
  <2>5. CallOwns' = CallOwns /\ (HasProbe' <=> HasProbe)
    BY Zenon, <1>2, <1>4, <2>2, <2>3 DEF CallOwns, HasProbe
  <2>6. ProbesInv'
    BY Zenon, <1>1, <1>2, <1>8, <2>2, <2>5, ProbesFrame
  <2>7. ValuesInv'
    <3>1. Slots' = Slots /\ link' = link /\ left' = left /\ Kinds' = Kinds /\ stuck' = stuck
      BY Zenon, <1>2, <1>8 DEF Slots
    <3> QED BY Zenon, <1>1, <1>3, <1>8, <3>1 DEF ValuesInv, ObjFile
  <2>8. tracefs' \subseteq Nat /\ ops' \subseteq Slots
    BY Zenon, <1>1, <1>2, <1>3, <1>8 DEF TypeOK
  <2> QED BY ZenonT(30), <1>2, <1>6, <1>8, <2>1, <2>2, <2>4, <2>5, <2>6, <2>7, <2>8, AttachOpStep
<1>9. CASE /\ Kinds[i] = "ops" /\ i \notin ops /\ ops' = ops \cup {i}
           /\ Attached(i - 1, ObjFile(i))
  <2>1. ObjFile(i) \in Files /\ i \in Nat
    BY Zenon, <1>1, <1>3, Ranges DEF Files, ObjFile
  <2>2. Kinds[i] # "bare" /\ Kinds[i] # "probe" /\ Kinds[i] \notin {"link", "ops_link"}
        /\ ~(op.pfd >= 0)
    BY Zenon, <1>3, <1>9, Numbers, FdNumbers
  <2>3. UNCHANGED <<Kinds, obj, index, left>> /\ UNCHANGED <<Kinds, obj, left>>
        /\ UNCHANGED <<Kinds, fds, obj, left>>
    BY Zenon, <1>2
  <2>4. /\ CallOwns' = {} /\ \A h \in Holders : h # i => LinkOwns(h)' = LinkOwns(h)
        /\ LinkOwns(i) = {} /\ LinkOwns(i)' = {}
    BY ZenonT(30), <1>2, <1>3, <1>5, <1>9, <1>i, <2>1, <2>2, <2>3, AttachedFacts
  <2>5. Accounted(Owned, fds)'
    <3>1. CallOwns' = CallOwns /\ \A h \in Holders : LinkOwns(h)' = LinkOwns(h)
      BY ZenonT(30), <1>4, <2>4
    <3> QED BY Zenon, <1>1, <2>3, <3>1, OwnersSame
  <2>6. ValuesInv'
    <3>1. /\ \A h \in Holders : h # i => link'[h] = link[h]
          /\ link'[i].kind = Kinds[i]
      <4>1. op.pfd \in Fds \cup {-1}
        BY Zenon, <1>3
      <4> QED BY ZenonT(30), <1>1, <1>3, <1>5, <1>9, <1>i, <2>1, <2>2, <4>1, AttachedLink
    <3>2. Slots' = Slots /\ left' = left /\ Kinds' = Kinds /\ stuck' = stuck
          /\ \A s \in Slots : s # i => link'[s] = link[s]
      BY Zenon, <1>2, <3>1 DEF Slots, Holders
    <3>3. \A s \in Slots : link'[s].kind = "ops" => s \in ops'
      BY Zenon, <1>1, <1>9, <3>2 DEF ValuesInv
    <3>4. \A l \in left, s \in Slots : l.kind = "ops" /\ l.file = ObjFile(s) =>
            s \in ops' /\ link'[s].kind # "ops"
      BY Zenon, <1>1, <1>9, <3>2 DEF ValuesInv
    <3>5. \A s \in ops' : \/ Kinds[s] = "ops_link" \/ link'[s].kind = "ops"
                          \/ <<"ops", s>> \in stuck
                          \/ \E l \in left : l.kind = "ops" /\ l.file = ObjFile(s)
      BY ZenonT(30), <1>1, <1>3, <1>9, <3>1, <3>2 DEF ValuesInv, TypeOK
    <3> QED BY ZenonT(30), <3>2, <3>3, <3>4, <3>5 DEF ValuesInv, ObjFile
  <2>7. fds' \in [Fds -> Files] /\ ops' \subseteq Slots
    BY Zenon, <1>1, <1>2, <1>3, <1>9 DEF TypeOK
  <2> QED BY ZenonT(30), <1>2, <1>4, <1>5, <1>6, <1>9, <1>i, <2>1, <2>2, <2>5, <2>6, <2>7,
             <1>3, AttachedInv
<1>10. Kinds[i] = "ops_link" \/ Kinds[i] = "ops"
  BY ZenonT(30), <1>3
<1> QED BY Zenon, <1>7, <1>8, <1>9, <1>10, <1>i DEF StructOpsUpdate

LEMMA EventOpenInv ==
  ASSUME LinksInv, EventOpen
  PROVE  LinksInv'
<1>1. TypeOK /\ AttachInv /\ ProbesInv /\ ValuesInv /\ ~stray
  BY Zenon DEF LinksInv
<1>2. InAttach /\ op.pc = "open" /\ op.call # "open"
      /\ UNCHANGED <<Kinds, kernel, tracefs, ops, pinned, obj, index, left, stuck, stray, extra>>
  BY Zenon DEF EventOpen, AttachStep, InAttach
<1>3. (HasProbe <=> op.legacy) /\ CallOwns = {} /\ stray' = FALSE
  BY Zenon, <1>1, <1>2 DEF HasProbe, CallOwns, TypeOK
<1>4. CASE ~op.legacy /\ AttachError /\ UNCHANGED fds
  BY ZenonT(30), <1>2, <1>3, <1>4, ErrorIsIdle, AttachErrorInv
<1>5. tracefs' \subseteq Nat /\ ops' \subseteq Slots
  BY Zenon, <1>1, <1>2 DEF TypeOK
<1>6. CASE op.legacy /\ Goto("undo_add") /\ UNCHANGED link /\ UNCHANGED fds
  <2>1. "undo_add" \in Pcs /\ "undo_add" \in Attaching
    BY Zenon DEF Pcs, Attaching
  <2>2. /\ op' \in OpRecord /\ op'.call = op.call /\ op'.s = op.s /\ op'.pc = "undo_add"
        /\ op'.id = op.id /\ op'.pfd = op.pfd /\ op'.fd = op.fd /\ op'.legacy = op.legacy
    BY Zenon, <1>1, <1>6, <2>1, GotoFacts
  <2>3. InAttach'
    BY Zenon, <1>2, <2>2 DEF InAttach
  <2>4. AttachInv'
    BY Zenon, <1>1, <1>2, <1>6, <2>2 DEF AttachInv, Null, Slots
  <2>5. CallOwns' = CallOwns /\ (HasProbe' <=> HasProbe)
    BY Zenon, <1>2, <1>3, <1>6, <2>2, <2>3 DEF CallOwns, HasProbe
  <2>6. ProbesInv'
    BY Zenon, <1>1, <1>2, <1>6, <2>2, <2>5, ProbesFrame
  <2>7. ValuesInv'
    BY Zenon, <1>1, <1>2, <1>6, ValuesFrame
  <2> QED BY ZenonT(30), <1>2, <1>3, <1>5, <1>6, <2>1, <2>2, <2>4, <2>5, <2>6, <2>7, AttachOpStep
<1>7. ASSUME NEW n \in Fds, Open(Event(op.id), n), op' = [op EXCEPT !.pfd = n, !.pc = "set"],
             UNCHANGED link
      PROVE  LinksInv'
  <2>f. PICK f : f = Event(op.id)
    BY Zenon
  <2>1. f \in Files /\ f \notin {NoFile, App} /\ Open(f, n)
    BY Zenon, <1>1, <1>7, <2>f DEF TypeOK, OpRecord, Files, Event, NoFile, App
  <2>2. /\ op' \in OpRecord /\ op'.call = op.call /\ op'.s = op.s /\ op'.pc = "set"
        /\ op'.id = op.id /\ op'.pfd = n /\ op'.legacy = op.legacy
    <3>1. op \in OpRecord
      BY Zenon, <1>1 DEF TypeOK
    <3> QED BY Zenon, <1>7, <3>1 DEF OpRecord, Attaching
  <2>3. InAttach' /\ op'.pc \in Attaching
    BY Zenon, <1>2, <2>2 DEF InAttach, Attaching
  <2>4. AttachInv'
    BY Zenon, <1>1, <1>2, <1>7, <2>2 DEF AttachInv, Null, Slots
  <2>5. CallOwns' = CallOwns \cup {<<n, f>>}
    <3>1. CallOwns' = {<<n, f>>}
      BY Zenon, <1>2, <2>2, <2>3, <2>f DEF CallOwns, Event
    <3> QED BY Zenon, <1>3, <3>1
  <2>6. HasProbe' <=> HasProbe
    BY Zenon, <1>2, <1>3, <2>2, <2>3 DEF HasProbe
  <2>7. ProbesInv'
    BY Zenon, <1>1, <1>2, <1>7, <2>2, <2>6, ProbesFrame
  <2>8. ValuesInv'
    BY Zenon, <1>1, <1>2, <1>7, ValuesFrame
  <2> QED BY ZenonT(30), <1>2, <1>3, <1>7, <2>1, <2>2, <2>3, <2>4, <2>5, <2>7, <2>8, AttachOpens
<1> QED BY ZenonT(30), <1>4, <1>6, <1>7 DEF EventOpen

\* The program is set on the event, and may fail to be, ...
LEMMA SetBpfFailsInv ==
  ASSUME LinksInv, SetBpfFails
  PROVE  LinksInv'
<1>1. TypeOK /\ AttachInv /\ ProbesInv /\ ValuesInv /\ ~stray
  BY Zenon DEF LinksInv
<1>2. InAttach /\ op.pc = "set" /\ op.call # "open" /\ Goto("undo_open")
      /\ UNCHANGED <<Kinds, kernel, fds, link, tracefs, ops, pinned, obj, index, left, stuck, extra>>
  BY Zenon DEF SetBpfFails, AttachStep, InAttach
<1>3. stray' = FALSE
  <2>1. fds[op.pfd] = Event(op.id)
    BY Zenon, <1>2, CallHas
  <2> QED BY Zenon, <1>1, <2>1 DEF SetBpfFails, Use
<1>4. "undo_open" \in Pcs /\ "undo_open" \in Attaching
  BY Zenon DEF Pcs, Attaching
<1>5. /\ op' \in OpRecord /\ op'.call = op.call /\ op'.s = op.s /\ op'.pc = "undo_open"
      /\ op'.id = op.id /\ op'.pfd = op.pfd /\ op'.fd = op.fd /\ op'.legacy = op.legacy
  BY Zenon, <1>1, <1>2, <1>4, GotoFacts
<1>6. InAttach'
  BY Zenon, <1>2, <1>5 DEF InAttach
<1>7. AttachInv'
  BY Zenon, <1>1, <1>2, <1>5 DEF AttachInv, Null, Slots
<1>8. CallOwns' = CallOwns /\ (HasProbe' <=> HasProbe)
  BY Zenon, <1>2, <1>5, <1>6 DEF CallOwns, HasProbe, Event
<1>9. ProbesInv'
  BY Zenon, <1>1, <1>2, <1>5, <1>8, ProbesFrame
<1>10. ValuesInv'
  BY Zenon, <1>1, <1>2, ValuesFrame
<1>11. tracefs' \subseteq Nat /\ ops' \subseteq Slots
  BY Zenon, <1>1, <1>2 DEF TypeOK
<1> QED BY ZenonT(30), <1>2, <1>3, <1>4, <1>5, <1>7, <1>8, <1>9, <1>10, <1>11, AttachOpStep

LEMMA SetBpfInv ==
  ASSUME LinksInv, SetBpf
  PROVE  LinksInv'
<1>1. TypeOK /\ AttachInv /\ ProbesInv /\ ValuesInv /\ ~stray
  BY Zenon DEF LinksInv
<1>2. InAttach /\ op.pc = "set" /\ op.call # "open"
      /\ UNCHANGED <<Kinds, kernel, link, tracefs, ops, pinned, obj, index, left, stuck, extra>>
  BY Zenon DEF SetBpf, AttachStep, InAttach
<1>3. op.pfd \in Fds /\ fds[op.pfd] = Event(op.id) /\ stray' = FALSE
  <2>1. op.pfd \in Fds /\ fds[op.pfd] = Event(op.id)
    BY Zenon, <1>2, CallHas
  <2> QED BY Zenon, <1>1, <2>1 DEF SetBpf, Use
<1>4. CallOwns = {<<op.pfd, Event(op.id)>>}
  BY Zenon, <1>2 DEF CallOwns
<1>5. ASSUME NEW n \in Fds, op' = [op EXCEPT !.fd = n, !.pc = "enable"]
      PROVE  /\ op' \in OpRecord /\ op'.call = op.call /\ op'.s = op.s /\ op'.pc = "enable"
             /\ op'.id = op.id /\ op'.pfd = op.pfd /\ op'.fd = n
             /\ op'.pc \in Attaching /\ InAttach' /\ AttachInv' /\ ProbesInv' /\ ValuesInv'
             /\ CallOwns' = CallOwns \cup (IF n # op.pfd THEN {<<n, BpfLink(op.id)>>} ELSE {})
  <2>1. /\ op' \in OpRecord /\ op'.call = op.call /\ op'.s = op.s /\ op'.pc = "enable"
        /\ op'.id = op.id /\ op'.pfd = op.pfd /\ op'.fd = n /\ op'.legacy = op.legacy
    <3>1. op \in OpRecord
      BY Zenon, <1>1 DEF TypeOK
    <3> QED BY Zenon, <1>5, <3>1 DEF OpRecord, Attaching
  <2>2. InAttach' /\ op'.pc \in Attaching
    BY Zenon, <1>2, <2>1 DEF InAttach, Attaching
  <2>3. AttachInv'
    BY Zenon, <1>1, <1>2, <2>1 DEF AttachInv, Null, Slots
  <2>4. HasProbe' <=> HasProbe
    BY Zenon, <1>2, <2>1, <2>2 DEF HasProbe
  <2>5. ProbesInv'
    BY Zenon, <1>1, <1>2, <2>1, <2>4, ProbesFrame
  <2>6. ValuesInv'
    BY Zenon, <1>1, <1>2, ValuesFrame
  <2>7. CallOwns' = CallOwns \cup (IF n # op.pfd THEN {<<n, BpfLink(op.id)>>} ELSE {})
    BY Zenon, <1>2, <1>4, <2>1, <2>2 DEF CallOwns, Event, BpfLink
  <2> QED BY Zenon, <2>1, <2>2, <2>3, <2>5, <2>6, <2>7
<1>6. ASSUME NEW n \in Fds, Open(BpfLink(op.id), n), op' = [op EXCEPT !.fd = n, !.pc = "enable"]
      PROVE  LinksInv'
  <2>f. PICK f : f = BpfLink(op.id)
    BY Zenon
  <2>1. f \in Files /\ f \notin {NoFile, App} /\ Open(f, n)
    BY Zenon, <1>1, <1>6, <2>f DEF TypeOK, OpRecord, Files, BpfLink, NoFile, App
  <2>2. n # op.pfd
    BY Zenon, <1>3, <1>6, FilesDiffer DEF Open, LowestFd, FreeFds
  <2>3. CallOwns' = CallOwns \cup {<<n, f>>}
    BY Zenon, <1>5, <1>6, <2>2, <2>f
  <2>4. /\ op' \in OpRecord /\ op'.call = op.call /\ op'.s = op.s /\ op'.id = op.id
        /\ op'.pc \in Attaching /\ AttachInv' /\ ProbesInv' /\ ValuesInv'
    BY Zenon, <1>5, <1>6
  <2> QED BY ZenonT(30), <1>2, <1>3, <2>1, <2>3, <2>4, AttachOpens
<1>7. CASE UNCHANGED fds /\ op' = [op EXCEPT !.fd = op.pfd, !.pc = "enable"]
  <2>1. PICK n : n = op.pfd
    BY ZenonT(30)
  <2>2. n \in Fds /\ op' = [op EXCEPT !.fd = n, !.pc = "enable"]
    BY Zenon, <1>3, <1>7, <2>1
  <2>3. CallOwns' = CallOwns \cup (IF n # op.pfd THEN {<<n, BpfLink(op.id)>>} ELSE {})
    BY Zenon, <1>5, <2>2
  <2>4. CallOwns' = CallOwns
    BY Zenon, <2>1, <2>3
  <2>5. /\ op' \in OpRecord /\ op'.call = op.call /\ op'.s = op.s /\ op'.id = op.id
        /\ op'.pc \in Attaching /\ AttachInv' /\ ProbesInv' /\ ValuesInv'
    BY Zenon, <1>5, <2>2
  <2>6. tracefs' \subseteq Nat /\ ops' \subseteq Slots
    BY Zenon, <1>1, <1>2 DEF TypeOK
  <2> QED BY ZenonT(30), <1>2, <1>3, <1>7, <2>4, <2>5, <2>6, AttachOpStep
<1> QED BY ZenonT(30), <1>6, <1>7 DEF SetBpf

\* ... and so may the event be enabled.
LEMMA EnableInv ==
  ASSUME LinksInv, Enable
  PROVE  LinksInv'
<1>1. TypeOK /\ AttachInv /\ Accounted(Owned, fds) /\ ProbesInv /\ ValuesInv /\ ~stray
  BY Zenon DEF LinksInv
<1>2. InAttach /\ op.pc = "enable" /\ op.call # "open"
      /\ UNCHANGED <<Kinds, kernel, fds, tracefs, ops, pinned, obj, index, left, stuck, extra>>
  BY Zenon DEF Enable, AttachStep, InAttach
<1>3. op.pfd \in Fds /\ fds[op.pfd] = Event(op.id) /\ stray' = FALSE
  <2>1. op.pfd \in Fds /\ fds[op.pfd] = Event(op.id)
    BY Zenon, <1>2, CallHas
  <2> QED BY Zenon, <1>1, <2>1 DEF Enable, Use
<1>i. PICK i : i = op.s
  BY Zenon
<1>4. op.fd \in Fds /\ Kinds[i] = "probe" /\ i \in Slots /\ i \in Holders /\ op.pfd >= 0
  BY ZenonT(30), <1>1, <1>2, <1>3, <1>i, Numbers, FdNumbers DEF AttachInv, Holders, Fds
<1>5. CallOwns = {<<op.pfd, Event(op.id)>>}
                   \cup (IF op.fd # op.pfd THEN {<<op.fd, BpfLink(op.id)>>} ELSE {})
  BY Zenon, <1>2 DEF CallOwns
<1>6. tracefs' \subseteq Nat /\ ops' \subseteq Slots
  BY Zenon, <1>1, <1>2 DEF TypeOK
<1>7. CASE /\ Goto(IF op.fd # op.pfd THEN "undo_set" ELSE "undo_open")
           /\ UNCHANGED link
  <2>p. PICK p : p = IF op.fd # op.pfd THEN "undo_set" ELSE "undo_open"
    BY Zenon
  <2>1. p \in Pcs /\ p \in Attaching /\ p \in {"undo_set", "undo_open"} /\ Goto(p)
        /\ (p = "undo_set" <=> op.fd # op.pfd)
    BY Zenon, <1>7, <2>p DEF Pcs, Attaching
  <2>2. /\ op' \in OpRecord /\ op'.call = op.call /\ op'.s = op.s /\ op'.pc = p
        /\ op'.id = op.id /\ op'.pfd = op.pfd /\ op'.fd = op.fd /\ op'.legacy = op.legacy
    BY Zenon, <1>1, <2>1, GotoFacts
  <2>3. InAttach'
    BY Zenon, <1>2, <2>1, <2>2 DEF InAttach
  <2>4. AttachInv'
    BY ZenonT(30), <1>1, <1>2, <1>7, <2>1, <2>2 DEF AttachInv, Null, Slots
  <2>5. CallOwns' = CallOwns
    BY Zenon, <1>2, <1>5, <2>1, <2>2, <2>3 DEF CallOwns, Event, BpfLink
  <2>6. HasProbe' <=> HasProbe
    BY Zenon, <1>2, <2>1, <2>2, <2>3 DEF HasProbe
  <2>7. ProbesInv'
    BY Zenon, <1>1, <1>2, <1>7, <2>2, <2>6, ProbesFrame
  <2>8. ValuesInv'
    BY Zenon, <1>1, <1>2, <1>7, ValuesFrame
  <2> QED BY ZenonT(30), <1>2, <1>3, <1>6, <1>7, <2>1, <2>2, <2>4, <2>5, <2>7, <2>8, AttachOpStep
<1>8. CASE Attached(op.fd, IF op.fd = op.pfd THEN Event(op.id) ELSE BpfLink(op.id))
  <2>f. PICK f : f = IF op.fd = op.pfd THEN Event(op.id) ELSE BpfLink(op.id)
    BY ZenonT(30)
  <2>d. PICK d : d = op.fd
    BY Zenon
  <2>1. f \in Files /\ Attached(d, f) /\ d \in Fds
        /\ f = IF d = op.pfd THEN Event(op.id) ELSE BpfLink(op.id)
    <3>1. Event(op.id) \in Files /\ BpfLink(op.id) \in Files
      BY Zenon, <1>1 DEF TypeOK, OpRecord, Files, Event, BpfLink
    <3> QED BY Zenon, <1>4, <1>8, <2>f, <2>d, <3>1
  <2>2. Kinds[i] # "bare" /\ Kinds[i] # "ops" /\ Kinds[i] \notin {"link", "ops_link"}
    BY Zenon, <1>4
  <2>3. UNCHANGED <<Kinds, obj, index, left>> /\ UNCHANGED <<Kinds, obj, left>> /\ Kinds' = Kinds
        /\ fds' = fds
    BY Zenon, <1>2
  <2>4. /\ CallOwns' = {} /\ \A h \in Holders : h # i => LinkOwns(h)' = LinkOwns(h)
        /\ LinkOwns(i) = {} /\ LinkOwns(i)' = {<<d, f>>, <<op.pfd, Event(op.id)>>}
    BY ZenonT(30), <1>2, <1>3, <1>4, <1>i, <2>1, <2>2, <2>3, AttachedFacts
  <2>5. LinkOwns(i)' = CallOwns
    BY ZenonT(30), <1>5, <2>4, <2>f, <2>d
  <2>6. Accounted(Owned, fds)'
    <3>1. /\ i \in Owners /\ Owned[i] = {} /\ Owned'[i] = CallOwns
          /\ TheCall \in Owners /\ TheCall # i
          /\ Owned[TheCall] = CallOwns /\ Owned'[TheCall] = {}
          /\ \A w \in Owners : w # i /\ w # TheCall => Owned'[w] = Owned[w]
      BY ZenonT(30), <1>1, <1>4, <2>3, <2>4, <2>5, OwnedOf
    <3>2. Owned'[i] = Owned[i] \cup Owned[TheCall]
      BY ZenonT(30), <3>1
    <3> QED BY Zenon, <1>1, <2>3, <3>1, <3>2, OwnersMove
  <2>7. (op.pfd >= 0 /\ op.legacy) <=> HasProbe
    BY Zenon, <1>2, <1>4 DEF HasProbe
  <2>8. fds' \in [Fds -> Files] /\ ops' = ops
    BY Zenon, <1>1, <1>2 DEF TypeOK
  <2> QED BY ZenonT(30), <1>2, <1>3, <1>4, <1>6, <1>i, <2>1, <2>2, <2>6, <2>7, <2>8, AttachedInv
<1> QED BY ZenonT(30), <1>7, <1>8 DEF Enable

------------------------------------------------------------------------------
(* An attachment is undone *)

LEMMA AttachFailsFacts ==
  ASSUME LinksInv, InAttach, op' = Idle, UNCHANGED <<Kinds, link, left, obj>>
  PROVE  /\ op' \in OpRecord /\ CallInv' /\ AttachInv' /\ DestroyInv' /\ ~InAttach' /\ ~HasProbe'
         /\ CallOwns' = {} /\ \A h \in Holders : LinkOwns(h)' = LinkOwns(h)
<1>1. TypeOK /\ CallInv
  BY Zenon DEF LinksInv
<1>2. op' \in OpRecord /\ op'.call = "idle"
  BY Zenon, IdleFacts
<1>3. /\ CallInv' /\ AttachInv' /\ DestroyInv' /\ ~InAttach' /\ ~HasProbe'
      /\ CallOwns' = {} /\ \A h : ~Closing(h)'
  <2>1. ~obj => \A s \in Slots : Null(s)'
    BY Zenon, <1>1 DEF CallInv, Null
  <2>2. op.call # "destroy_skeleton"
    BY Zenon DEF InAttach
  <2>3. op'.call \notin Skeleton
    BY Zenon, <1>2 DEF Skeleton
  <2>4. Kinds' = Kinds /\ obj' = obj
    BY Zenon
  <2> QED BY Zenon, <1>1, <2>1, <2>2, <2>3, <2>4, CallOver
<1>4. \A h : ~Closing(h)
  BY Zenon DEF Closing, InAttach, InDestroy
<1>5. \A h \in Holders : LinkOwns(h)' = LinkOwns(h)
  BY Zenon, <1>3, <1>4, LinkOwnsSame
<1> QED BY Zenon, <1>2, <1>3, <1>5

LEMMA AttachFails ==
  ASSUME LinksInv, InAttach, op' = Idle,
         UNCHANGED <<Kinds, kernel, link, left, obj, index, pinned, ops>>,
         fds' \in [Fds -> Files], tracefs' \subseteq Nat, stuck \subseteq stuck',
         extra' \in Nat, stray' = FALSE, Accounted(Owned, fds)', ProbesInv'
  PROVE  LinksInv'
<1>1. TypeOK /\ ValuesInv
  BY Zenon DEF LinksInv
<1>2. UNCHANGED <<Kinds, link, left, obj>> /\ UNCHANGED <<Kinds, link, left, ops>>
  BY Zenon
<1>3. op' \in OpRecord /\ CallInv' /\ AttachInv' /\ DestroyInv' /\ ~InAttach'
  BY Zenon, <1>2, AttachFailsFacts
<1>4. ValuesInv'
  BY Zenon, <1>1, <1>2, ValuesFrame
<1>5. /\ ops' \subseteq Slots /\ pinned' \in Pinnable \cup {NoFile} /\ obj' \in BOOLEAN
      /\ index' \in Nat /\ index' >= index
  BY Zenon, <1>1, Numbers, FdNumbers DEF TypeOK
<1> QED BY ZenonT(30), <1>3, <1>4, <1>5, FrameInv

\* The call closes descriptor n.
LEMMA CallCloses ==
  ASSUME TypeOK, Accounted(Owned, fds), UNCHANGED <<Kinds, left, obj>>,
         \A h \in Holders : LinkOwns(h)' = LinkOwns(h),
         NEW n \in Fds, NEW f, fds[n] = f, fds' = [fds EXCEPT ![n] = NoFile],
         <<n, f>> \in CallOwns, CallOwns' = CallOwns \ {<<n, f>>}
  PROVE  Accounted(Owned, fds)'
<1>1. Kinds' = Kinds /\ obj' = obj /\ left' = left /\ UNCHANGED <<Kinds, obj, left>>
  BY Zenon
<1>2. Handle \in Holders
  BY Zenon DEF Holders
<1>3. /\ TheCall \in Owners /\ Owned[TheCall] = CallOwns /\ Owned'[TheCall] = CallOwns'
  BY Zenon, <1>1, OwnedValues, OwnedNext
<1>4. \A w \in Owners : w # TheCall => Owned'[w] = Owned[w]
  <2>1. \A w \in Owners : w # TheCall /\ w # Handle => Owned'[w] = Owned[w]
    BY Zenon, <1>1, <1>2, OwnedOf
  <2>2. Owned'[Handle] = Owned[Handle]
    BY Zenon, <1>1, <1>2, OwnedOf
  <2> QED BY Zenon, <2>1, <2>2
<1>5. <<n, f>> \in Owned[TheCall] /\ Owned'[TheCall] = Owned[TheCall] \ {<<n, f>>}
  BY Zenon, <1>3
<1> QED BY ZenonT(30), <1>1, <1>3, <1>4, <1>5, OwnersClose

LEMMA UndoSetInv ==
  ASSUME LinksInv, UndoSet
  PROVE  LinksInv'
<1>1. TypeOK /\ AttachInv /\ Accounted(Owned, fds) /\ ProbesInv /\ ValuesInv /\ ~stray
  BY Zenon DEF LinksInv
<1>2. InAttach /\ op.pc = "undo_set" /\ op.call # "open" /\ Goto("undo_open")
      /\ UNCHANGED <<Kinds, kernel, link, tracefs, ops, pinned, obj, index, left, stuck, extra>>
  BY Zenon DEF UndoSet, AttachStep, InAttach
<1>3. op.fd \in Fds /\ op.pfd \in Fds /\ op.fd # op.pfd
  BY Zenon, <1>1, <1>2 DEF AttachInv
<1>4. fds[op.fd] = BpfLink(op.id) /\ fds' = [fds EXCEPT ![op.fd] = NoFile] /\ stray' = FALSE
  <2>1. fds[op.fd] = BpfLink(op.id)
    BY Zenon, <1>2, <1>3, CallHas
  <2> QED BY Zenon, <1>1, <2>1 DEF UndoSet, CloseFd
<1>5. "undo_open" \in Pcs /\ "undo_open" \in Attaching
  BY Zenon DEF Pcs, Attaching
<1>6. /\ op' \in OpRecord /\ op'.call = op.call /\ op'.s = op.s /\ op'.pc = "undo_open"
      /\ op'.id = op.id /\ op'.pfd = op.pfd /\ op'.fd = op.fd /\ op'.legacy = op.legacy
  BY Zenon, <1>1, <1>2, <1>5, GotoFacts
<1>7. InAttach' /\ \A h \in Holders : LinkOwns(h)' = LinkOwns(h)
  <2>1. UNCHANGED <<Kinds, link, left, obj>> /\ op'.pc \in Attaching
    BY Zenon, <1>2, <1>5, <1>6
  <2> QED BY Zenon, <1>2, <1>6, <2>1, AttachGoes
<1>8. AttachInv'
  BY Zenon, <1>1, <1>2, <1>6 DEF AttachInv, Null, Slots
<1>9. <<op.fd, BpfLink(op.id)>> \in CallOwns
      /\ CallOwns' = CallOwns \ {<<op.fd, BpfLink(op.id)>>}
  <2>1. CallOwns = {<<op.pfd, Event(op.id)>>, <<op.fd, BpfLink(op.id)>>}
    BY Zenon, <1>2, <1>3 DEF CallOwns
  <2>2. CallOwns' = {<<op.pfd, Event(op.id)>>}
    BY Zenon, <1>2, <1>6, <1>7 DEF CallOwns, Event
  <2>3. <<op.pfd, Event(op.id)>> # <<op.fd, BpfLink(op.id)>>
    BY Zenon, <1>3
  <2> QED BY Zenon, <2>1, <2>2, <2>3
<1>10. Accounted(Owned, fds)'
  <2>1. UNCHANGED <<Kinds, left, obj>>
    BY Zenon, <1>2
  <2> QED BY ZenonT(30), <1>1, <1>3, <1>4, <1>7, <1>9, <2>1, CallCloses
<1>11. HasProbe' <=> HasProbe
  BY ZenonT(30), <1>2, <1>6, <1>7 DEF HasProbe
<1>12. ProbesInv'
  BY Zenon, <1>1, <1>2, <1>6, <1>11, ProbesFrame
<1>13. ValuesInv'
  BY Zenon, <1>1, <1>2, ValuesFrame
<1>14. tracefs' \subseteq Nat /\ ops' \subseteq Slots /\ fds' \in [Fds -> Files]
  <2>1. NoFile \in Files /\ fds \in [Fds -> Files]
    BY Zenon, <1>1 DEF TypeOK, Files, NoFile
  <2> QED BY Zenon, <1>1, <1>2, <1>4, <2>1 DEF TypeOK
<1> QED BY ZenonT(30), <1>2, <1>4, <1>5, <1>6, <1>8, <1>10, <1>12, <1>13, <1>14, AttachGoesInv

LEMMA UndoOpenInv ==
  ASSUME LinksInv, UndoOpen
  PROVE  LinksInv'
<1>1. TypeOK /\ AttachInv /\ Accounted(Owned, fds) /\ ProbesInv /\ ValuesInv /\ ~stray
  BY Zenon DEF LinksInv
<1>2. InAttach /\ op.pc = "undo_open" /\ op.call # "open"
      /\ UNCHANGED <<Kinds, kernel, tracefs, ops, pinned, obj, index, left, stuck, extra>>
  BY Zenon DEF UndoOpen, AttachStep, InAttach
<1>3. op.pfd \in Fds /\ fds[op.pfd] = Event(op.id)
  BY Zenon, <1>2, CallHas
<1>4. fds' = [fds EXCEPT ![op.pfd] = NoFile] /\ stray' = FALSE
  BY Zenon, <1>1, <1>3 DEF UndoOpen, CloseFd
<1>5. CallOwns = {<<op.pfd, Event(op.id)>>} /\ (HasProbe <=> op.legacy)
  BY Zenon, <1>2 DEF CallOwns, HasProbe
<1>6. tracefs' \subseteq Nat /\ ops' \subseteq Slots /\ fds' \in [Fds -> Files]
      /\ extra' \in Nat /\ stuck \subseteq stuck'
  <2>1. NoFile \in Files /\ fds \in [Fds -> Files]
    BY Zenon, <1>1 DEF TypeOK, Files, NoFile
  <2> QED BY ZenonT(30), <1>1, <1>2, <1>4, <2>1 DEF TypeOK
<1>7. ASSUME CallOwns' = {}, \A h \in Holders : LinkOwns(h)' = LinkOwns(h)
      PROVE  Accounted(Owned, fds)'
  <2>1. UNCHANGED <<Kinds, left, obj>>
    BY Zenon, <1>2
  <2>2. <<op.pfd, Event(op.id)>> \in CallOwns
        /\ CallOwns' = CallOwns \ {<<op.pfd, Event(op.id)>>}
    BY Zenon, <1>5, <1>7
  <2> QED BY ZenonT(30), <1>1, <1>3, <1>4, <1>7, <2>1, <2>2, CallCloses
<1>8. CASE ~op.legacy /\ AttachError
  <2>1. op' = Idle /\ UNCHANGED link
    BY ZenonT(30), <1>8, ErrorIsIdle
  <2>2. UNCHANGED <<Kinds, link, left, obj>>
        /\ UNCHANGED <<Kinds, kernel, link, left, obj, index, pinned, ops>>
        /\ UNCHANGED <<Kinds, link, left, tracefs, stuck>>
    BY Zenon, <1>2, <2>1
  <2>3. /\ ~HasProbe' /\ CallOwns' = {} /\ \A h \in Holders : LinkOwns(h)' = LinkOwns(h)
    BY Zenon, <1>2, <2>1, <2>2, AttachFailsFacts
  <2>4. Accounted(Owned, fds)'
    BY Zenon, <1>7, <2>3
  <2>5. ProbesInv'
    <3>1. (HasProbe' <=> HasProbe) /\ (HasProbe => op'.id = op.id)
      BY Zenon, <1>5, <1>8, <2>3
    <3> QED BY Zenon, <1>1, <2>2, <3>1, ProbesFrame
  <2> QED BY ZenonT(30), <1>2, <1>4, <1>6, <2>1, <2>2, <2>4, <2>5, AttachFails
<1>9. CASE op.legacy /\ Goto("undo_add") /\ UNCHANGED link
  <2>1. "undo_add" \in Pcs /\ "undo_add" \in Attaching
    BY ZenonT(30) DEF Pcs, Attaching
  <2>2. /\ op' \in OpRecord /\ op'.call = op.call /\ op'.s = op.s /\ op'.pc = "undo_add"
        /\ op'.id = op.id /\ op'.pfd = op.pfd /\ op'.fd = op.fd /\ op'.legacy = op.legacy
    BY Zenon, <1>1, <1>9, <2>1, GotoFacts
  <2>3. InAttach' /\ \A h \in Holders : LinkOwns(h)' = LinkOwns(h)
    <3>1. UNCHANGED <<Kinds, link, left, obj>> /\ op'.pc \in Attaching
      BY Zenon, <1>2, <1>9, <2>1, <2>2
    <3> QED BY Zenon, <1>2, <2>2, <3>1, AttachGoes
  <2>4. AttachInv'
    BY Zenon, <1>1, <1>2, <1>9, <2>2 DEF AttachInv, Null, Slots
  <2>5. CallOwns' = {} /\ (HasProbe' <=> HasProbe)
    BY ZenonT(30), <1>2, <1>5, <1>9, <2>2, <2>3 DEF CallOwns, HasProbe
  <2>6. Accounted(Owned, fds)'
    BY Zenon, <1>7, <2>3, <2>5
  <2>7. ProbesInv'
    BY Zenon, <1>1, <1>2, <1>9, <2>2, <2>5, ProbesFrame
  <2>8. ValuesInv'
    BY Zenon, <1>1, <1>2, <1>9, ValuesFrame
  <2> QED BY ZenonT(30), <1>2, <1>4, <1>6, <1>9, <2>1, <2>2, <2>4, <2>6, <2>7, <2>8, AttachGoesInv
<1> QED BY ZenonT(30), <1>8, <1>9 DEF UndoOpen

LEMMA UndoAddInv ==
  ASSUME LinksInv, UndoAdd
  PROVE  LinksInv'
<1>1. TypeOK /\ LinksShaped /\ AttachInv /\ IdsDiffer /\ Accounted(Owned, fds) /\ ProbesInv
      /\ ~stray
  BY Zenon DEF LinksInv
<1>2. InAttach /\ op.pc = "undo_add" /\ op.call # "open" /\ RemoveProbe(op.id) /\ AttachError
      /\ UNCHANGED <<Kinds, kernel, fds, ops, pinned, obj, index, left, stray>>
  BY Zenon DEF UndoAdd, AttachStep, InAttach
<1>k. PICK k : k = op.id
  BY Zenon
<1>3. k \in Nat /\ RemoveProbe(k)
  BY Zenon, <1>1, <1>2, <1>k DEF TypeOK, OpRecord
<1>4. op' = Idle /\ UNCHANGED link
  BY Zenon, <1>2, ErrorIsIdle
<1>5. UNCHANGED <<Kinds, link, left, obj>> /\ UNCHANGED <<Kinds, left>>
      /\ UNCHANGED <<Kinds, kernel, link, left, obj, index, pinned, ops>>
      /\ UNCHANGED <<Kinds, fds, obj, left>>
  BY Zenon, <1>2, <1>4
<1>6. CallOwns = {}
  BY Zenon, <1>2 DEF CallOwns
<1>7. /\ ~HasProbe' /\ CallOwns' = {} /\ \A h \in Holders : LinkOwns(h)' = LinkOwns(h)
  BY Zenon, <1>2, <1>4, <1>5, AttachFailsFacts
<1>8. Accounted(Owned, fds)'
  <2>1. CallOwns' = CallOwns
    BY Zenon, <1>6, <1>7
  <2> QED BY Zenon, <1>1, <1>5, <1>7, <2>1, OwnersSame
<1>9. \A n \in Fds : fds[n] # Event(k)
  <2> SUFFICES ASSUME NEW n \in Fds, fds[n] = Event(k)
               PROVE  FALSE
    BY Zenon
  <2>1. \/ \E s \in Slots : ~Null(s) /\ link[s].id = k
        \/ \E l \in left : l.kind # "opened" /\ l.id = k
    BY Zenon, <1>6, EventOwner
  <2>2. /\ \A s \in Slots : ~Null(s) => link[s].id # k
        /\ \A l \in left : l.kind # "opened" => l.id # k
    BY Zenon, <1>1, <1>2, <1>k DEF IdsDiffer
  <2> QED BY Zenon, <2>1, <2>2
<1>10. /\ extra' \in Nat /\ tracefs' \subseteq Nat
       /\ \/ tracefs' = tracefs \ {k} /\ stuck' = stuck
          \/ tracefs' = tracefs /\ stuck' = stuck \cup {<<"probe", k>>}
  BY Zenon, <1>1, <1>3, <1>9, RemoveProbeFacts
<1>11. ProbesInv'
  <2>1. \A h \in Holders : ~Null(h) => (link[h].legacy => link[h].id # k)
    <3>1. \A h \in Holders : ~Null(h) /\ link[h].legacy => h \in Slots
      BY Zenon, <1>1 DEF LinksShaped, Shape, Holders
    <3> QED BY Zenon, <1>1, <1>2, <1>k, <3>1 DEF IdsDiffer
  <2>2. \A l \in left : l.legacy => l.id # k
    <3>1. \A l \in left : l.legacy => l.kind # "opened"
      BY Zenon, <1>1 DEF LinksShaped, Shape
    <3> QED BY Zenon, <1>1, <1>2, <1>k, <3>1 DEF IdsDiffer
  <2>3. \A h : Null(h)' <=> Null(h)
    BY Zenon, <1>4 DEF Null
  <2>4. \A h \in Holders : ~Null(h)' => ~Null(h) /\ link'[h] = link[h]
                              /\ (link[h].legacy => link[h].id # k)
    BY Zenon, <1>4, <2>1, <2>3
  <2>5. \A h \in Holders : ~Null(h) /\ Null(h)' => (link[h].legacy => link[h].id = k)
    BY Zenon, <2>3
  <2>6. HasProbe => op.id = k
    BY Zenon, <1>k
  <2> QED BY ZenonT(30), <1>1, <1>5, <1>7, <1>10, <2>2, <2>4, <2>5, <2>6, RemovedProbes
<1>12. fds' \in [Fds -> Files] /\ stuck \subseteq stuck' /\ stray' = FALSE
  BY ZenonT(30), <1>1, <1>2, <1>10 DEF TypeOK
<1> QED BY ZenonT(30), <1>2, <1>4, <1>5, <1>8, <1>10, <1>11, <1>12, AttachFails

------------------------------------------------------------------------------
(* A link is taken down *)

\* While it goes on, only the link it is about can own something else.
LEMMA DestroyGoes ==
  ASSUME LinksInv, InDestroy, UNCHANGED <<Kinds, link, left, obj>>, NEW i, i = op.s,
         op'.call = op.call, op'.s = op.s, op'.pc \in Destroying
  PROVE  /\ CallInv' /\ AttachInv' /\ InDestroy' /\ ~InAttach' /\ ~HasProbe /\ ~HasProbe'
         /\ CallOwns = {} /\ CallOwns' = {}
         /\ \A h \in Holders : h # i => LinkOwns(h)' = LinkOwns(h)
<1>1. TypeOK /\ CallInv
  BY Zenon DEF LinksInv
<1>2. op.pc \in Destroying /\ op.call \notin {"idle", "attach", "attach_skeleton", "open"}
  BY Zenon, <1>1 DEF CallInv, InDestroy
<1>3. op.pc \notin {"next", "object"} /\ op'.pc \notin {"next", "object"}
  BY Zenon, <1>2 DEF Destroying
<1>4. InDestroy' /\ ~InAttach' /\ ~InAttach
  BY Zenon, <1>2, <1>3 DEF InDestroy, InAttach
<1>5. /\ AttachInv' /\ ~HasProbe /\ ~HasProbe' /\ CallOwns = {} /\ CallOwns' = {}
  BY Zenon, <1>2, <1>4 DEF AttachInv, HasProbe, CallOwns
<1>6. CallInv'
  <2>1. Slots' = Slots /\ \A h : Null(h)' <=> Null(h)
    BY Zenon DEF Slots, Null
  <2> QED BY Zenon, <1>1, <1>2, <1>3, <2>1 DEF CallInv
<1>7. \A h \in Holders : h # i => LinkOwns(h)' = LinkOwns(h)
  <2>1. \A h : h # i => ~Closing(h) /\ ~Closing(h)'
    BY Zenon DEF Closing
  <2> QED BY Zenon, <2>1, LinkOwnsSame
<1> QED BY Zenon, <1>4, <1>5, <1>6, <1>7

LEMMA DestroyGoesInv ==
  ASSUME LinksInv, InDestroy, Goto(op'.pc), op'.pc \in Destroying,
         UNCHANGED <<Kinds, kernel, link, left, obj, index, pinned, tracefs, ops, stuck, extra>>,
         fds' \in [Fds -> Files], stray' = FALSE, DestroyInv', Accounted(Owned, fds)'
  PROVE  LinksInv'
<1>1. TypeOK /\ ProbesInv /\ ValuesInv
  BY Zenon DEF LinksInv
<1>2. op'.pc \in Pcs
  BY Zenon DEF Pcs
<1>3. op' \in OpRecord /\ op'.call = op.call /\ op'.s = op.s
  <2>1. PICK p \in Pcs : p = op'.pc
    BY Zenon, <1>2
  <2> QED BY Zenon, <1>1, <2>1, GotoFacts
<1>i. PICK i : i = op.s
  BY Zenon
<1>4. UNCHANGED <<Kinds, link, left, obj>> /\ UNCHANGED <<Kinds, link, left, tracefs, stuck>>
      /\ UNCHANGED <<Kinds, link, left, ops>> /\ UNCHANGED <<Kinds, kernel, link, left>>
  BY Zenon
<1>5. CallInv' /\ AttachInv' /\ ~InAttach' /\ ~HasProbe /\ ~HasProbe'
  BY Zenon, <1>3, <1>4, <1>i, DestroyGoes
<1>6. ProbesInv'
  BY Zenon, <1>1, <1>4, <1>5, ProbesFrame
<1>7. ValuesInv'
  BY Zenon, <1>1, <1>4, ValuesFrame
<1>8. /\ tracefs' \subseteq Nat /\ ops' \subseteq Slots /\ pinned' \in Pinnable \cup {NoFile}
      /\ obj' \in BOOLEAN /\ index' \in Nat /\ index' >= index /\ extra' \in Nat
  BY Zenon, <1>1, Numbers, FdNumbers DEF TypeOK
<1> QED BY ZenonT(30), <1>3, <1>4, <1>5, <1>6, <1>7, <1>8, FrameInv

\* The holder i of a link closes descriptor n.
LEMMA HolderCloses ==
  ASSUME TypeOK, Accounted(Owned, fds), UNCHANGED <<Kinds, left, obj>>, CallOwns' = CallOwns,
         NEW i \in Holders, \A h \in Holders : h # i => LinkOwns(h)' = LinkOwns(h),
         NEW n \in Fds, NEW f, fds[n] = f, fds' = [fds EXCEPT ![n] = NoFile],
         <<n, f>> \in LinkOwns(i), LinkOwns(i)' = LinkOwns(i) \ {<<n, f>>}
  PROVE  Accounted(Owned, fds)'
<1>1. Kinds' = Kinds /\ UNCHANGED <<Kinds, obj, left>>
  BY Zenon
<1>2. /\ i \in Owners /\ Owned[i] = LinkOwns(i) /\ Owned'[i] = LinkOwns(i)'
      /\ Owned[TheCall] = CallOwns /\ Owned'[TheCall] = CallOwns'
      /\ \A w \in Owners : w # i /\ w # TheCall => Owned'[w] = Owned[w]
  BY Zenon, <1>1, OwnedOf
<1>3. \A w \in Owners : w # i => Owned'[w] = Owned[w]
  BY Zenon, <1>2
<1>4. <<n, f>> \in Owned[i] /\ Owned'[i] = Owned[i] \ {<<n, f>>}
  BY Zenon, <1>2
<1> QED BY ZenonT(30), <1>1, <1>2, <1>3, <1>4, OwnersClose

\* The link being taken down.
LEMMA Destroyed1 ==
  ASSUME LinksInv, InDestroy, NEW i, i = op.s
  PROVE  /\ i \in Holders /\ ~Null(i) /\ (op.call \in Skeleton => i \in Slots)
         /\ link[i] \in LinkRecord /\ Shape(link[i])
         /\ link[i].kind \in {"probe", "link", "ops", "ops_link", "opened"}
         /\ link[i].legacy => link[i].kind = "probe" /\ i \in Slots
<1>1. TypeOK /\ DestroyInv /\ LinksShaped
  BY Zenon DEF LinksInv
<1>2. i \in Holders /\ ~Null(i) /\ (op.call \in Skeleton => i \in Slots)
  BY Zenon, <1>1 DEF DestroyInv
<1>3. link[i] \in LinkRecord /\ Shape(link[i])
  BY Zenon, <1>1, <1>2 DEF TypeOK, LinksShaped
<1>4. link[i].kind \in {"probe", "link", "ops", "ops_link", "opened"}
  BY Zenon, <1>2, <1>3 DEF LinkRecord, Null
<1>5. link[i].legacy => link[i].kind = "probe"
  BY Zenon, <1>3 DEF Shape
<1>6. link[i].kind = "probe" => i \in Slots
  BY Zenon, <1>1, <1>2 DEF LinksShaped, Holders
<1> QED BY ZenonT(30), <1>2, <1>3, <1>4, <1>5, <1>6

LEMMA PerfDisableInv ==
  ASSUME LinksInv, PerfDisable
  PROVE  LinksInv'
<1>1. TypeOK /\ DestroyInv /\ Accounted(Owned, fds) /\ ~stray
  BY Zenon DEF LinksInv
<1>2. InDestroy /\ op.pc = "disable"
      /\ UNCHANGED <<Kinds, kernel, fds, link, tracefs, ops, pinned, obj, index, left, stuck, extra>>
  BY Zenon DEF PerfDisable, DestroyStep, DestroyGoesOn, InDestroy
<1>i. PICK i : i = op.s
  BY Zenon
<1>3. i \in Holders /\ ~Null(i) /\ Shape(link[i]) /\ link[i].kind = "probe" /\ ~Closing(i)
  <2>1. i \in Holders /\ ~Null(i) /\ Shape(link[i])
    BY Zenon, <1>2, <1>i, Destroyed1
  <2> QED BY Zenon, <1>1, <1>2, <1>i, <2>1 DEF DestroyInv, Closing
<1>4. stray' = FALSE
  <2>1. fds[link[i].pfd] = Event(link[i].id)
    <3>1. link[i].kind # "ops"
      BY Zenon, <1>3
    <3> QED BY Zenon, <1>3, <3>1, LinkHas
  <2> QED BY Zenon, <1>1, <1>i, <2>1 DEF PerfDisable, Use
<1>5. PICK p : p = IF link[i].pfd # link[i].fd THEN "close_event" ELSE "close"
  BY Zenon
<1>6. Goto(p) /\ p \in Destroying /\ p \in Pcs
  BY Zenon, <1>5, <1>i DEF PerfDisable, DestroyGoesOn, Destroying, Pcs
<1>7. /\ op'.call = op.call /\ op'.s = op.s /\ op'.pc = p
  BY Zenon, <1>1, <1>6, GotoFacts
<1>8. UNCHANGED <<Kinds, link, left, obj>> /\ UNCHANGED <<Kinds, fds, obj, left>>
  BY Zenon, <1>2
<1>9. /\ InDestroy' /\ CallOwns = {} /\ CallOwns' = {}
      /\ \A h \in Holders : h # i => LinkOwns(h)' = LinkOwns(h)
  BY ZenonT(30), <1>2, <1>6, <1>7, <1>8, <1>i, DestroyGoes
<1>10. LinkOwns(i)' = LinkOwns(i)
  <2>1. LinkOwns(i) = Descriptors(link[i])
    BY Zenon, <1>3 DEF LinkOwns, Closing
  <2>2. CASE link[i].pfd # link[i].fd
    <3>1. ~Closing(i)'
      BY Zenon, <1>5, <1>7, <2>2 DEF Closing
    <3> QED BY Zenon, <1>2, <1>3, <3>1, LinkOwnsSame
  <2>3. CASE link[i].pfd = link[i].fd
    <3>1. p = "close"
      BY Zenon, <1>5, <2>3
    <3>2. LinkOwns(i)' = {<<link[i].fd, link[i].file>>}
      BY ZenonT(30), <1>2, <1>3, <1>7, <1>9, <1>i, <3>1 DEF LinkOwns, Null
    <3>3. Descriptors(link[i]) = {<<link[i].fd, link[i].file>>}
      BY Zenon, <1>3, <2>3 DEF Descriptors, Shape
    <3> QED BY Zenon, <2>1, <3>2, <3>3
  <2> QED BY Zenon, <2>2, <2>3
<1>11. Accounted(Owned, fds)'
  <2>1. CallOwns' = CallOwns /\ \A h \in Holders : LinkOwns(h)' = LinkOwns(h)
    BY Zenon, <1>9, <1>10
  <2> QED BY Zenon, <1>1, <1>8, <2>1, OwnersSame
<1>12. DestroyInv'
  <2>1. link'[op.s].kind = "probe" /\ Holders' = Holders /\ Slots' = Slots /\ ~Null(i)'
    BY Zenon, <1>2, <1>3, <1>i DEF Holders, Slots, Null
  <2>2. op'.pc \in {"close_event", "close"}
        /\ (op'.pc = "close_event" => link'[op.s].fd # link'[op.s].pfd)
    BY Zenon, <1>2, <1>5, <1>7, <1>i
  <2>3. op.call \in Skeleton => i \in Slots
    BY Zenon, <1>2, <1>i, Destroyed1
  <2> QED BY ZenonT(30), <1>3, <1>7, <1>i, <2>1, <2>2, <2>3 DEF DestroyInv
<1>13. fds' \in [Fds -> Files] /\ Goto(op'.pc) /\ op'.pc \in Destroying
  BY Zenon, <1>1, <1>2, <1>6, <1>7 DEF TypeOK, Goto
<1> QED BY ZenonT(30), <1>2, <1>4, <1>11, <1>12, <1>13, DestroyGoesInv

LEMMA PerfCloseEventInv ==
  ASSUME LinksInv, PerfCloseEvent
  PROVE  LinksInv'
<1>1. TypeOK /\ DestroyInv /\ Accounted(Owned, fds) /\ ~stray
  BY Zenon DEF LinksInv
<1>2. InDestroy /\ op.pc = "close_event" /\ Goto("close")
      /\ UNCHANGED <<Kinds, kernel, link, tracefs, ops, pinned, obj, index, left, stuck, extra>>
  BY Zenon DEF PerfCloseEvent, DestroyStep, DestroyGoesOn, InDestroy
<1>i. PICK i : i = op.s
  BY Zenon
<1>3. /\ i \in Holders /\ ~Null(i) /\ Shape(link[i]) /\ link[i].kind = "probe" /\ ~Closing(i)
      /\ link[i].fd # link[i].pfd
  <2>1. i \in Holders /\ ~Null(i) /\ Shape(link[i])
    BY Zenon, <1>2, <1>i, Destroyed1
  <2> QED BY Zenon, <1>1, <1>2, <1>i, <2>1 DEF DestroyInv, Closing
<1>n. PICK n : n = link[i].pfd
  BY Zenon
<1>f. PICK f : f = Event(link[i].id)
  BY Zenon
<1>4. n \in Fds /\ fds[n] = f
  <2>1. link[i].kind # "ops"
    BY Zenon, <1>3
  <2> QED BY Zenon, <1>3, <1>n, <1>f, <2>1, LinkHas
<1>5. stray' = FALSE /\ fds' = [fds EXCEPT ![n] = NoFile]
  BY ZenonT(30), <1>1, <1>4, <1>i, <1>n, <1>f DEF PerfCloseEvent, CloseFd
<1>6. "close" \in Destroying /\ "close" \in Pcs
  BY Zenon DEF Destroying, Pcs
<1>7. /\ op'.call = op.call /\ op'.s = op.s /\ op'.pc = "close"
  BY Zenon, <1>1, <1>2, <1>6, GotoFacts
<1>8. UNCHANGED <<Kinds, link, left, obj>> /\ UNCHANGED <<Kinds, left, obj>>
  BY Zenon, <1>2
<1>9. /\ InDestroy' /\ CallOwns = {} /\ CallOwns' = {}
      /\ \A h \in Holders : h # i => LinkOwns(h)' = LinkOwns(h)
  BY ZenonT(30), <1>2, <1>6, <1>7, <1>8, <1>i, DestroyGoes
<1>10. <<n, f>> \in LinkOwns(i) /\ LinkOwns(i)' = LinkOwns(i) \ {<<n, f>>}
  <2>1. LinkOwns(i) = Descriptors(link[i])
    BY Zenon, <1>3 DEF LinkOwns, Closing
  <2>2. Descriptors(link[i]) = {<<link[i].fd, link[i].file>>, <<n, f>>}
    <3>1. link[i].pfd >= 0
      BY Zenon, <1>4, <1>n, Numbers, FdNumbers DEF Fds
    <3> QED BY Zenon, <1>3, <1>n, <1>f, <3>1 DEF Descriptors
  <2>3. LinkOwns(i)' = {<<link[i].fd, link[i].file>>}
    BY ZenonT(30), <1>2, <1>3, <1>7, <1>9, <1>i DEF LinkOwns, Null
  <2>4. <<link[i].fd, link[i].file>> # <<n, f>>
    BY Zenon, <1>3, <1>n
  <2>5. PICK a, b : a = <<link[i].fd, link[i].file>> /\ b = <<n, f>>
    BY Zenon
  <2>6. a # b /\ LinkOwns(i) = {a, b} /\ LinkOwns(i)' = {a}
    BY Zenon, <2>1, <2>2, <2>3, <2>4, <2>5
  <2>7. b \in LinkOwns(i) /\ LinkOwns(i)' = LinkOwns(i) \ {b}
    <3>1. \A x, y : x # y => {x, y} \ {y} = {x}
      BY Zenon
    <3>2. {a, b} \ {b} = {a} /\ b \in {a, b}
      BY Zenon, <2>6, <3>1
    <3> QED BY Zenon, <2>6, <3>2
  <2> QED BY Zenon, <2>5, <2>7
<1>11. Accounted(Owned, fds)'
  <2>1. CallOwns' = CallOwns
    BY Zenon, <1>9
  <2> QED BY ZenonT(30), <1>1, <1>3, <1>4, <1>5, <1>8, <1>9, <1>10, <2>1, HolderCloses
<1>12. DestroyInv'
  <2>1. link'[op.s].kind = "probe" /\ Holders' = Holders /\ Slots' = Slots /\ ~Null(i)'
    BY ZenonT(30), <1>2, <1>3, <1>i DEF Holders, Slots, Null
  <2>2. op.call \in Skeleton => i \in Slots
    BY Zenon, <1>2, <1>i, Destroyed1
  <2> QED BY Zenon, <1>3, <1>7, <1>i, <2>1, <2>2 DEF DestroyInv
<1>13. fds' \in [Fds -> Files] /\ Goto(op'.pc) /\ op'.pc \in Destroying
  <2>1. NoFile \in Files /\ fds \in [Fds -> Files]
    BY Zenon, <1>1 DEF TypeOK, Files, NoFile
  <2> QED BY Zenon, <1>2, <1>5, <1>6, <1>7, <2>1 DEF Goto
<1> QED BY ZenonT(30), <1>2, <1>5, <1>11, <1>12, <1>13, DestroyGoesInv

\* A link is gone, given up to left or not.
LEMMA GoneFacts ==
  ASSUME LinksInv, ~InAttach, op.call # "open", NEW i \in Holders, ~Null(i),
         InDestroy => op.s = i, op.call \in Skeleton => op.s = i /\ i \in Slots,
         link' = [link EXCEPT ![i] = NullLink], op' = Onward,
         UNCHANGED <<Kinds, obj, index>>, left' = left \/ left' = left \cup {link[i]}
  PROVE  /\ op' \in OpRecord /\ link' \in [Holders -> LinkRecord] /\ left' \subseteq LinkRecord
         /\ Null(i)' /\ \A h \in Holders : h # i => link'[h] = link[h]
         /\ LinksShaped' /\ IdsDiffer' /\ CallInv' /\ AttachInv' /\ DestroyInv'
         /\ ~HasProbe /\ ~HasProbe' /\ CallOwns = {} /\ CallOwns' = {}
         /\ LinkOwns(i)' = {}
         /\ \A h \in Holders : h # i => LinkOwns(h)' = LinkOwns(h)
<1>1. TypeOK /\ LinksShaped /\ IdsDiffer /\ CallInv
  BY Zenon DEF LinksInv
<1>2. op' \in OpRecord /\ (op'.call \in Skeleton => op'.call = op.call)
  <2>1. op'.call = "idle" => op'.call \notin Skeleton
    BY Zenon DEF Skeleton
  <2> QED BY Zenon, <1>1, <2>1, AfterFacts
<1>3. /\ link' \in [Holders -> LinkRecord] /\ left' \subseteq LinkRecord
      /\ link'[i] = NullLink /\ \A h \in Holders : h # i => link'[h] = link[h]
  <2>1. NullLink \in LinkRecord
    BY Zenon DEF NullLink, LinkRecord, Files, NoFile
  <2>2. link \in [Holders -> LinkRecord] /\ left \subseteq LinkRecord
    BY Zenon, <1>1 DEF TypeOK
  <2> QED BY Zenon, <2>1, <2>2
<1>4. Null(i)' /\ \A h \in Holders : h # i => (Null(h)' <=> Null(h))
  BY Zenon, <1>3 DEF Null, NullLink
<1>5. Slots' = Slots /\ Holders' = Holders /\ Handle \in Holders
      /\ \A s \in Slots : s \in Holders
  BY Zenon DEF Slots, Holders
<1>6. /\ CallInv' /\ AttachInv' /\ DestroyInv' /\ ~InAttach' /\ ~HasProbe'
      /\ CallOwns' = {} /\ \A h : ~Closing(h)'
  <2>1. ~obj => \A s \in Slots : Null(s)'
    BY Zenon, <1>1, <1>4, <1>5 DEF CallInv
  <2>2. op.call = "destroy_skeleton" => \A s \in Slots : s <= op.s => Null(s)'
    <3> SUFFICES ASSUME op.call = "destroy_skeleton", NEW s \in Slots, s <= op.s, s # i
                 PROVE  Null(s)'
      BY Zenon, <1>4
    <3>1. op.s = i
      BY Zenon DEF Skeleton
    <3>2. s < op.s
      <4>1. s \in Int /\ op.s \in Int
        BY Zenon, <1>1, Ranges, Numbers DEF TypeOK, OpRecord
      <4> QED BY Zenon, <3>1, <4>1, Numbers
    <3> QED BY Zenon, <1>1, <1>4, <1>5, <3>2 DEF CallInv
  <2>3. op'.call \in Skeleton => op.s \in Slots
    BY Zenon, <1>2
  <2>4. Kinds' = Kinds /\ obj' = obj /\ (op' = Idle \/ op' = Onward)
    BY Zenon
  <2> QED BY ZenonT(30), <1>1, <2>1, <2>2, <2>3, <2>4, CallOver
<1>7. ~HasProbe /\ CallOwns = {}
  BY Zenon DEF HasProbe, CallOwns
<1>8. LinkOwns(i)' = {}
  BY Zenon, <1>4 DEF LinkOwns
<1>9. \A h \in Holders : h # i => LinkOwns(h)' = LinkOwns(h)
  <2>1. \A h : h # i => ~Closing(h)
    BY Zenon DEF Closing
  <2> QED BY Zenon, <1>3, <1>6, <2>1, LinkOwnsSame
<1>10. \A l : Shape(l)' <=> Shape(l)
  BY Zenon, <1>5 DEF Shape, ObjFile, Event, BpfLink
<1>11. LinksShaped'
  <2>1. \A h \in Holders : ~Null(h)' => ~Null(h) /\ link'[h] = link[h]
    BY Zenon, <1>3, <1>4
  <2>3. \A h \in Holders : ~Null(h)' => Shape(link[h])'
    BY Zenon, <1>1, <1>10, <2>1 DEF LinksShaped
  <2>4. \A s \in Slots : ~Null(s)' => /\ link'[s].kind = Kinds[s] /\ link'[s].kind # "opened"
                                      /\ link'[s].kind = "ops" => link'[s].file = ObjFile(s)
    BY Zenon, <1>1, <1>5, <2>1 DEF LinksShaped
  <2>5. link'[Handle].kind \in {"null", "opened"}
    <3>1. CASE i = Handle
      BY Zenon, <1>3, <3>1 DEF NullLink
    <3>2. CASE i # Handle
      BY Zenon, <1>1, <1>3, <1>5, <3>2 DEF LinksShaped
    <3> QED BY Zenon, <3>1, <3>2
  <2>6. \A l \in left' : l.kind # "null" /\ Shape(l)
    <3>1. link[i].kind # "null" /\ Shape(link[i])
      BY Zenon, <1>1 DEF LinksShaped, Null
    <3>2. \A l \in left : l.kind # "null" /\ Shape(l)
      BY Zenon, <1>1 DEF LinksShaped
    <3>3. \A l \in left' : l \in left \/ l = link[i]
      BY Zenon
    <3> QED BY Zenon, <3>1, <3>2, <3>3
  <2>7. \A l \in left' : l.kind # "null" /\ Shape(l)'
    BY Zenon, <1>10, <2>6
  <2> QED BY Zenon, <1>5, <2>3, <2>4, <2>5, <2>7 DEF LinksShaped, ObjFile, Handle
<1>12. IdsDiffer'
  <2>1. \A s \in Slots : ~Null(s)' => ~Null(s) /\ link'[s] = link[s] /\ s # i
    BY Zenon, <1>3, <1>4, <1>5
  <2>2. \A s, t \in Slots : s # t /\ ~Null(s)' /\ ~Null(t)' => link'[s].id # link'[t].id
    <3>1. \A s, t \in Slots : s # t /\ ~Null(s) /\ ~Null(t) => link[s].id # link[t].id
      BY Zenon, <1>1 DEF IdsDiffer
    <3> QED BY ZenonT(60), <2>1, <3>1
  <2>3. \A s \in Slots, l \in left' : ~Null(s)' /\ l.kind # "opened" => link'[s].id # l.id
    <3> SUFFICES ASSUME NEW s \in Slots, NEW l \in left', ~Null(s)', l.kind # "opened"
                 PROVE  link'[s].id # l.id
      BY Zenon
    <3>1. link'[s].id = link[s].id /\ s # i /\ ~Null(s)
      BY Zenon, <2>1
    <3>2. CASE l \in left
      BY Zenon, <1>1, <3>1, <3>2 DEF IdsDiffer
    <3>3. CASE l = link[i]
      <4>1. i \in Slots
        BY Zenon, <1>1, <3>3 DEF LinksShaped, Holders, Null
      <4> QED BY ZenonT(30), <1>1, <3>1, <3>3, <4>1 DEF IdsDiffer
    <3> QED BY Zenon, <3>2, <3>3
  <2> QED BY Zenon, <1>5, <1>6, <2>2, <2>3 DEF IdsDiffer
<1> QED BY ZenonT(30), <1>2, <1>3, <1>4, <1>6, <1>7, <1>8, <1>9, <1>11, <1>12

LEMMA GoneInv ==
  ASSUME LinksInv, ~InAttach, op.call # "open", NEW i \in Holders, ~Null(i),
         InDestroy => op.s = i, op.call \in Skeleton => op.s = i /\ i \in Slots,
         link' = [link EXCEPT ![i] = NullLink], op' = Onward,
         UNCHANGED <<Kinds, kernel, obj, index, pinned>>,
         left' = left \/ left' = left \cup {link[i]},
         fds' \in [Fds -> Files], tracefs' \subseteq Nat, ops' \subseteq Slots, extra' \in Nat,
         stray' = FALSE, Accounted(Owned, fds)', ProbesInv', ValuesInv'
  PROVE  LinksInv'
<1>1. TypeOK
  BY Zenon DEF LinksInv
<1>2. UNCHANGED <<Kinds, obj, index>>
  BY Zenon
<1>3. /\ op' \in OpRecord /\ link' \in [Holders -> LinkRecord] /\ left' \subseteq LinkRecord
      /\ LinksShaped' /\ IdsDiffer' /\ CallInv' /\ AttachInv' /\ DestroyInv'
  BY Zenon, <1>2, GoneFacts
<1>4. Slots' = Slots /\ Holders' = Holders
  BY Zenon DEF Slots, Holders
<1>5. TypeOK'
  BY Zenon, <1>1, <1>3, <1>4 DEF TypeOK
<1> QED BY Zenon, <1>3, <1>5 DEF LinksInv

LEMMA GoneProbes ==
  ASSUME ProbesInv, NEW i \in Holders, Null(i)', \A h \in Holders : h # i => link'[h] = link[h],
         (left' = left /\ ~link[i].legacy) \/ left' = left \cup {link[i]}, ~Null(i),
         UNCHANGED <<Kinds, tracefs, stuck>>, ~HasProbe, ~HasProbe'
  PROVE  ProbesInv'
<1>1. Holders' = Holders
  BY Zenon DEF Holders, Slots
<1>2. \A h \in Holders : ~Null(h)' => ~Null(h) /\ link'[h] = link[h]
  BY Zenon DEF Null
<1>3. \A h \in Holders : ~Null(h) /\ h # i => ~Null(h)' /\ link'[h] = link[h]
  BY Zenon DEF Null
<1>4. \A l \in left' : l \in left \/ l = link[i]
  BY Zenon
<1>5. \A h \in Holders' : ~Null(h)' /\ link'[h].legacy => link'[h].id \in tracefs'
  BY Zenon, <1>1, <1>2 DEF ProbesInv
<1>6. \A l \in left' : l.legacy => l.id \in tracefs'
  BY Zenon, <1>4 DEF ProbesInv
<1>7. \A k \in tracefs' : Probed(k)' \/ <<"probe", k>> \in stuck'
  <2> SUFFICES ASSUME NEW k \in tracefs, Probed(k)
               PROVE  Probed(k)'
    BY Zenon DEF ProbesInv
  <2>1. CASE \E l \in left : l.legacy /\ l.id = k
    BY Zenon, <2>1 DEF Probed
  <2>2. CASE \E h \in Holders : ~Null(h) /\ link[h].legacy /\ link[h].id = k
    <3>1. PICK h \in Holders : ~Null(h) /\ link[h].legacy /\ link[h].id = k
      BY Zenon, <2>2
    <3>2. CASE h # i
      BY Zenon, <1>1, <1>3, <3>1, <3>2 DEF Probed
    <3>3. CASE h = i
      BY Zenon, <3>1, <3>3 DEF Probed
    <3> QED BY Zenon, <3>2, <3>3
  <2> QED BY Zenon, <2>1, <2>2 DEF Probed
<1> QED BY Zenon, <1>5, <1>6, <1>7 DEF ProbesInv

LEMMA GoneValues ==
  ASSUME ValuesInv, LinksShaped, ops \subseteq Slots, NEW i \in Holders, Null(i)',
         \A h \in Holders : h # i => link'[h] = link[h],
         (left' = left /\ link[i].kind # "ops") \/ left' = left \cup {link[i]},
         UNCHANGED <<Kinds, ops>>, stuck \subseteq stuck'
  PROVE  ValuesInv'
<1>1. Slots' = Slots /\ (\A s \in Slots : s \in Holders) /\ link'[i].kind # "ops"
  BY Zenon DEF Slots, Holders, Null
<1>2. \A s \in Slots : link'[s].kind = "ops" => link[s].kind = "ops" /\ s # i
  BY Zenon, <1>1
<1>3. link[i].kind = "ops" => i \in Slots /\ link[i].file = ObjFile(i)
  BY Zenon DEF LinksShaped, Holders, Null
<1>4. \A s, t : ObjFile(s) = ObjFile(t) => s = t
  BY Zenon DEF ObjFile
<1>5. \A l \in left' : l \in left \/ l = link[i]
  BY Zenon
<1>6. \A s \in Slots : link'[s].kind = "ops" => s \in ops'
  BY Zenon, <1>2 DEF ValuesInv
<1>7. \A l \in left', s \in Slots : l.kind = "ops" /\ l.file = ObjFile(s) =>
        s \in ops' /\ link'[s].kind # "ops"
  <2> SUFFICES ASSUME NEW l \in left', NEW s \in Slots, l.kind = "ops", l.file = ObjFile(s)
               PROVE  s \in ops /\ link'[s].kind # "ops"
    BY Zenon
  <2>1. CASE l \in left
    BY Zenon, <1>2, <2>1 DEF ValuesInv
  <2>2. CASE l = link[i]
    <3>1. s = i /\ link[i].kind = "ops"
      BY Zenon, <1>3, <1>4, <2>2
    <3> QED BY Zenon, <1>2, <3>1 DEF ValuesInv
  <2> QED BY Zenon, <1>5, <2>1, <2>2
<1>8. \A s \in ops' : \/ Kinds[s] = "ops_link" \/ link'[s].kind = "ops"
                      \/ <<"ops", s>> \in stuck'
                      \/ \E l \in left' : l.kind = "ops" /\ l.file = ObjFile(s)
  <2> SUFFICES ASSUME NEW s \in ops, Kinds[s] # "ops_link", link'[s].kind # "ops",
                      <<"ops", s>> \notin stuck'
               PROVE  \E l \in left' : l.kind = "ops" /\ l.file = ObjFile(s)
    BY Zenon
  <2>1. link[s].kind = "ops" \/ \E l \in left : l.kind = "ops" /\ l.file = ObjFile(s)
    BY Zenon DEF ValuesInv
  <2>2. CASE \E l \in left : l.kind = "ops" /\ l.file = ObjFile(s)
    BY Zenon, <2>2
  <2>3. CASE link[s].kind = "ops" /\ s = i
    BY Zenon, <1>3, <2>3
  <2>4. CASE link[s].kind = "ops" /\ s \notin Holders
    BY Zenon, <1>1, <2>4
  <2> QED BY Zenon, <2>1, <2>2, <2>3, <2>4
<1> QED BY ZenonT(30), <1>1, <1>6, <1>7, <1>8 DEF ValuesInv, ObjFile

LEMMA CloseLinkInv ==
  ASSUME LinksInv, CloseLink
  PROVE  LinksInv'
<1>1. TypeOK /\ LinksShaped /\ DestroyInv /\ Accounted(Owned, fds) /\ ProbesInv /\ ValuesInv
      /\ ~stray
  BY Zenon DEF LinksInv
<1>2. InDestroy /\ op.pc = "close" /\ ~InAttach /\ op.call # "open"
      /\ UNCHANGED <<Kinds, kernel, tracefs, ops, pinned, obj, index, left, stuck, extra>>
  BY Zenon DEF CloseLink, DestroyStep, InDestroy, InAttach
<1>i. PICK i : i = op.s
  BY Zenon
<1>3. /\ i \in Holders /\ ~Null(i) /\ Shape(link[i]) /\ link[i].kind # "ops"
      /\ (op.call \in Skeleton => i \in Slots)
      /\ link[i].legacy => link[i].kind = "probe"
  <2>1. /\ i \in Holders /\ ~Null(i) /\ Shape(link[i]) /\ (op.call \in Skeleton => i \in Slots)
        /\ link[i].legacy => link[i].kind = "probe"
    BY Zenon, <1>2, <1>i, Destroyed1
  <2> QED BY ZenonT(30), <1>1, <1>2, <1>i, <2>1 DEF DestroyInv
<1>n. PICK n : n = link[i].fd
  BY Zenon
<1>f. PICK f : f = link[i].file
  BY Zenon
<1>4. n \in Fds /\ fds[n] = f
  <2>1. Closing(i)
    BY Zenon, <1>2, <1>i DEF Closing
  <2> QED BY ZenonT(30), <1>2, <1>3, <1>n, <1>f, <2>1, LinkHas
<1>5. stray' = FALSE /\ fds' = [fds EXCEPT ![n] = NoFile]
  BY ZenonT(30), <1>1, <1>4, <1>i, <1>n, <1>f DEF CloseLink, CloseFd
<1>6. LinkOwns(i) = {<<n, f>>}
  BY ZenonT(30), <1>2, <1>3, <1>i, <1>n, <1>f DEF LinkOwns
<1>7. fds' \in [Fds -> Files]
  <2>1. NoFile \in Files /\ fds \in [Fds -> Files]
    BY Zenon, <1>1 DEF TypeOK, Files, NoFile
  <2> QED BY ZenonT(30), <1>5, <2>1
<1>8. ASSUME CallOwns' = CallOwns, LinkOwns(i)' = {},
             \A h \in Holders : h # i => LinkOwns(h)' = LinkOwns(h)
      PROVE  Accounted(Owned, fds)'
  <2>1. <<n, f>> \in LinkOwns(i) /\ LinkOwns(i)' = LinkOwns(i) \ {<<n, f>>}
    BY Zenon, <1>6, <1>8
  <2>2. UNCHANGED <<Kinds, left, obj>>
    BY Zenon, <1>2
  <2> QED BY ZenonT(30), <1>1, <1>3, <1>4, <1>5, <1>8, <2>1, <2>2, HolderCloses
<1>9. CASE link[i].legacy /\ Goto("remove") /\ UNCHANGED link
  <2>1. "remove" \in Destroying /\ "remove" \in Pcs
    BY ZenonT(30) DEF Destroying, Pcs
  <2>2. /\ op'.call = op.call /\ op'.s = op.s /\ op'.pc = "remove"
    BY Zenon, <1>1, <1>9, <2>1, GotoFacts
  <2>3. UNCHANGED <<Kinds, link, left, obj>>
    BY Zenon, <1>2, <1>9
  <2>4. /\ InDestroy' /\ CallOwns = {} /\ CallOwns' = {}
        /\ \A h \in Holders : h # i => LinkOwns(h)' = LinkOwns(h)
    BY ZenonT(30), <1>2, <1>i, <2>1, <2>2, <2>3, DestroyGoes
  <2>5. LinkOwns(i)' = {}
    BY ZenonT(30), <1>i, <2>2, <2>4 DEF LinkOwns
  <2>6. Accounted(Owned, fds)'
    BY Zenon, <1>8, <2>4, <2>5
  <2>7. DestroyInv'
    <3>1. link'[i].kind = "probe" /\ link'[i].legacy /\ Holders' = Holders /\ Slots' = Slots
          /\ ~Null(i)'
      BY ZenonT(30), <1>2, <1>3, <1>9 DEF Holders, Slots, Null
    <3> QED BY ZenonT(30), <1>3, <1>i, <2>2, <3>1 DEF DestroyInv
  <2>8. Goto(op'.pc) /\ op'.pc \in Destroying
    BY ZenonT(30), <1>9, <2>1, <2>2 DEF Goto
  <2> QED BY ZenonT(30), <1>2, <1>5, <1>7, <1>9, <2>6, <2>7, <2>8, DestroyGoesInv
<1>10. CASE ~link[i].legacy /\ link' = [link EXCEPT ![i] = NullLink] /\ op' = Onward
  <2>1. /\ InDestroy => op.s = i
        /\ op.call \in Skeleton => op.s = i /\ i \in Slots
        /\ UNCHANGED <<Kinds, obj, index>> /\ left' = left
        /\ UNCHANGED <<Kinds, kernel, obj, index, pinned>>
        /\ UNCHANGED <<Kinds, tracefs, stuck>> /\ UNCHANGED <<Kinds, ops>>
    BY Zenon, <1>2, <1>3, <1>i
  <2>2. /\ Null(i)' /\ (\A h \in Holders : h # i => link'[h] = link[h])
        /\ ~HasProbe /\ ~HasProbe' /\ CallOwns = {} /\ CallOwns' = {} /\ LinkOwns(i)' = {}
        /\ \A h \in Holders : h # i => LinkOwns(h)' = LinkOwns(h)
    BY ZenonT(30), <1>2, <1>3, <1>10, <2>1, GoneFacts
  <2>3. Accounted(Owned, fds)'
    BY ZenonT(30), <1>8, <2>2
  <2>4. ProbesInv'
    BY ZenonT(30), <1>1, <1>3, <1>10, <2>1, <2>2, GoneProbes
  <2>5. tracefs' \subseteq Nat /\ ops' \subseteq Slots /\ extra' \in Nat /\ ops \subseteq Slots
        /\ stuck \subseteq stuck'
    BY ZenonT(30), <1>1, <1>2 DEF TypeOK
  <2>6. ValuesInv'
    BY ZenonT(30), <1>1, <1>3, <2>1, <2>2, <2>5, GoneValues
  <2> QED BY ZenonT(30), <1>2, <1>3, <1>5, <1>7, <1>10, <2>1, <2>3, <2>4, <2>5, <2>6, GoneInv
<1> QED BY ZenonT(30), <1>9, <1>10, <1>i DEF CloseLink, DestroyGoesOn, Destroyed, Onward

LEMMA PerfRemoveProbeInv ==
  ASSUME LinksInv, PerfRemoveProbe
  PROVE  LinksInv'
<1>1. TypeOK /\ LinksShaped /\ DestroyInv /\ IdsDiffer /\ Accounted(Owned, fds) /\ ProbesInv
      /\ ValuesInv /\ ~stray
  BY Zenon DEF LinksInv
<1>2. InDestroy /\ op.pc = "remove" /\ ~InAttach /\ op.call # "open"
      /\ UNCHANGED <<Kinds, kernel, fds, ops, pinned, obj, index, left, stray>>
  BY Zenon DEF PerfRemoveProbe, DestroyStep, InDestroy, InAttach
<1>i. PICK i : i = op.s
  BY Zenon
<1>k. PICK k : k = link[i].id
  BY Zenon
<1>3. /\ i \in Holders /\ ~Null(i) /\ i \in Slots /\ k \in Nat
      /\ link[i].kind # "ops" /\ link[i].kind # "opened"
  <2>1. /\ i \in Holders /\ ~Null(i) /\ link[i] \in LinkRecord
        /\ link[i].legacy => link[i].kind = "probe" /\ i \in Slots
    BY Zenon, <1>2, <1>i, Destroyed1
  <2>2. link[i].legacy
    BY Zenon, <1>1, <1>2, <1>i DEF DestroyInv
  <2>3. link[i].id \in Nat
    BY Zenon, <2>1 DEF LinkRecord
  <2> QED BY Zenon, <1>k, <2>1, <2>2, <2>3
<1>4. RemoveProbe(k) /\ link' = [link EXCEPT ![i] = NullLink] /\ op' = Onward
  BY Zenon, <1>i, <1>k DEF PerfRemoveProbe, Destroyed, Onward
<1>5. LinkOwns(i) = {}
  BY Zenon, <1>2, <1>3, <1>i DEF LinkOwns
<1>6. \A s \in Slots : s # i /\ ~Null(s) => link[s].id # k
  BY Zenon, <1>1, <1>3, <1>k DEF IdsDiffer
<1>7. \A l \in left : l.kind # "opened" => l.id # k
  BY Zenon, <1>1, <1>3, <1>k DEF IdsDiffer
<1>8. \A n \in Fds : fds[n] # Event(k)
  <2> SUFFICES ASSUME NEW n \in Fds, fds[n] = Event(k)
               PROVE  FALSE
    BY Zenon
  <2>1. \/ \E s \in Slots : ~Null(s) /\ link[s].id = k /\ <<n, Event(k)>> \in LinkOwns(s)
        \/ \E l \in left : l.kind # "opened" /\ l.id = k
    BY Zenon, <1>2, EventOwner
  <2>2. \A s \in Slots : ~(~Null(s) /\ link[s].id = k /\ <<n, Event(k)>> \in LinkOwns(s))
    BY Zenon, <1>5, <1>6
  <2> QED BY Zenon, <1>7, <2>1, <2>2
<1>9. /\ extra' \in Nat /\ tracefs' \subseteq Nat
      /\ \/ tracefs' = tracefs \ {k} /\ stuck' = stuck
         \/ tracefs' = tracefs /\ stuck' = stuck \cup {<<"probe", k>>}
  BY Zenon, <1>1, <1>3, <1>4, <1>8, RemoveProbeFacts
<1>10. /\ InDestroy => op.s = i
       /\ op.call \in Skeleton => op.s = i /\ i \in Slots
       /\ UNCHANGED <<Kinds, obj, index>> /\ left' = left
       /\ UNCHANGED <<Kinds, kernel, obj, index, pinned>> /\ UNCHANGED <<Kinds, left>>
       /\ UNCHANGED <<Kinds, ops>> /\ UNCHANGED <<Kinds, fds, obj, left>>
  BY Zenon, <1>2, <1>3, <1>i
<1>11. /\ Null(i)' /\ (\A h \in Holders : h # i => link'[h] = link[h])
       /\ ~HasProbe /\ ~HasProbe' /\ CallOwns = {} /\ CallOwns' = {} /\ LinkOwns(i)' = {}
       /\ \A h \in Holders : h # i => LinkOwns(h)' = LinkOwns(h)
  BY ZenonT(30), <1>2, <1>3, <1>4, <1>10, GoneFacts
<1>12. Accounted(Owned, fds)'
  <2>1. CallOwns' = CallOwns /\ \A h \in Holders : LinkOwns(h)' = LinkOwns(h)
    BY Zenon, <1>5, <1>11
  <2> QED BY Zenon, <1>1, <1>10, <2>1, OwnersSame
<1>13. ProbesInv'
  <2>1. \A h \in Holders : ~Null(h)' => ~Null(h) /\ link'[h] = link[h]
                             /\ (link[h].legacy => link[h].id # k)
    <3> SUFFICES ASSUME NEW h \in Holders, ~Null(h)'
                 PROVE  ~Null(h) /\ link'[h] = link[h] /\ (link[h].legacy => link[h].id # k)
      BY Zenon
    <3>1. h # i /\ link'[h] = link[h]
      BY Zenon, <1>11
    <3>2. ~Null(h)
      BY Zenon, <3>1 DEF Null
    <3>3. link[h].legacy => h \in Slots
      BY Zenon, <1>1, <3>2 DEF LinksShaped, Shape, Holders
    <3> QED BY Zenon, <1>6, <3>1, <3>2, <3>3
  <2>2. \A h \in Holders : ~Null(h) /\ Null(h)' => (link[h].legacy => link[h].id = k)
    BY Zenon, <1>11, <1>k DEF Null
  <2>3. \A l \in left : l.legacy => l.id # k
    <3>1. \A l \in left : l.legacy => l.kind # "opened"
      BY Zenon, <1>1 DEF LinksShaped, Shape
    <3> QED BY Zenon, <1>7, <3>1
  <2> QED BY ZenonT(30), <1>1, <1>9, <1>10, <1>11, <2>1, <2>2, <2>3, RemovedProbes
<1>14. fds' \in [Fds -> Files] /\ ops' \subseteq Slots /\ stray' = FALSE /\ ops \subseteq Slots
       /\ stuck \subseteq stuck'
  BY ZenonT(30), <1>1, <1>2, <1>9 DEF TypeOK
<1>15. ValuesInv'
  BY ZenonT(30), <1>1, <1>3, <1>10, <1>11, <1>14, GoneValues
<1> QED BY ZenonT(30), <1>2, <1>3, <1>4, <1>9, <1>10, <1>12, <1>13, <1>14, <1>15, GoneInv

LEMMA StructOpsDeleteInv ==
  ASSUME LinksInv, StructOpsDelete
  PROVE  LinksInv'
<1>1. TypeOK /\ LinksShaped /\ CallInv /\ DestroyInv /\ Accounted(Owned, fds) /\ ProbesInv
      /\ ValuesInv /\ ~stray
  BY Zenon DEF LinksInv
<1>2. InDestroy /\ op.pc = "delete" /\ ~InAttach /\ op.call # "open"
      /\ UNCHANGED <<Kinds, kernel, fds, tracefs, pinned, obj, index, left>>
  BY Zenon DEF StructOpsDelete, DestroyStep, InDestroy, InAttach
<1>i. PICK i : i = op.s
  BY Zenon
<1>3. /\ i \in Holders /\ ~Null(i) /\ link[i].kind = "ops" /\ i \in Slots /\ ~link[i].legacy
      /\ link[i].file = ObjFile(i) /\ link[i].fd = i - 1
  <2>1. i \in Holders /\ ~Null(i) /\ Shape(link[i])
    BY Zenon, <1>2, <1>i, Destroyed1
  <2>2. link[i].kind = "ops"
    BY Zenon, <1>1, <1>2, <1>i DEF DestroyInv
  <2>3. i \in Slots /\ link[i].file = ObjFile(i)
    BY Zenon, <1>1, <2>1, <2>2 DEF LinksShaped, Holders
  <2>4. ~link[i].legacy /\ \E s \in Slots : link[i].fd = s - 1 /\ link[i].file = ObjFile(s)
    BY Zenon, <2>1, <2>2 DEF Shape
  <2>5. PICK s \in Slots : link[i].fd = s - 1 /\ link[i].file = ObjFile(s)
    BY Zenon, <2>4
  <2>6. s = i
    BY Zenon, <2>3, <2>5, FilesDiffer
  <2> QED BY Zenon, <2>1, <2>2, <2>3, <2>4, <2>5, <2>6
<1>4. link' = [link EXCEPT ![i] = NullLink] /\ op' = Onward
  BY Zenon, <1>i DEF StructOpsDelete, Destroyed, Onward
<1>5. stray' = FALSE
  <2>1. obj
    BY Zenon, <1>1, <1>3 DEF CallInv
  <2>2. <<i - 1, ObjFile(i)>> \in Owned[TheObject] /\ TheObject \in Owners
    BY Zenon, <1>1, <1>3, <2>1, OwnedValues
  <2>3. fds[i - 1] = ObjFile(i)
    BY Zenon, <1>1, <2>2, Holds
  <2> QED BY Zenon, <1>1, <1>3, <1>i, <2>3 DEF StructOpsDelete, Use
<1>6. LinkOwns(i) = {}
  BY Zenon, <1>3 DEF LinkOwns
<1>7. /\ InDestroy => op.s = i
      /\ op.call \in Skeleton => op.s = i /\ i \in Slots
      /\ UNCHANGED <<Kinds, obj, index>> /\ left' = left
      /\ UNCHANGED <<Kinds, kernel, obj, index, pinned>> /\ UNCHANGED <<Kinds, left>>
      /\ UNCHANGED <<Kinds, fds, obj, left>>
  BY Zenon, <1>2, <1>3, <1>i
<1>8. /\ Null(i)' /\ (\A h \in Holders : h # i => link'[h] = link[h])
      /\ ~HasProbe /\ ~HasProbe' /\ CallOwns = {} /\ CallOwns' = {} /\ LinkOwns(i)' = {}
      /\ \A h \in Holders : h # i => LinkOwns(h)' = LinkOwns(h)
  BY ZenonT(30), <1>2, <1>3, <1>4, <1>7, GoneFacts
<1>9. Accounted(Owned, fds)'
  <2>1. CallOwns' = CallOwns /\ \A h \in Holders : LinkOwns(h)' = LinkOwns(h)
    BY ZenonT(30), <1>6, <1>8
  <2> QED BY ZenonT(30), <1>1, <1>7, <2>1, OwnersSame
<1>10. \/ ops' = ops \ {i} /\ stuck' = stuck
       \/ ops' = ops /\ stuck' = stuck \cup {<<"ops", i>>}
  BY ZenonT(30), <1>i DEF StructOpsDelete
<1>11. fds' \in [Fds -> Files] /\ tracefs' \subseteq Nat /\ ops' \subseteq Slots /\ extra' \in Nat
  <2>1. fds' = fds /\ tracefs' = tracefs /\ (extra' = extra \/ extra' = extra + 1)
    BY Zenon DEF StructOpsDelete, Extra
  <2>2. /\ fds \in [Fds -> Files] /\ tracefs \subseteq Nat /\ ops \subseteq Slots
        /\ extra \in Nat
    BY Zenon, <1>1 DEF TypeOK
  <2> QED BY Zenon, <1>10, <2>1, <2>2, Numbers
<1>12. ProbesInv'
  <2>1. tracefs' = tracefs /\ \A k : <<"probe", k>> \in stuck' <=> <<"probe", k>> \in stuck
    BY Zenon, <1>2, <1>10
  <2>2. Holders' = Holders
    BY Zenon, <1>2 DEF Holders, Slots
  <2>3. \A h \in Holders : ~Null(h)' => ~Null(h) /\ link'[h] = link[h]
    BY Zenon, <1>8 DEF Null
  <2>4. \A h \in Holders : ~Null(h) /\ link[h].legacy => ~Null(h)' /\ link'[h] = link[h]
    BY Zenon, <1>3, <1>8 DEF Null
  <2>5. \A k : Probed(k) => Probed(k)'
    BY Zenon, <1>7, <1>8, <2>2, <2>4 DEF Probed
  <2> QED BY ZenonT(30), <1>1, <1>7, <1>8, <2>1, <2>2, <2>3, <2>5 DEF ProbesInv
<1>13. ValuesInv'
  <2>1. Slots' = Slots /\ (\A s \in Slots : s \in Holders) /\ link'[i].kind # "ops"
    BY Zenon, <1>2, <1>8 DEF Slots, Holders, Null
  <2>2. \A s \in Slots : s # i => link'[s].kind = link[s].kind
    BY Zenon, <1>8, <2>1
  <2>3. \A s \in Slots : link'[s].kind = "ops" => s \in ops'
    BY Zenon, <1>1, <1>10, <2>1, <2>2 DEF ValuesInv
  <2>4. \A l \in left, s \in Slots : l.kind = "ops" /\ l.file = ObjFile(s) =>
          s \in ops' /\ link'[s].kind # "ops"
    BY ZenonT(30), <1>1, <1>3, <1>10, <2>2 DEF ValuesInv
  <2>5. \A s \in ops' : \/ Kinds[s] = "ops_link" \/ link'[s].kind = "ops"
                        \/ <<"ops", s>> \in stuck'
                        \/ \E l \in left : l.kind = "ops" /\ l.file = ObjFile(s)
    <3>1. ops \subseteq Slots
      BY Zenon, <1>1 DEF TypeOK
    <3> QED BY ZenonT(30), <1>1, <1>10, <2>2, <3>1 DEF ValuesInv
  <2> QED BY ZenonT(30), <1>2, <2>1, <2>3, <2>4, <2>5 DEF ValuesInv, ObjFile
<1> QED BY ZenonT(30), <1>2, <1>3, <1>4, <1>5, <1>7, <1>9, <1>11, <1>12, <1>13, GoneInv

\* bpf_link__destroy() begins, or is over at once for a link that was disconnected.
LEMMA DestroyLinkInv ==
  ASSUME LinksInv, NEW h \in Holders, ~Null(h), NEW call, DestroyLink(h, call),
         \/ op.call = "idle" /\ call = "destroy"
         \/ /\ call \in {"detach_skeleton", "destroy_skeleton"} /\ op.call = call
            /\ op.pc = "next" /\ op.s = h /\ h \in Slots,
         UNCHANGED <<Kinds, kernel, fds, tracefs, ops, pinned, obj, index, stuck, stray, extra>>
  PROVE  LinksInv'
<1>1. TypeOK /\ LinksShaped /\ CallInv /\ Accounted(Owned, fds) /\ ProbesInv /\ ValuesInv
      /\ ~stray
  BY Zenon DEF LinksInv
<1>2. ~InAttach /\ ~InDestroy /\ op.call # "open" /\ (op.call \in Skeleton => op.s = h /\ h \in Slots)
  BY Zenon DEF InAttach, InDestroy, Skeleton
<1>3. ~HasProbe /\ CallOwns = {} /\ \A g : ~Closing(g)
  BY Zenon, <1>2 DEF HasProbe, CallOwns, Closing
<1>4. Shape(link[h]) /\ link[h].kind \in {"probe", "link", "ops", "ops_link", "opened"}
      /\ link[h] \in LinkRecord
  BY Zenon, <1>1 DEF TypeOK, LinksShaped, LinkRecord, Null
<1>5. CASE /\ left' = left \cup {link[h]} /\ link' = [link EXCEPT ![h] = NullLink]
           /\ op' = Onward
  <2>1. /\ InDestroy => op.s = h
        /\ UNCHANGED <<Kinds, obj, index>> /\ UNCHANGED <<Kinds, kernel, obj, index, pinned>>
        /\ UNCHANGED <<Kinds, tracefs, stuck>> /\ UNCHANGED <<Kinds, ops>>
        /\ Kinds' = Kinds /\ fds' = fds
    BY Zenon, <1>2
  <2>2. /\ Null(h)' /\ (\A g \in Holders : g # h => link'[g] = link[g])
        /\ ~HasProbe /\ ~HasProbe' /\ CallOwns = {} /\ CallOwns' = {} /\ LinkOwns(h)' = {}
        /\ \A g \in Holders : g # h => LinkOwns(g)' = LinkOwns(g)
    BY ZenonT(30), <1>2, <1>5, <2>1, GoneFacts
  <2>3. ProbesInv'
    BY ZenonT(30), <1>1, <1>5, <2>1, <2>2, GoneProbes
  <2>4. /\ fds' \in [Fds -> Files] /\ tracefs' \subseteq Nat /\ ops' \subseteq Slots
        /\ extra' \in Nat /\ ops \subseteq Slots /\ stuck \subseteq stuck' /\ stray' = FALSE
    BY ZenonT(30), <1>1 DEF TypeOK
  <2>5. ValuesInv'
    BY ZenonT(30), <1>1, <1>5, <2>1, <2>2, <2>4, GoneValues
  <2>6. LinkOwns(h) = Descriptors(link[h])
    BY ZenonT(30), <1>3 DEF LinkOwns, Descriptors, Closing
  <2>7. /\ h \in Owners /\ GivenUp \in Owners /\ GivenUp # h
        /\ Owned[h] = LinkOwns(h) /\ Owned'[h] = {}
        /\ Owned[GivenUp] = UNION {Descriptors(l) : l \in left}
        /\ Owned'[GivenUp] = UNION {Descriptors(l) : l \in left'}
    <3>1. /\ h \in Owners /\ GivenUp \in Owners /\ GivenUp # h /\ Owned[h] = LinkOwns(h)
          /\ Owned[GivenUp] = UNION {Descriptors(l) : l \in left}
      BY Zenon, <1>1, OwnedValues
    <3>2. Owned'[h] = LinkOwns(h)' /\ Owned'[GivenUp] = UNION {Descriptors(l) : l \in left'}
      BY Zenon, <1>1, <2>1, OwnedNext
    <3> QED BY Zenon, <2>2, <3>1, <3>2
  <2>8. Owned'[GivenUp] = Owned[GivenUp] \cup Owned[h]
    <3> DEFINE D(l) == Descriptors(l)
    <3> HIDE DEF D
    <3>1. UNION {D(l) : l \in left'} = (UNION {D(l) : l \in left}) \cup D(link[h])
      BY Zenon, <1>5
    <3> QED BY Zenon, <2>6, <2>7, <3>1 DEF D
  <2>9. \A v \in Owners : v # h /\ v # GivenUp => Owned'[v] = Owned[v]
    <3> SUFFICES ASSUME NEW v \in Owners, v # h, v # GivenUp
                 PROVE  Owned'[v] = Owned[v]
      BY Zenon
    <3>1. v \in Holders \/ v = TheObject \/ v = TheCall
      BY Zenon, <1>1, OwnedValues
    <3>2. CASE v \in Holders
      BY ZenonT(30), <1>1, <2>1, <2>2, <3>2, OwnedValues, OwnedNext
    <3>3. CASE v = TheObject
      <4>1. Owned[v] = IF obj THEN {<<s - 1, ObjFile(s)>> : s \in Slots} ELSE {}
        BY ZenonT(30), <1>1, <3>3, OwnedValues
      <4>2. Owned'[v] = IF obj' THEN {<<s - 1, ObjFile(s)>> : s \in Slots} ELSE {}
        BY ZenonT(30), <1>1, <2>1, <3>3, OwnedNext
      <4>3. obj' <=> obj
        BY <2>1
      <4>4. CASE obj
        BY ZenonT(30), <4>1, <4>2, <4>3, <4>4
      <4>5. CASE ~obj
        BY ZenonT(30), <4>1, <4>2, <4>3, <4>5
      <4> QED BY Zenon, <4>4, <4>5
    <3>4. CASE v = TheCall
      BY ZenonT(30), <1>1, <2>1, <2>2, <3>4, OwnedValues, OwnedNext
    <3> QED BY ZenonT(30), <3>1, <3>2, <3>3, <3>4
  <2>10. Accounted(Owned, fds)'
    BY ZenonT(30), <1>1, <2>1, <2>7, <2>8, <2>9, OwnersMove
  <2> QED BY ZenonT(30), <1>2, <1>5, <2>1, <2>3, <2>4, <2>5, <2>10, GoneInv
<1>6. CASE /\ op' = At(call, h, IF link[h].kind = "probe" THEN "disable"
                                ELSE IF link[h].kind = "ops" THEN "delete" ELSE "close")
           /\ UNCHANGED <<link, left>>
  <2>p. PICK p : p = IF link[h].kind = "probe" THEN "disable"
                     ELSE IF link[h].kind = "ops" THEN "delete" ELSE "close"
    BY Zenon
  <2>1. call \in Calls /\ p \in Pcs /\ h \in Nat /\ p \in {"disable", "delete", "close"}
    <3>1. h \in Nat
      BY Zenon, <1>1, Ranges, SlotNumbers
    <3> QED BY Zenon, <2>p, <3>1 DEF Calls, Skeleton, Pcs, Destroying
  <2>2. op' \in OpRecord /\ op'.call = call /\ op'.s = h /\ op'.pc = p
    <3>1. op' = At(call, h, p)
      BY Zenon, <1>6, <2>p
    <3> QED BY ZenonT(30), <2>1, <3>1, CallRecord
  <2>3. InDestroy' /\ ~InAttach' /\ ~HasProbe' /\ CallOwns' = {} /\ AttachInv'
    BY ZenonT(30), <2>1, <2>2 DEF InDestroy, InAttach, HasProbe, CallOwns, AttachInv
  <2>4. Slots' = Slots /\ Holders' = Holders /\ \A g : Null(g)' <=> Null(g)
    BY Zenon, <1>6 DEF Slots, Holders, Null
  <2>5. CallInv'
    BY ZenonT(30), <1>1, <1>6, <2>1, <2>2, <2>4 DEF CallInv, Skeleton, Destroying
  <2>6. DestroyInv'
    <3>1. call \in Skeleton => h \in Slots
      BY ZenonT(30) DEF Skeleton
    <3>2. link'[h] = link[h]
      BY Zenon, <1>6
    <3> QED BY ZenonT(30), <1>4, <2>2, <2>4, <2>p, <3>1, <3>2 DEF DestroyInv
  <2>7. \A g \in Holders : LinkOwns(g)' = LinkOwns(g)
    <3> SUFFICES ASSUME NEW g \in Holders
                 PROVE  LinkOwns(g)' = LinkOwns(g)
      BY Zenon
    <3>1. CASE p # "close" \/ g # h
      <4>1. ~Closing(g)'
        BY Zenon, <2>1, <2>2, <3>1 DEF Closing
      <4> QED BY Zenon, <1>3, <1>6, <4>1, LinkOwnsSame
    <3>2. CASE p = "close" /\ g = h
      <4>1. LinkOwns(h)' = {<<link[h].fd, link[h].file>>}
        BY ZenonT(30), <1>6, <2>2, <2>3, <2>4, <2>p, <3>2 DEF LinkOwns
      <4>2. LinkOwns(h) = Descriptors(link[h])
        BY ZenonT(30), <1>3, <2>p, <3>2 DEF LinkOwns, Closing
      <4>3. Descriptors(link[h]) = {<<link[h].fd, link[h].file>>}
        BY ZenonT(30), <1>4, <2>p, <3>2, Numbers, FdNumbers DEF Descriptors, Shape
      <4> QED BY ZenonT(30), <3>2, <4>1, <4>2, <4>3
    <3> QED BY Zenon, <3>1, <3>2
  <2>8. /\ index' \in Nat /\ index' >= index /\ extra' \in Nat /\ stray' = FALSE
        /\ HasProbe' <=> HasProbe
    BY ZenonT(30), <1>1, <1>3, <2>3, Numbers, FdNumbers DEF TypeOK
  <2>9. UNCHANGED <<Kinds, kernel, fds, link, tracefs, ops, pinned, obj, left, stuck>>
        /\ CallOwns' = CallOwns
    BY Zenon, <1>3, <1>6, <2>3
  <2> QED BY ZenonT(30), <1>3, <2>2, <2>3, <2>5, <2>6, <2>7, <2>8, <2>9, OpStep
<1> QED BY ZenonT(30), <1>5, <1>6 DEF DestroyLink, Onward

LEMMA DestroyInvStep ==
  ASSUME LinksInv, NEW h \in Holders, Destroy(h)
  PROVE  LinksInv'
<1>1. /\ op.call = "idle" /\ ~Null(h) /\ DestroyLink(h, "destroy")
      /\ UNCHANGED <<Kinds, kernel, fds, tracefs, ops, pinned, obj, index, stuck, stray, extra>>
  BY Zenon DEF Destroy
<1> QED BY Zenon, <1>1, DestroyLinkInv

LEMMA DetachNextInv ==
  ASSUME LinksInv, DetachNext
  PROVE  LinksInv'
<1>1. TypeOK /\ CallInv /\ Accounted(Owned, fds) /\ ~stray
  BY Zenon DEF LinksInv
<1>2. op.pc = "next" /\ op.call \in {"detach_skeleton", "destroy_skeleton"}
      /\ UNCHANGED <<Kinds, kernel, fds, tracefs, ops, pinned, obj, index, stuck, stray, extra>>
  BY Zenon, <1>1 DEF DetachNext, DestroyStep, CallInv, Destroying
<1>3. ~InAttach /\ ~InDestroy /\ op.call # "open" /\ op.call # "idle" /\ op.call \in Skeleton
  BY Zenon, <1>2 DEF InAttach, InDestroy, Skeleton
<1>i. PICK i : i = op.s
  BY Zenon
<1>4. i \in 1 .. (Len(Kinds) + 1) /\ Len(Kinds) \in Nat /\ Slots = 1 .. Len(Kinds)
      /\ (i \in Slots => i \in Holders)
  <2>1. i \in 1 .. (Len(Kinds) + 1)
    BY Zenon, <1>1, <1>3, <1>i DEF CallInv
  <2> QED BY Zenon, <1>1, <2>1, Ranges DEF Holders
<1>5. ~(i > Len(Kinds)) => i \in Slots
  BY Zenon, <1>4, SlotNumbers
<1>6. op.call = "destroy_skeleton" => \A s \in Slots : s < op.s => Null(s)
  BY Zenon, <1>1 DEF CallInv
<1>7. CASE i > Len(Kinds) /\ op.call = "destroy_skeleton" /\ Goto("object")
           /\ UNCHANGED <<link, left>>
  <2>1. "object" \in Pcs
    BY Zenon DEF Pcs
  <2>2. op' \in OpRecord /\ op'.call = op.call /\ op'.s = op.s /\ op'.pc = "object"
    BY Zenon, <1>1, <1>7, <2>1, GotoFacts
  <2>3. ~InAttach' /\ ~InDestroy' /\ ~HasProbe' /\ ~HasProbe
    BY Zenon, <1>3, <1>7, <2>2 DEF InAttach, InDestroy, HasProbe
  <2>4. /\ CallOwns' = {} /\ CallOwns = {} /\ AttachInv' /\ DestroyInv'
        /\ \A h : ~Closing(h) /\ ~Closing(h)'
    BY ZenonT(30), <1>3, <1>7, <2>2, <2>3 DEF CallOwns, AttachInv, DestroyInv, Closing
  <2>5. Slots' = Slots /\ \A h : Null(h)' <=> Null(h)
    BY ZenonT(30), <1>2, <1>7 DEF Slots, Null
  <2>6. \A s \in Slots : Null(s)
    <3>1. \A s \in Slots : s < i
      BY Zenon, <1>4, <1>7, SlotNumbers
    <3> QED BY Zenon, <1>6, <1>7, <1>i, <3>1
  <2>7. CallInv'
    BY ZenonT(30), <1>1, <1>2, <1>7, <2>2, <2>5, <2>6 DEF CallInv, Skeleton
  <2>8. \A h \in Holders : LinkOwns(h)' = LinkOwns(h)
    BY ZenonT(30), <1>7, <2>4, LinkOwnsSame
  <2>9. /\ index' \in Nat /\ index' >= index /\ extra' \in Nat /\ stray' = FALSE
        /\ HasProbe' <=> HasProbe
    BY ZenonT(30), <1>1, <1>2, <2>3, Numbers, FdNumbers DEF TypeOK
  <2>10. UNCHANGED <<Kinds, kernel, fds, link, tracefs, ops, pinned, obj, left, stuck>>
         /\ CallOwns' = CallOwns
    BY Zenon, <1>2, <1>7, <2>4
  <2> QED BY ZenonT(30), <2>2, <2>3, <2>4, <2>7, <2>8, <2>9, <2>10, OpStep
<1>8. CASE i > Len(Kinds) /\ op.call # "destroy_skeleton" /\ op' = Idle /\ UNCHANGED <<link, left>>
  <2>1. op'.call \notin Skeleton
    BY ZenonT(30), <1>8, IdleFacts DEF Skeleton
  <2>2. UNCHANGED <<Kinds, kernel, fds, link, tracefs, ops, pinned, obj, left, stuck, stray,
                    extra, index>>
    BY Zenon, <1>2, <1>8
  <2> QED BY Zenon, <1>3, <1>8, <2>1, <2>2, OnwardInv
<1>9. CASE ~(i > Len(Kinds)) /\ Null(i) /\ op' = Onward /\ UNCHANGED <<link, left>>
  <2>1. op.s \in Slots
    BY Zenon, <1>5, <1>9, <1>i
  <2>2. op.call = "destroy_skeleton" => \A s \in Slots : s <= op.s => Null(s)
    <3>1. \A s \in Slots : s <= i => s < i \/ s = i
      BY Zenon, <1>4, SlotNumbers
    <3> QED BY Zenon, <1>6, <1>9, <1>i, <3>1
  <2>3. UNCHANGED <<Kinds, kernel, fds, link, tracefs, ops, pinned, obj, left, stuck, stray,
                    extra, index>>
    BY Zenon, <1>2, <1>9
  <2> QED BY Zenon, <1>3, <1>9, <2>1, <2>2, <2>3, OnwardInv
<1>10. CASE ~(i > Len(Kinds)) /\ ~Null(i) /\ DestroyLink(i, op.call)
  <2>1. i \in Slots /\ i \in Holders
    BY Zenon, <1>4, <1>5, <1>10
  <2>2. PICK call : call = op.call
    BY Zenon
  <2>3. /\ DestroyLink(i, call) /\ call \in {"detach_skeleton", "destroy_skeleton"}
        /\ op.call = call /\ op.pc = "next" /\ op.s = i
    BY ZenonT(30), <1>2, <1>10, <1>i, <2>2
  <2> QED BY ZenonT(30), <1>2, <1>10, <2>1, <2>3, DestroyLinkInv
<1> QED BY ZenonT(30), <1>7, <1>8, <1>9, <1>10, <1>i DEF DetachNext, Onward

------------------------------------------------------------------------------
(* The object is closed *)

\* Owner w closes all it has.
ClosesAll(w, owned, table, owned1, table1) ==
  /\ table \in [Fds -> Files] /\ table1 \in [Fds -> Files]
  /\ DOMAIN owned1 = DOMAIN owned /\ w \in DOMAIN owned
  /\ \A n \in Fds : <<n, table[n]>> \in owned[w] => table1[n] = NoFile
  /\ \A n \in Fds : <<n, table[n]>> \notin owned[w] => table1[n] = table[n]
  /\ owned1[w] = {} /\ \A v \in DOMAIN owned : v # w => owned1[v] = owned[v]

LEMMA AccountCloseAll ==
  ASSUME NEW w, NEW owned, NEW table, NEW owned1, NEW table1,
         Accounted(owned, table), ClosesAll(w, owned, table, owned1, table1)
  PROVE  Accounted(owned1, table1)
<1>h. /\ table \in [Fds -> Files] /\ table1 \in [Fds -> Files]
      /\ DOMAIN owned1 = DOMAIN owned /\ w \in DOMAIN owned
      /\ \A n \in Fds : <<n, table[n]>> \in owned[w] => table1[n] = NoFile
      /\ \A n \in Fds : <<n, table[n]>> \notin owned[w] => table1[n] = table[n]
      /\ owned1[w] = {} /\ \A v \in DOMAIN owned : v # w => owned1[v] = owned[v]
  BY Zenon DEF ClosesAll
<1>S. PICK S \in SUBSET Fds : \A n \in Fds : n \in S <=> <<n, table[n]>> \in owned[w]
  <2>1. {n \in Fds : <<n, table[n]>> \in owned[w]} \in SUBSET Fds
    BY Zenon
  <2> QED BY Zenon, <2>1
<1>1. ASSUME NEW v \in DOMAIN owned, NEW p \in owned1[v]
      PROVE  \E n \in Fds : n \notin S /\ p = <<n, table[n]>> /\ table[n] \notin {NoFile, App}
  <2>1. v # w /\ p \in owned[v]
    BY Zenon, <1>h, <1>1
  <2>2. PICK n \in Fds : p = <<n, table[n]>> /\ table[n] \notin {NoFile, App}
    BY ZenonT(30), <1>h, <1>1, <2>1 DEF Accounted
  <2>3. n \notin S
    BY ZenonT(60), <1>h, <1>1, <1>S, <2>1, <2>2 DEF Accounted
  <2> QED BY Zenon, <1>h, <2>2, <2>3
<1>2. \A v \in DOMAIN owned1 : \A p \in owned1[v] :
        \E n \in Fds : p = <<n, table1[n]>> /\ table1[n] \notin {NoFile, App}
  BY Zenon, <1>h, <1>1, <1>S
<1>3. \A n \in Fds, u, v \in DOMAIN owned1 :
        <<n, table1[n]>> \in owned1[u] /\ <<n, table1[n]>> \in owned1[v] => u = v
  <2> SUFFICES ASSUME NEW n \in Fds, NEW u \in DOMAIN owned, NEW v \in DOMAIN owned,
                      <<n, table1[n]>> \in owned1[u], <<n, table1[n]>> \in owned1[v]
               PROVE  u = v
    BY Zenon, <1>h
  <2>1. u # w /\ v # w /\ n \notin S
    BY Zenon, <1>h, <1>1, <1>S
  <2> QED BY ZenonT(30), <1>h, <1>S, <2>1 DEF Accounted
<1>4. \A n \in Fds : table1[n] \notin {NoFile, App} =>
        \E v \in DOMAIN owned1 : <<n, table1[n]>> \in owned1[v]
  <2> SUFFICES ASSUME NEW n \in Fds, table1[n] \notin {NoFile, App}
               PROVE  \E v \in DOMAIN owned1 : <<n, table1[n]>> \in owned1[v]
    BY Zenon, <1>h
  <2>1. n \notin S /\ table1[n] = table[n]
    BY Zenon, <1>h, <1>S
  <2>2. PICK v \in DOMAIN owned : <<n, table[n]>> \in owned[v]
    BY Zenon, <1>h, <2>1 DEF Accounted
  <2>3. v # w
    BY Zenon, <1>h, <1>S, <2>1, <2>2
  <2> QED BY Zenon, <1>h, <2>1, <2>2, <2>3
<1> QED BY Zenon, <1>h, <1>2, <1>3, <1>4 DEF Accounted

LEMMA CloseObjectInv ==
  ASSUME LinksInv, CloseObject
  PROVE  LinksInv'
<1>1. TypeOK /\ CallInv /\ Accounted(Owned, fds) /\ ProbesInv /\ ValuesInv /\ ~stray
  BY Zenon DEF LinksInv
<1>2. op.pc = "object" /\ op.call = "destroy_skeleton" /\ op' = Idle /\ obj' = FALSE
      /\ UNCHANGED <<Kinds, kernel, link, tracefs, ops, pinned, index, left, stuck, extra>>
  BY Zenon, <1>1 DEF CloseObject, DestroyStep, CallInv, Destroying
<1>3. obj /\ \A s \in Slots : Null(s)
  BY Zenon, <1>1, <1>2 DEF CallInv, Skeleton
<1>4. ~InAttach /\ ~InDestroy /\ ~HasProbe /\ CallOwns = {} /\ \A h : ~Closing(h)
  BY Zenon, <1>2 DEF InAttach, InDestroy, HasProbe, CallOwns, Closing
<1>5. op' \in OpRecord /\ op'.call = "idle" /\ op'.pc = "none"
  BY Zenon, <1>2, IdleFacts
<1>6. ~InAttach' /\ ~InDestroy' /\ ~HasProbe'
  BY Zenon, <1>5 DEF InAttach, InDestroy, HasProbe
<1>7. /\ CallOwns' = {} /\ AttachInv' /\ DestroyInv' /\ \A h : ~Closing(h)'
  BY Zenon, <1>5, <1>6 DEF CallOwns, AttachInv, DestroyInv, Closing
<1>8. CallInv'
  <2>1. Slots' = Slots /\ \A h : Null(h)' <=> Null(h)
    BY Zenon, <1>2 DEF Slots, Null
  <2> QED BY Zenon, <1>3, <1>5, <2>1 DEF CallInv, Skeleton
<1>9. \A h \in Holders : LinkOwns(h)' = LinkOwns(h)
  BY Zenon, <1>2, <1>4, <1>7, LinkOwnsSame
<1>10. /\ DOMAIN Owned = Owners /\ DOMAIN Owned' = Owners /\ TheObject \in Owners
       /\ Owned[TheObject] = {<<s - 1, ObjFile(s)>> : s \in Slots} /\ Owned'[TheObject] = {}
  <2>1. /\ DOMAIN Owned = Owners /\ TheObject \in Owners
        /\ Owned[TheObject] = IF obj THEN {<<s - 1, ObjFile(s)>> : s \in Slots} ELSE {}
    BY Zenon, <1>1, OwnedValues
  <2>2. /\ DOMAIN Owned' = Owners
        /\ Owned'[TheObject] = IF obj' THEN {<<s - 1, ObjFile(s)>> : s \in Slots} ELSE {}
    BY Zenon, <1>1, <1>2, OwnedNext
  <2> QED BY Zenon, <1>2, <1>3, <2>1, <2>2
<1>11. \A s \in Slots : fds[s - 1] = ObjFile(s)
  <2> SUFFICES ASSUME NEW s \in Slots
               PROVE  fds[s - 1] = ObjFile(s)
    BY Zenon
  <2>1. <<s - 1, ObjFile(s)>> \in Owned[TheObject]
    BY Zenon, <1>10
  <2> QED BY Zenon, <1>1, <1>10, <2>1, Holds
<1>12. stray' = FALSE
  BY ZenonT(30), <1>1, <1>11 DEF CloseObject
<1>13. \A w \in Owners : w # TheObject => Owned'[w] = Owned[w]
  <2> SUFFICES ASSUME NEW w \in Owners, w # TheObject
               PROVE  Owned'[w] = Owned[w]
    BY Zenon
  <2>1. w \in Holders \/ w = GivenUp \/ w = TheCall
    BY Zenon, <1>1, OwnedValues
  <2>2. CASE w \in Holders
    BY ZenonT(30), <1>1, <1>2, <1>9, <2>2, OwnedValues, OwnedNext
  <2>3. CASE w = GivenUp
    BY ZenonT(30), <1>1, <1>2, <2>3, OwnedValues, OwnedNext
  <2>4. CASE w = TheCall
    BY ZenonT(30), <1>1, <1>2, <1>4, <1>7, <2>4, OwnedValues, OwnedNext
  <2> QED BY ZenonT(30), <2>1, <2>2, <2>3, <2>4
<1>S. PICK S : S = {n \in Fds : n + 1 \in Slots}
  BY ZenonT(30)
<1>14. fds \in [Fds -> Files] /\ fds' \in [Fds -> Files] /\ S \in SUBSET Fds
       /\ \A n \in Fds : fds'[n] = IF n \in S THEN NoFile ELSE fds[n]
  <2>1. NoFile \in Files /\ fds \in [Fds -> Files]
    BY Zenon, <1>1 DEF TypeOK, Files, NoFile
  <2>2. fds' = [n \in Fds |-> IF n + 1 \in Slots THEN NoFile ELSE fds[n]]
    BY Zenon DEF CloseObject
  <2> QED BY ZenonT(30), <1>S, <2>1, <2>2
<1>15. \A n \in Fds : n \in S <=> <<n, fds[n]>> \in Owned[TheObject]
  <2>1. \A n \in Fds : n \in Int
    BY ZenonT(30), Numbers, FdNumbers DEF Fds
  <2>2. \A s \in Slots : s \in Int
    BY ZenonT(30), <1>1, Ranges, Numbers, FdNumbers
  <2>3. \A n \in Fds : n + 1 \in Slots => <<n, fds[n]>> = <<(n + 1) - 1, ObjFile(n + 1)>>
    BY ZenonT(30), <1>11, <2>1, Numbers, FdNumbers
  <2>4. \A n \in Fds, s \in Slots : n = s - 1 => n + 1 = s
    BY Zenon, <2>1, <2>2, Numbers, FdNumbers
  <2> QED BY ZenonT(30), <1>10, <1>S, <2>3, <2>4
<1>16. Accounted(Owned, fds)'
  <2>1. /\ DOMAIN Owned' = DOMAIN Owned /\ TheObject \in DOMAIN Owned /\ Owned'[TheObject] = {}
        /\ fds \in [Fds -> Files] /\ fds' \in [Fds -> Files] /\ Accounted(Owned, fds)
    BY Zenon, <1>1, <1>10, <1>14
  <2>2. \A v \in DOMAIN Owned : v # TheObject => Owned'[v] = Owned[v]
    BY Zenon, <1>10, <1>13
  <2>3. /\ \A n \in Fds : <<n, fds[n]>> \in Owned[TheObject] => fds'[n] = NoFile
        /\ \A n \in Fds : <<n, fds[n]>> \notin Owned[TheObject] => fds'[n] = fds[n]
    BY Zenon, <1>14, <1>15
  <2>4. Accounted(Owned', fds')
    <3>1. ClosesAll(TheObject, Owned, fds, Owned', fds')
      BY Zenon, <2>1, <2>2, <2>3 DEF ClosesAll
    <3> QED BY Zenon, <2>1, <3>1, AccountCloseAll
  <2> QED BY Zenon, <2>4 DEF Accounted
<1>17. UNCHANGED <<Kinds, link, left, tracefs, stuck>> /\ UNCHANGED <<Kinds, link, left, ops>>
       /\ UNCHANGED <<Kinds, kernel, link, left>>
  BY Zenon, <1>2
<1>18. ProbesInv'
  BY Zenon, <1>1, <1>4, <1>6, <1>17, ProbesFrame
<1>19. ValuesInv'
  <2>1. stuck \subseteq stuck'
    BY Zenon, <1>2
  <2> QED BY Zenon, <1>1, <1>17, <2>1, ValuesFrame
<1>20. /\ tracefs' \subseteq Nat /\ ops' \subseteq Slots /\ pinned' \in Pinnable \cup {NoFile}
       /\ obj' \in BOOLEAN /\ index' \in Nat /\ index' >= index /\ extra' \in Nat
  <2>1. /\ tracefs \subseteq Nat /\ ops \subseteq Slots /\ pinned \in Pinnable \cup {NoFile}
        /\ index \in Nat /\ extra \in Nat
    BY Zenon, <1>1 DEF TypeOK
  <2>2. index' >= index
    BY Zenon, <1>2, <2>1, Numbers, FdNumbers
  <2> QED BY Zenon, <1>2, <2>1, <2>2
<1> QED BY ZenonT(30), <1>5, <1>6, <1>7, <1>8, <1>12, <1>14, <1>16, <1>17, <1>18, <1>19, <1>20,
           FrameInv

------------------------------------------------------------------------------
(* One link: disconnected, pinned, opened *)

\* A link is the same but for its flags.
LEMMA FlagInv ==
  ASSUME LinksInv, op.call = "idle", NEW i \in Holders, ~Null(i), NEW l \in LinkRecord,
         link' = [link EXCEPT ![i] = l], l.kind = link[i].kind, l.fd = link[i].fd,
         l.pfd = link[i].pfd, l.id = link[i].id, l.file = link[i].file,
         l.legacy <=> link[i].legacy,
         UNCHANGED <<Kinds, kernel, fds, tracefs, ops, op, obj, index, left, stuck>>,
         pinned' \in Pinnable \cup {NoFile}, extra' \in Nat, stray' = FALSE
  PROVE  LinksInv'
<1>1. TypeOK /\ LinksShaped /\ CallInv /\ AttachInv /\ DestroyInv /\ IdsDiffer
      /\ Accounted(Owned, fds) /\ ProbesInv /\ ValuesInv /\ ~stray
  BY Zenon DEF LinksInv
<1>2. /\ link' \in [Holders -> LinkRecord]
      /\ \A h \in Holders : /\ link'[h].kind = link[h].kind /\ link'[h].fd = link[h].fd
                            /\ link'[h].pfd = link[h].pfd /\ link'[h].id = link[h].id
                            /\ link'[h].file = link[h].file
                            /\ link'[h].legacy <=> link[h].legacy
  <2>1. link \in [Holders -> LinkRecord]
    BY Zenon, <1>1 DEF TypeOK
  <2>2. link'[i] = l /\ \A h \in Holders : h # i => link'[h] = link[h]
    BY Zenon, <2>1
  <2>3. link' \in [Holders -> LinkRecord]
    BY Zenon, <2>1
  <2> QED BY Zenon, <2>2, <2>3
<1>3. Slots' = Slots /\ Holders' = Holders /\ Handle \in Holders /\ \A s \in Slots : s \in Holders
  BY Zenon DEF Slots, Holders
<1>4. \A h \in Holders : Null(h)' <=> Null(h)
  BY Zenon, <1>2 DEF Null
<1>5. ~InAttach /\ ~InDestroy /\ ~HasProbe /\ ~InAttach' /\ ~InDestroy' /\ ~HasProbe'
  BY Zenon DEF InAttach, InDestroy, HasProbe
<1>6. CallOwns = {} /\ CallOwns' = {} /\ AttachInv' /\ DestroyInv'
  BY Zenon, <1>5 DEF CallOwns, AttachInv, DestroyInv
<1>7. TypeOK'
  <2>1. op' \in OpRecord /\ stray' \in BOOLEAN
    BY Zenon, <1>1 DEF TypeOK
  <2> QED BY Zenon, <1>1, <1>2, <1>3, <2>1 DEF TypeOK
<1>8. LinksShaped'
  <2>1. \A m : Shape(m)' <=> Shape(m)
    BY Zenon, <1>3 DEF Shape, Event, BpfLink, ObjFile
  <2>2. \A h \in Holders : ~Null(h)' => Shape(link[h])'
    <3> SUFFICES ASSUME NEW h \in Holders, ~Null(h)'
                 PROVE  Shape(link[h])'
      BY Zenon
    <3>1. Shape(link[h])
      BY Zenon, <1>1, <1>4 DEF LinksShaped
    <3>2. Shape(link'[h])
      BY ZenonT(30), <1>2, <3>1, SameShape
    <3> QED BY Zenon, <2>1, <3>2
  <2>3. \A s \in Slots : ~Null(s)' => /\ link'[s].kind = Kinds[s] /\ link'[s].kind # "opened"
                                      /\ link'[s].kind = "ops" => link'[s].file = ObjFile(s)
    <3>1. \A s \in Slots : /\ link'[s].kind = link[s].kind /\ link'[s].file = link[s].file
                           /\ Null(s)' <=> Null(s)
      BY Zenon, <1>2, <1>3, <1>4
    <3>2. \A s \in Slots : ~Null(s) => /\ link[s].kind = Kinds[s] /\ link[s].kind # "opened"
                                       /\ link[s].kind = "ops" => link[s].file = ObjFile(s)
      BY Zenon, <1>1 DEF LinksShaped
    <3> SUFFICES ASSUME NEW s \in Slots, ~Null(s)'
                 PROVE  /\ link'[s].kind = Kinds[s] /\ link'[s].kind # "opened"
                        /\ link'[s].kind = "ops" => link'[s].file = ObjFile(s)
      BY Zenon
    <3>3. ~Null(s) /\ link'[s].kind = link[s].kind /\ link'[s].file = link[s].file
      BY Zenon, <3>1
    <3> QED BY Zenon, <3>2, <3>3
  <2>4. link'[Handle].kind \in {"null", "opened"}
    BY Zenon, <1>1, <1>2, <1>3 DEF LinksShaped
  <2>5. \A m \in left : m.kind # "null" /\ Shape(m)'
    BY Zenon, <1>1, <2>1 DEF LinksShaped
  <2> QED BY ZenonT(30), <1>3, <2>2, <2>3, <2>4, <2>5 DEF LinksShaped, ObjFile, Handle
<1>9. CallInv'
  BY Zenon, <1>1, <1>3, <1>4 DEF CallInv, Skeleton
<1>10. IdsDiffer'
  <2>0. \A s \in Slots : link'[s].id = link[s].id /\ (Null(s)' <=> Null(s))
    BY Zenon, <1>2, <1>3, <1>4
  <2>1. \A s, t \in Slots : s # t /\ ~Null(s)' /\ ~Null(t)' => link'[s].id # link'[t].id
    <3> SUFFICES ASSUME NEW s \in Slots, NEW t \in Slots, s # t, ~Null(s)', ~Null(t)'
                 PROVE  link'[s].id # link'[t].id
      BY Zenon
    <3>1. link[s].id # link[t].id
      BY Zenon, <1>1, <2>0 DEF IdsDiffer
    <3> QED BY Zenon, <2>0, <3>1
  <2>2. \A s \in Slots, m \in left : ~Null(s)' /\ m.kind # "opened" => link'[s].id # m.id
    BY ZenonT(60), <1>1, <2>0 DEF IdsDiffer
  <2> QED BY ZenonT(30), <1>3, <1>5, <2>1, <2>2 DEF IdsDiffer
<1>11. Accounted(Owned, fds)'
  <2>1. \A h \in Holders : LinkOwns(h)' = LinkOwns(h)
    <3> SUFFICES ASSUME NEW h \in Holders
                 PROVE  LinkOwns(h)' = LinkOwns(h)
      BY Zenon
    <3>1. Descriptors(link[h])' = Descriptors(link[h])
      BY ZenonT(30), <1>2 DEF Descriptors, Event
    <3> QED BY ZenonT(30), <1>2, <1>4, <1>5, <3>1 DEF LinkOwns
  <2>2. CallOwns' = CallOwns /\ UNCHANGED <<Kinds, fds, obj, left>>
    BY Zenon, <1>6
  <2> QED BY Zenon, <1>1, <2>1, <2>2, OwnersSame
<1>12. ProbesInv'
  <2>1. \A k : Probed(k)' <=> Probed(k)
    <3>1. \A k : (\E h \in Holders : ~Null(h)' /\ link'[h].legacy /\ link'[h].id = k)
                   <=> \E h \in Holders : ~Null(h) /\ link[h].legacy /\ link[h].id = k
      BY ZenonT(60), <1>2, <1>4
    <3> QED BY ZenonT(60), <1>3, <1>5, <3>1 DEF Probed
  <2> QED BY ZenonT(30), <1>1, <1>2, <1>3, <1>4, <1>5, <2>1 DEF ProbesInv
<1>13. ValuesInv'
  <2>1. \A s \in Slots : link'[s].kind = link[s].kind
    BY Zenon, <1>2, <1>3
  <2>2. ops \subseteq Slots
    BY Zenon, <1>1 DEF TypeOK
  <2> QED BY ZenonT(30), <1>1, <1>3, <2>1, <2>2 DEF ValuesInv, ObjFile
<1> QED BY ZenonT(30), <1>6, <1>7, <1>8, <1>9, <1>10, <1>11, <1>12, <1>13 DEF LinksInv

LEMMA DisconnectInv ==
  ASSUME LinksInv, NEW h \in Holders, Disconnect(h)
  PROVE  LinksInv'
<1>1. TypeOK /\ ~stray
  BY Zenon DEF LinksInv
<1>2. /\ op.call = "idle" /\ ~Null(h) /\ Extra /\ link' = [link EXCEPT ![h].disconnected = TRUE]
      /\ UNCHANGED <<Kinds, kernel, fds, tracefs, ops, pinned, op, obj, index, left, stuck, stray>>
  BY Zenon DEF Disconnect
<1>3. PICK l : l = [link[h] EXCEPT !.disconnected = TRUE]
  BY Zenon
<1>4. link[h] \in LinkRecord /\ link' = [link EXCEPT ![h] = l]
  BY Zenon, <1>1, <1>2, <1>3 DEF TypeOK
<1>5. /\ l \in LinkRecord /\ l.kind = link[h].kind /\ l.fd = link[h].fd /\ l.pfd = link[h].pfd
      /\ l.id = link[h].id /\ l.file = link[h].file /\ (l.legacy <=> link[h].legacy)
  BY Zenon, <1>3, <1>4 DEF LinkRecord
<1>6. pinned' \in Pinnable \cup {NoFile} /\ extra' \in Nat /\ stray' = FALSE
  BY ZenonT(30), <1>1, <1>2, Numbers, FdNumbers DEF TypeOK, Extra
<1>7. UNCHANGED <<Kinds, kernel, fds, tracefs, ops, op, obj, index, left, stuck>>
  BY Zenon, <1>2
<1> QED BY ZenonT(30), <1>2, <1>4, <1>5, <1>6, <1>7, FlagInv

LEMMA PinInv ==
  ASSUME LinksInv, NEW h \in Holders, Pin(h)
  PROVE  LinksInv'
<1>1. TypeOK /\ LinksShaped /\ CallInv /\ Accounted(Owned, fds) /\ ~stray
  BY Zenon DEF LinksInv
<1>2. /\ op.call = "idle" /\ ~Null(h) /\ Extra /\ link' = [link EXCEPT ![h].pin_path = TRUE]
      /\ pinned' = fds[link[h].fd] /\ fds[link[h].fd][1] \in {"link", "obj"}
      /\ UNCHANGED <<Kinds, kernel, fds, tracefs, ops, op, obj, index, left, stuck>>
  BY Zenon DEF Pin
<1>3. PICK l : l = [link[h] EXCEPT !.pin_path = TRUE]
  BY Zenon
<1>4. link[h] \in LinkRecord /\ link' = [link EXCEPT ![h] = l] /\ Shape(link[h])
  BY ZenonT(30), <1>1, <1>2, <1>3 DEF TypeOK, LinksShaped
<1>5. /\ l \in LinkRecord /\ l.kind = link[h].kind /\ l.fd = link[h].fd /\ l.pfd = link[h].pfd
      /\ l.id = link[h].id /\ l.file = link[h].file /\ (l.legacy <=> link[h].legacy)
  BY Zenon, <1>3, <1>4 DEF LinkRecord
<1>6. fds[link[h].fd] = link[h].file
  <2>1. CASE link[h].kind # "ops"
    <3>1. ~Closing(h)
      BY Zenon, <1>2 DEF Closing, InDestroy
    <3> QED BY ZenonT(30), <1>2, <2>1, <3>1, LinkHas
  <2>2. CASE link[h].kind = "ops"
    <3>1. h \in Slots /\ link[h].file = ObjFile(h)
      BY Zenon, <1>1, <1>2, <2>2 DEF LinksShaped, Holders
    <3>2. link[h].fd = h - 1
      <4>1. PICK s \in Slots : link[h].fd = s - 1 /\ link[h].file = ObjFile(s)
        BY Zenon, <1>4, <2>2 DEF Shape
      <4>2. s = h
        BY ZenonT(30), <3>1, <4>1, FilesDiffer
      <4> QED BY Zenon, <4>1, <4>2
    <3>3. obj
      BY ZenonT(30), <1>1, <1>2, <3>1 DEF CallInv
    <3>4. <<h - 1, ObjFile(h)>> \in Owned[TheObject] /\ TheObject \in Owners
      BY ZenonT(30), <1>1, <3>1, <3>3, OwnedValues
    <3>5. fds[h - 1] = ObjFile(h)
      BY ZenonT(30), <1>1, <3>4, Holds
    <3> QED BY Zenon, <3>1, <3>2, <3>5
  <2> QED BY Zenon, <2>1, <2>2
<1>7. pinned' \in Pinnable
  <2>1. fds[link[h].fd] \in Files
    BY Zenon, <1>1, <1>4 DEF TypeOK, Shape
  <2> QED BY Zenon, <1>2, <2>1 DEF Files, Pinnable
<1>8. pinned' \in Pinnable \cup {NoFile} /\ extra' \in Nat /\ stray' = FALSE
  <2>1. stray' = FALSE
    BY Zenon, <1>1, <1>6 DEF Pin, Use
  <2>2. extra' \in Nat
    BY ZenonT(30), <1>1, <1>2, Numbers, FdNumbers DEF TypeOK, Extra
  <2> QED BY Zenon, <1>7, <2>1, <2>2
<1> QED BY ZenonT(30), <1>2, <1>4, <1>5, <1>8, FlagInv

LEMMA UnpinInv ==
  ASSUME LinksInv, NEW h \in Holders, Unpin(h)
  PROVE  LinksInv'
<1>1. TypeOK /\ ~stray
  BY Zenon DEF LinksInv
<1>2. /\ op.call = "idle" /\ ~Null(h) /\ link' = [link EXCEPT ![h].pin_path = FALSE]
      /\ pinned' = NoFile
      /\ UNCHANGED <<Kinds, kernel, fds, tracefs, ops, op, obj, index, left, stuck, stray, extra>>
  BY Zenon DEF Unpin
<1>3. PICK l : l = [link[h] EXCEPT !.pin_path = FALSE]
  BY Zenon
<1>4. link[h] \in LinkRecord /\ link' = [link EXCEPT ![h] = l]
  BY Zenon, <1>1, <1>2, <1>3 DEF TypeOK
<1>5. /\ l \in LinkRecord /\ l.kind = link[h].kind /\ l.fd = link[h].fd /\ l.pfd = link[h].pfd
      /\ l.id = link[h].id /\ l.file = link[h].file /\ (l.legacy <=> link[h].legacy)
  BY Zenon, <1>3, <1>4 DEF LinkRecord
<1>6. pinned' \in Pinnable \cup {NoFile} /\ extra' \in Nat /\ stray' = FALSE
  BY Zenon, <1>1, <1>2 DEF TypeOK
<1>7. UNCHANGED <<Kinds, kernel, fds, tracefs, ops, op, obj, index, left, stuck>>
  BY Zenon, <1>2
<1> QED BY ZenonT(30), <1>2, <1>4, <1>5, <1>6, <1>7, FlagInv

LEMMA LinkOpenInv ==
  ASSUME LinksInv, LinkOpen
  PROVE  LinksInv'
<1>1. TypeOK /\ CallInv /\ Accounted(Owned, fds) /\ ProbesInv /\ ValuesInv /\ ~stray
  BY Zenon DEF LinksInv
<1>2. /\ op.call = "idle" /\ Null(Handle) /\ pinned # NoFile /\ Extra
      /\ UNCHANGED <<Kinds, kernel, link, tracefs, ops, pinned, obj, index, left, stuck, stray>>
  BY Zenon DEF LinkOpen
<1>3. PICK n \in Fds : Open(pinned, n) /\ op' = [At("open", Handle, "none") EXCEPT !.fd = n]
  BY Zenon DEF LinkOpen
<1>f. PICK f : f = pinned
  BY Zenon
<1>4. f \in Pinnable /\ f \in Files /\ f \notin {NoFile, App}
  BY ZenonT(30), <1>1, <1>2, <1>f, FilesDiffer DEF TypeOK
<1>5. fds[n] = NoFile /\ fds' = [fds EXCEPT ![n] = f] /\ fds'[n] = f /\ fds' \in [Fds -> Files]
  BY ZenonT(30), <1>1, <1>3, <1>4, <1>f DEF TypeOK, Open, LowestFd, FreeFds
<1>6. op' \in OpRecord /\ op'.call = "open" /\ op'.pc = "none" /\ op'.fd = n /\ op'.s = 0
  <2>c. PICK c : c = "open"
    BY Zenon
  <2>p. PICK p : p = "none"
    BY Zenon
  <2>h. PICK h : h = Handle
    BY Zenon
  <2>1. c \in Calls /\ p \in Pcs /\ h \in Nat
    BY Zenon, <2>c, <2>p, <2>h DEF Calls, Pcs, Handle
  <2>2. /\ At(c, h, p) \in OpRecord /\ At(c, h, p).call = c
        /\ At(c, h, p).s = h /\ At(c, h, p).pc = p
    BY ZenonT(30), <2>1, CallRecord
  <2>3. op' = [At(c, h, p) EXCEPT !.fd = n]
    BY ZenonT(60), <1>3, <2>c, <2>p, <2>h
  <2> QED BY ZenonT(30), <2>2, <2>3, <2>c, <2>p, <2>h DEF OpRecord, Handle
<1>7. ~InAttach /\ ~InDestroy /\ ~HasProbe /\ ~InAttach' /\ ~InDestroy' /\ ~HasProbe'
  BY Zenon, <1>2, <1>6 DEF InAttach, InDestroy, HasProbe
<1>8. /\ CallOwns = {} /\ CallOwns' = {<<n, f>>} /\ AttachInv' /\ DestroyInv'
      /\ \A h : ~Closing(h) /\ ~Closing(h)'
  BY Zenon, <1>2, <1>5, <1>6, <1>7 DEF CallOwns, AttachInv, DestroyInv, Closing
<1>9. \A h \in Holders : LinkOwns(h)' = LinkOwns(h)
  BY Zenon, <1>2, <1>8, LinkOwnsSame
<1>10. CallInv'
  <2>1. Slots' = Slots /\ \A h : Null(h)' <=> Null(h)
    BY Zenon, <1>2 DEF Slots, Null
  <2> QED BY ZenonT(30), <1>1, <1>2, <1>4, <1>5, <1>6, <2>1 DEF CallInv, Skeleton
<1>11. Accounted(Owned, fds)'
  <2>1. Kinds' = Kinds /\ UNCHANGED <<Kinds, obj, left>>
    BY ZenonT(30), <1>2
  <2>2. Handle \in Holders
    BY Zenon DEF Holders
  <2>3. /\ TheCall \in Owners /\ Owned[TheCall] = CallOwns /\ Owned'[TheCall] = CallOwns'
        /\ Owned'[Handle] = Owned[Handle]
        /\ \A w \in Owners : w # Handle /\ w # TheCall => Owned'[w] = Owned[w]
    BY ZenonT(30), <1>1, <1>9, <2>1, <2>2, OwnedOf
  <2>4. \A w \in Owners : w # TheCall => Owned'[w] = Owned[w]
    BY Zenon, <2>3
  <2>5. Owned'[TheCall] = Owned[TheCall] \cup {<<n, f>>}
    BY Zenon, <1>8, <2>3
  <2> QED BY ZenonT(30), <1>1, <1>4, <1>5, <2>1, <2>3, <2>4, <2>5, OwnersOpen
<1>12. UNCHANGED <<Kinds, link, left, tracefs, stuck>> /\ UNCHANGED <<Kinds, link, left, ops>>
       /\ UNCHANGED <<Kinds, kernel, link, left>>
  BY ZenonT(30), <1>2
<1>13. ProbesInv'
  BY ZenonT(30), <1>1, <1>7, <1>12, ProbesFrame
<1>14. ValuesInv'
  <2>1. stuck \subseteq stuck'
    BY Zenon, <1>2
  <2> QED BY ZenonT(30), <1>1, <1>12, <2>1, ValuesFrame
<1>15. /\ tracefs' \subseteq Nat /\ ops' \subseteq Slots /\ pinned' \in Pinnable \cup {NoFile}
       /\ obj' \in BOOLEAN /\ index' \in Nat /\ index' >= index /\ extra' \in Nat /\ stray' = FALSE
  <2>1. /\ tracefs \subseteq Nat /\ ops \subseteq Slots /\ pinned \in Pinnable \cup {NoFile}
        /\ index \in Nat /\ extra \in Nat /\ obj \in BOOLEAN
    BY Zenon, <1>1 DEF TypeOK
  <2>2. index' >= index /\ extra' \in Nat
    BY ZenonT(30), <1>2, <2>1, Numbers, FdNumbers DEF Extra
  <2>3. obj' \in BOOLEAN /\ stray' = FALSE
    BY ZenonT(30), <1>1, <1>2, <2>1 DEF TypeOK
  <2> QED BY ZenonT(30), <1>2, <2>1, <2>2, <2>3
<1> QED BY ZenonT(30), <1>5, <1>6, <1>7, <1>8, <1>10, <1>11, <1>12, <1>13, <1>14, <1>15, FrameInv

LEMMA LinkOpenedInv ==
  ASSUME LinksInv, LinkOpened
  PROVE  LinksInv'
<1>1. TypeOK /\ LinksShaped /\ CallInv /\ IdsDiffer /\ Accounted(Owned, fds) /\ ProbesInv
      /\ ValuesInv /\ ~stray
  BY Zenon DEF LinksInv
<1>2. /\ op.call = "open" /\ op' = Idle
      /\ UNCHANGED <<Kinds, kernel, tracefs, ops, pinned, obj, index, left, stuck, extra>>
  BY Zenon DEF LinkOpened
<1>n. PICK n : n = op.fd
  BY Zenon
<1>f. PICK f : f = fds[n]
  BY Zenon
<1>3. Null(Handle) /\ n \in Fds /\ f \in Pinnable /\ f \in Files
  <2>1. Null(Handle) /\ n \in Fds /\ f \in Pinnable
    BY ZenonT(30), <1>1, <1>2, <1>n, <1>f DEF CallInv
  <2> QED BY Zenon, <2>1 DEF Pinnable, Files
<1>4. op' \in OpRecord /\ op'.call = "idle" /\ op'.pc = "none"
  BY Zenon, <1>2, IdleFacts
<1>5. ~InAttach /\ ~InDestroy /\ ~HasProbe /\ ~InAttach' /\ ~InDestroy' /\ ~HasProbe'
  BY Zenon, <1>2, <1>4 DEF InAttach, InDestroy, HasProbe
<1>6. /\ CallOwns = {<<n, f>>} /\ CallOwns' = {} /\ AttachInv' /\ DestroyInv'
      /\ \A h : ~Closing(h) /\ ~Closing(h)'
  BY ZenonT(30), <1>2, <1>4, <1>5, <1>n, <1>f DEF CallOwns, AttachInv, DestroyInv, Closing
<1>7. Slots' = Slots /\ Holders' = Holders /\ Handle \in Holders /\ (\A s \in Slots : s \in Holders)
      /\ \A s \in Slots : s # Handle
  <2>1. \A s \in Slots : s # 0
    BY Zenon, <1>1, Ranges
  <2> QED BY Zenon, <1>2, <2>1 DEF Slots, Holders, Handle
<1>8. /\ tracefs' \subseteq Nat /\ ops' \subseteq Slots /\ pinned' \in Pinnable \cup {NoFile}
      /\ obj' \in BOOLEAN /\ index' \in Nat /\ index' >= index /\ extra' \in Nat
  <2>1. /\ tracefs \subseteq Nat /\ ops \subseteq Slots /\ pinned \in Pinnable \cup {NoFile}
        /\ index \in Nat /\ extra \in Nat /\ obj \in BOOLEAN
    BY Zenon, <1>1 DEF TypeOK
  <2>2. index' >= index
    BY Zenon, <1>2, <2>1, Numbers, FdNumbers
  <2> QED BY Zenon, <1>2, <2>1, <2>2
<1>9. CASE CloseFd(op.fd, fds[op.fd]) /\ UNCHANGED link
  <2>1. stray' = FALSE /\ fds' = [fds EXCEPT ![n] = NoFile] /\ fds[n] = f
    BY ZenonT(30), <1>1, <1>9, <1>n, <1>f DEF CloseFd
  <2>2. fds' \in [Fds -> Files]
    <3>1. NoFile \in Files /\ fds \in [Fds -> Files]
      BY Zenon, <1>1 DEF TypeOK, Files, NoFile
    <3> QED BY Zenon, <2>1, <3>1
  <2>3. UNCHANGED <<Kinds, link, left, tracefs, stuck>> /\ UNCHANGED <<Kinds, link, left, ops>>
        /\ UNCHANGED <<Kinds, kernel, link, left>> /\ UNCHANGED <<Kinds, left, obj>>
    BY Zenon, <1>2, <1>9
  <2>4. \A h \in Holders : LinkOwns(h)' = LinkOwns(h)
    BY Zenon, <1>6, <2>3, LinkOwnsSame
  <2>5. <<n, f>> \in CallOwns /\ CallOwns' = CallOwns \ {<<n, f>>}
    BY Zenon, <1>6
  <2>6. Accounted(Owned, fds)'
    BY ZenonT(30), <1>1, <1>3, <2>1, <2>3, <2>4, <2>5, CallCloses
  <2>7. ProbesInv'
    BY ZenonT(30), <1>1, <1>5, <2>3, ProbesFrame
  <2>8. ValuesInv'
    <3>1. stuck \subseteq stuck'
      BY ZenonT(30), <1>2
    <3> QED BY ZenonT(30), <1>1, <2>3, <3>1, ValuesFrame
  <2>9. CallInv'
    <3>1. \A h : Null(h)' <=> Null(h)
      BY Zenon, <2>3 DEF Null
    <3> QED BY ZenonT(30), <1>1, <1>2, <1>4, <1>7, <3>1 DEF CallInv, Skeleton
  <2> QED BY ZenonT(30), <1>4, <1>5, <1>6, <1>8, <2>1, <2>2, <2>3, <2>6, <2>7, <2>8, <2>9, FrameInv
<1>10. CASE /\ link' = [link EXCEPT ![Handle] =
                 [kind |-> "opened", fd |-> op.fd, pfd |-> -1, id |-> 0, file |-> fds[op.fd],
                  legacy |-> FALSE, disconnected |-> FALSE, pin_path |-> TRUE]]
            /\ UNCHANGED <<fds, stray>>
  <2>l. PICK l : l = [kind |-> "opened", fd |-> n, pfd |-> -1, id |-> 0, file |-> f,
                      legacy |-> FALSE, disconnected |-> FALSE, pin_path |-> TRUE]
    BY Zenon
  <2>1. l \in LinkRecord /\ l.kind = "opened" /\ l.fd = n /\ l.pfd = -1 /\ l.id = 0
        /\ l.file = f /\ ~l.legacy
    BY Zenon, <1>3, <2>l DEF LinkRecord
  <2>2. /\ link' \in [Holders -> LinkRecord] /\ link'[Handle] = l
        /\ \A h \in Holders : h # Handle => link'[h] = link[h]
    <3>1. link \in [Holders -> LinkRecord] /\ link' = [link EXCEPT ![Handle] = l]
      BY ZenonT(30), <1>1, <1>10, <1>n, <1>f, <2>l DEF TypeOK
    <3> QED BY ZenonT(30), <1>7, <2>1, <3>1
  <2>3. ~Null(Handle)' /\ \A h \in Holders : h # Handle => (Null(h)' <=> Null(h))
    BY Zenon, <2>1, <2>2 DEF Null
  <2>4. \A s \in Slots : link'[s] = link[s] /\ (Null(s)' <=> Null(s))
    BY Zenon, <1>7, <2>2, <2>3
  <2>5. TypeOK'
    <3>1. fds' \in [Fds -> Files] /\ stray' \in BOOLEAN /\ left' \subseteq LinkRecord
          /\ Kinds' \in Skeletons /\ kernel' \in [pmu : BOOLEAN, perf_link : BOOLEAN]
      BY Zenon, <1>1, <1>2, <1>10 DEF TypeOK
    <3> QED BY ZenonT(30), <1>4, <1>7, <1>8, <2>2, <3>1 DEF TypeOK
  <2>6. CallInv'
    BY ZenonT(30), <1>1, <1>2, <1>4, <1>7, <2>4 DEF CallInv, Skeleton
  <2>7. LinksShaped'
    <3>1. \A m : Shape(m)' <=> Shape(m)
      BY ZenonT(30), <1>2, <1>7 DEF Shape, Event, BpfLink, ObjFile
    <3>2. Shape(l)
      <4>1. 0 <= index
        BY Zenon, <1>8, <1>2, Numbers, FdNumbers
      <4> QED BY Zenon, <1>3, <2>1, <4>1 DEF Shape
    <3>3. \A h \in Holders : ~Null(h)' => Shape(link[h])'
      BY ZenonT(30), <1>1, <2>2, <2>3, <3>1, <3>2 DEF LinksShaped
    <3>4. \A s \in Slots : ~Null(s)' => /\ link'[s].kind = Kinds[s] /\ link'[s].kind # "opened"
                                        /\ link'[s].kind = "ops" => link'[s].file = ObjFile(s)
      BY ZenonT(30), <1>1, <2>4 DEF LinksShaped
    <3>5. link'[Handle].kind \in {"null", "opened"}
      BY Zenon, <2>1, <2>2
    <3>6. \A m \in left : m.kind # "null" /\ Shape(m)'
      BY Zenon, <1>1, <3>1 DEF LinksShaped
    <3> QED BY ZenonT(30), <1>2, <1>7, <3>3, <3>4, <3>5, <3>6 DEF LinksShaped, ObjFile, Handle
  <2>8. IdsDiffer'
    <3>1. \A s, t \in Slots : s # t /\ ~Null(s)' /\ ~Null(t)' => link'[s].id # link'[t].id
      BY Zenon, <1>1, <2>4 DEF IdsDiffer
    <3>2. \A s \in Slots, m \in left : ~Null(s)' /\ m.kind # "opened" => link'[s].id # m.id
      BY Zenon, <1>1, <2>4 DEF IdsDiffer
    <3> QED BY ZenonT(30), <1>2, <1>5, <1>7, <3>1, <3>2 DEF IdsDiffer
  <2>9. LinkOwns(Handle) = {} /\ LinkOwns(Handle)' = {<<n, f>>}
    <3>1. LinkOwns(Handle) = {}
      BY Zenon, <1>3 DEF LinkOwns
    <3>2. LinkOwns(Handle)' = {<<n, f>>}
      <4>1. link'[Handle].kind = "opened" /\ link'[Handle].pfd = -1
            /\ link'[Handle].fd = n /\ link'[Handle].file = f
        BY Zenon, <2>1, <2>2, <2>3
      <4>2. Descriptors(link[Handle])' = {<<n, f>>}
        BY Zenon, FdNumbers, <4>1 DEF Descriptors
      <4> QED BY Zenon, <1>5, <4>1, <4>2 DEF LinkOwns, Null
    <3> QED BY Zenon, <3>1, <3>2
  <2>10. Accounted(Owned, fds)'
    <3>1. \A h \in Holders : h # Handle => LinkOwns(h)' = LinkOwns(h)
      BY Zenon, <1>6, <2>2, LinkOwnsSame
    <3>2. UNCHANGED <<Kinds, obj, left>> /\ Kinds' = Kinds /\ fds' = fds
      BY Zenon, <1>2, <1>10
    <3>3. /\ Handle \in Owners /\ Owned[Handle] = LinkOwns(Handle)
          /\ Owned'[Handle] = LinkOwns(Handle)' /\ TheCall \in Owners /\ TheCall # Handle
          /\ Owned[TheCall] = CallOwns /\ Owned'[TheCall] = CallOwns'
          /\ \A w \in Owners : w # Handle /\ w # TheCall => Owned'[w] = Owned[w]
      BY ZenonT(30), <1>1, <1>7, <3>1, <3>2, OwnedOf
    <3>4. Owned'[Handle] = Owned[Handle] \cup Owned[TheCall] /\ Owned'[TheCall] = {}
      BY Zenon, <1>6, <2>9, <3>3
    <3>5. /\ \A w \in Owners : w # TheCall /\ w # Handle => Owned'[w] = Owned[w]
          /\ Handle # TheCall
      BY Zenon, <3>3
    <3> QED BY ZenonT(30), <1>1, <3>2, <3>3, <3>4, <3>5, OwnersMove
  <2>11. ProbesInv'
    <3>1. ~link'[Handle].legacy /\ link'[Handle].id = 0
      BY Zenon, <2>1, <2>2
    <3>2. \A h \in Holders : ~Null(h) <=> h # Handle /\ ~Null(h)'
      BY Zenon, <1>3, <2>3
    <3>3. \A k : Probed(k) => Probed(k)'
      BY ZenonT(30), <1>2, <1>5, <1>7, <2>2, <3>2 DEF Probed
    <3> QED BY ZenonT(30), <1>1, <1>2, <1>5, <1>7, <2>2, <3>1, <3>2, <3>3 DEF ProbesInv
  <2>12. ValuesInv'
    <3>1. ops \subseteq Slots
      BY ZenonT(30), <1>1 DEF TypeOK
    <3> QED BY ZenonT(30), <1>1, <1>2, <1>7, <2>4, <3>1 DEF ValuesInv, ObjFile
  <2>13. ~stray'
    BY ZenonT(30), <1>1, <1>10
  <2> QED BY ZenonT(30), <1>6, <2>5, <2>6, <2>7, <2>8, <2>10, <2>11, <2>12, <2>13 DEF LinksInv
<1> QED BY ZenonT(30), <1>9, <1>10 DEF LinkOpened

------------------------------------------------------------------------------
(* The theorems *)

LEMMA LinksInit ==
  ASSUME Init
  PROVE  LinksInv
<1>1. /\ Kinds \in Skeletons /\ kernel \in [pmu : BOOLEAN, perf_link : BOOLEAN]
      /\ tracefs = {} /\ ops = {} /\ pinned = NoFile /\ op = Idle /\ obj = TRUE /\ index = 0
      /\ extra = 0 /\ left = {} /\ stuck = {} /\ stray = FALSE
  BY Zenon DEF Init
<1>2. fds = [n \in Fds |-> IF n + 1 \in Slots THEN ObjFile(n + 1) ELSE NoFile]
      /\ link = [h \in Holders |-> NullLink]
  BY Zenon DEF Init
<1>3. op \in OpRecord /\ op.call = "idle" /\ op.pc = "none"
  BY Zenon, <1>1, IdleFacts
<1>4. \A h \in Holders : link[h] = NullLink /\ Null(h)
  BY Zenon, <1>2 DEF Null, NullLink
<1>5. TypeOK
  <2>1. NullLink \in LinkRecord
    BY Zenon DEF NullLink, LinkRecord, Files, NoFile
  <2>2. link \in [Holders -> LinkRecord]
    BY Zenon, <1>2, <2>1
  <2>3. \A n \in Fds : n + 1 \in Nat
    BY Zenon, FdNumbers
  <2>4. \A n \in Fds : ObjFile(n + 1) \in Files /\ NoFile \in Files
    BY Zenon, <2>3 DEF ObjFile, NoFile, Files
  <2>5. fds \in [Fds -> Files]
    BY Zenon, <1>2, <2>4
  <2> QED BY Zenon, <1>1, <1>3, <2>2, <2>5 DEF TypeOK
<1>6. Handle \in Holders /\ \A s \in Slots : s \in Holders
  BY Zenon DEF Holders
<1>7. LinksShaped
  <2>1. link[Handle].kind \in {"null", "opened"}
    BY Zenon, <1>4, <1>6 DEF Null
  <2>2. \A s \in Slots : Null(s)
    BY Zenon, <1>4, <1>6
  <2> QED BY Zenon, <1>1, <1>4, <2>1, <2>2 DEF LinksShaped
<1>8. ~InAttach /\ ~InDestroy /\ ~HasProbe
  BY Zenon, <1>3 DEF InAttach, InDestroy, HasProbe
<1>9. CallInv /\ AttachInv /\ DestroyInv
  BY ZenonT(30), <1>1, <1>3, <1>8 DEF CallInv, AttachInv, DestroyInv, Skeleton
<1>10. IdsDiffer
  BY ZenonT(30), <1>1, <1>4, <1>6, <1>8 DEF IdsDiffer
<1>11. ProbesInv
  BY Zenon, <1>1, <1>4, <1>8 DEF ProbesInv
<1>12. ValuesInv
  <2>1. \A s \in Slots : link[s].kind # "ops"
    BY Zenon, <1>4, <1>6 DEF Null
  <2> QED BY Zenon, <1>1, <2>1 DEF ValuesInv
<1>13. Accounted(Owned, fds)
  <2>1. CallOwns = {} /\ \A h \in Holders : LinkOwns(h) = {}
    BY ZenonT(30), <1>3, <1>4, <1>8 DEF CallOwns, LinkOwns
  <2>2. /\ DOMAIN Owned = Owners /\ TheObject \in Owners
        /\ Owned[TheObject] = {<<s - 1, ObjFile(s)>> : s \in Slots}
        /\ \A w \in Owners : w # TheObject => Owned[w] = {}
    <3>1. Owned[GivenUp] = {}
      BY Zenon, <1>1, <1>5, OwnedValues
    <3>2. Owned[TheObject] = {<<s - 1, ObjFile(s)>> : s \in Slots}
      BY Zenon, <1>1, <1>5, OwnedValues
    <3>3. \A w \in Owners : w \in Holders \/ w \in {TheObject, TheCall, GivenUp}
      BY Zenon, <1>5, OwnedValues
    <3>4. Owned[TheCall] = {} /\ (\A h \in Holders : Owned[h] = {})
          /\ DOMAIN Owned = Owners /\ TheObject \in Owners
      BY Zenon, <1>5, <2>1, OwnedValues
    <3> QED BY ZenonT(30), <3>1, <3>2, <3>3, <3>4
  <2>3. \A s \in Slots : s - 1 \in Fds /\ s \in Nat
    BY Zenon, <1>5, Ranges
  <2>4. \A s \in Slots : fds[s - 1] = ObjFile(s)
    <3>1. \A s \in Slots : (s - 1) + 1 = s
      BY Zenon, <2>3, Numbers, FdNumbers
    <3> QED BY Zenon, <1>2, <2>3, <3>1
  <2>5. \A s : ObjFile(s) \notin {NoFile, App}
    BY Zenon DEF ObjFile, NoFile, App
  <2>6. \A w \in Owners : \A p \in Owned[w] :
          \E n \in Fds : p = <<n, fds[n]>> /\ fds[n] \notin {NoFile, App}
    <3> SUFFICES ASSUME NEW w \in Owners, NEW p \in Owned[w]
                 PROVE  \E n \in Fds : p = <<n, fds[n]>> /\ fds[n] \notin {NoFile, App}
      BY Zenon
    <3>1. PICK s \in Slots : p = <<s - 1, ObjFile(s)>>
      BY Zenon, <2>2
    <3> QED BY Zenon, <2>3, <2>4, <2>5, <3>1
  <2>7. \A n \in Fds, v, w \in Owners :
          <<n, fds[n]>> \in Owned[v] /\ <<n, fds[n]>> \in Owned[w] => v = w
    BY Zenon, <2>2
  <2>8. \A n \in Fds : fds[n] \notin {NoFile, App} =>
          \E w \in Owners : <<n, fds[n]>> \in Owned[w]
    <3> SUFFICES ASSUME NEW n \in Fds, fds[n] # NoFile
                 PROVE  <<n, fds[n]>> \in Owned[TheObject]
      BY Zenon, <2>2
    <3>1. n + 1 \in Slots /\ fds[n] = ObjFile(n + 1) /\ n = (n + 1) - 1
      BY Zenon, <1>2, Numbers, FdNumbers DEF Fds
    <3> QED BY Zenon, <2>2, <3>1
  <2> QED BY ZenonT(30), <2>2, <2>6, <2>7, <2>8 DEF Accounted
<1> QED BY ZenonT(30), <1>1, <1>5, <1>7, <1>9, <1>10, <1>11, <1>12, <1>13 DEF LinksInv

LEMMA LinksStutter ==
  ASSUME LinksInv, UNCHANGED vars
  PROVE  LinksInv'
<1>1. TypeOK /\ CallInv /\ AttachInv /\ DestroyInv /\ Accounted(Owned, fds) /\ ~stray
  BY Zenon DEF LinksInv
<1>2. UNCHANGED <<Kinds, kernel, fds, link, tracefs, ops, pinned, op, obj, index, extra, left,
                  stuck, stray>>
  BY Zenon DEF vars
<1>3. op' = op /\ CallInv' /\ AttachInv' /\ DestroyInv'
  BY ZenonT(60), <1>1, <1>2 DEF CallInv, AttachInv, DestroyInv, InAttach, InDestroy, Slots,
     Holders, Null
<1>4. /\ InAttach' <=> InAttach
      /\ HasProbe' <=> HasProbe
      /\ \A h : Closing(h)' <=> Closing(h)
  BY Zenon, <1>2 DEF InAttach, HasProbe, Closing, InDestroy
<1>5. CallOwns' = CallOwns
  BY Zenon, <1>2, <1>4 DEF CallOwns, Event, BpfLink
<1>6. \A h \in Holders : LinkOwns(h)' = LinkOwns(h)
  BY Zenon, <1>2 DEF LinkOwns, Descriptors, InDestroy, Null, Event
<1>7. op' \in OpRecord /\ index' \in Nat /\ index' >= index /\ extra' \in Nat /\ stray' = FALSE
  BY Zenon, <1>1, <1>2, Numbers, FdNumbers DEF TypeOK
<1>8. UNCHANGED <<Kinds, kernel, fds, link, tracefs, ops, pinned, obj, left, stuck>>
      /\ op'.id = op.id
  BY Zenon, <1>2
<1> QED BY ZenonT(30), <1>3, <1>4, <1>5, <1>6, <1>7, <1>8, OpStep

\* Every step of Links preserves the invariant.
LEMMA LinksNext ==
  ASSUME LinksInv, [Next]_vars
  PROVE  LinksInv'
<1>1. ASSUME UNCHANGED vars PROVE LinksInv'
  BY Zenon, <1>1, LinksStutter
<1>2. ASSUME AppOpen PROVE LinksInv'
  BY Zenon, <1>2, AppOpenInv
<1>3. ASSUME NEW n \in Fds, AppClose(n) PROVE LinksInv'
  BY Zenon, <1>3, AppCloseInv
<1>4. ASSUME NEW s \in Slots, NEW mode \in Modes, Attach(s, mode) PROVE LinksInv'
  BY Zenon, <1>4, AttachInvStep
<1>5. ASSUME NEW call \in Skeleton, Begin(call) PROVE LinksInv'
  BY Zenon, <1>5, BeginInv
<1>6. ASSUME AttachNext \/ LinkCreate \/ StructOpsUpdate \/ AddProbe \/ EventOpen PROVE LinksInv'
  BY ZenonT(30), <1>6, AttachNextInv, LinkCreateInv, StructOpsUpdateInv, AddProbeInv, EventOpenInv
<1>7. ASSUME SetBpf \/ SetBpfFails \/ Enable \/ UndoSet \/ UndoOpen \/ UndoAdd PROVE LinksInv'
  BY ZenonT(30), <1>7, SetBpfInv, SetBpfFailsInv, EnableInv, UndoSetInv, UndoOpenInv, UndoAddInv
<1>8. ASSUME DetachNext \/ PerfDisable \/ PerfCloseEvent \/ CloseLink \/ PerfRemoveProbe
      PROVE  LinksInv'
  BY ZenonT(30), <1>8, DetachNextInv, PerfDisableInv, PerfCloseEventInv, CloseLinkInv,
     PerfRemoveProbeInv
<1>9. ASSUME StructOpsDelete \/ CloseObject \/ LinkOpen \/ LinkOpened PROVE LinksInv'
  BY ZenonT(30), <1>9, StructOpsDeleteInv, CloseObjectInv, LinkOpenInv, LinkOpenedInv
<1>10. ASSUME NEW h \in Holders, Destroy(h) \/ Disconnect(h) \/ Pin(h) \/ Unpin(h)
       PROVE  LinksInv'
  BY ZenonT(30), <1>10, DestroyInvStep, DisconnectInv, PinInv, UnpinInv
<1> QED BY ZenonT(30), <1>1, <1>2, <1>3, <1>4, <1>5, <1>6, <1>7, <1>8, <1>9, <1>10 DEF Next, Modes

\* In every state of the attach, destroy, disconnect, pin and open code, every
\* descriptor open on an event, a link or the object has exactly one owner that
\* takes it for what it is, each link has the shape its attach function gives it,
\* attachment numbers are never shared, and every legacy probe and struct_ops
\* value is there for a link or an attachment under way.
THEOREM LinksInvariant == Spec => []LinksInv
<1>1. Init => LinksInv
  BY Zenon, LinksInit
<1>2. LinksInv /\ [Next]_vars => LinksInv'
  BY Zenon, LinksNext
<1> QED BY <1>1, <1>2, PTL DEF Spec

\* Whatever other threads open and close between its system calls, libbpf uses,
\* closes and clears through a descriptor only what it opened it for: the error
\* paths of an attachment, bpf_link_perf_detach() and the object's close never
\* touch a descriptor twice.
THEOREM NeverForeignDescriptors == Spec => []OwnDescriptorsOnly
<1>1. LinksInv => OwnDescriptorsOnly
  BY Zenon DEF LinksInv, OwnDescriptorsOnly
<1> QED BY <1>1, LinksInvariant, PTL

LEMMA LinksAccount ==
  ASSUME LinksInv
  PROVE  DescriptorsAccounted
<1> SUFFICES ASSUME op.call = "idle"
             PROVE  {<<n, fds[n]>> : n \in {m \in Fds : fds[m] \notin {NoFile, App}}}
                      = (UNION {Descriptors(l) : l \in Live \cup left})
                          \cup (IF obj THEN {<<s - 1, ObjFile(s)>> : s \in Slots} ELSE {})
  BY Zenon DEF DescriptorsAccounted
<1>1. TypeOK /\ Accounted(Owned, fds)
  BY Zenon DEF LinksInv
<1>O. PICK O : O = IF obj THEN {<<s - 1, ObjFile(s)>> : s \in Slots} ELSE {}
  BY Zenon
<1>2. CallOwns = {} /\ \A h \in Holders : ~Null(h) => LinkOwns(h) = Descriptors(link[h])
  <2>1. ~InAttach /\ ~InDestroy
    BY Zenon DEF InAttach, InDestroy
  <2> QED BY Zenon, <2>1 DEF CallOwns, LinkOwns, Descriptors
<1>3. \A h \in Holders : Null(h) => LinkOwns(h) = {}
  BY Zenon DEF LinkOwns
<1>4. /\ DOMAIN Owned = Owners /\ Holders \subseteq Owners /\ TheObject \in Owners
      /\ GivenUp \in Owners /\ TheCall \in Owners
      /\ \A w \in Owners : w \in Holders \/ w = TheObject \/ w = TheCall \/ w = GivenUp
      /\ Owned[TheCall] = CallOwns /\ Owned[GivenUp] = UNION {Descriptors(l) : l \in left}
      /\ \A h \in Holders : Owned[h] = LinkOwns(h)
  BY Zenon, <1>1, OwnedValues
<1>5. Owned[TheObject] = O
  BY Zenon, <1>1, <1>O, OwnedValues
<1>6. \A p : p \in UNION {Descriptors(l) : l \in Live \cup left} <=>
        \/ \E h \in Holders : ~Null(h) /\ p \in Descriptors(link[h])
        \/ p \in UNION {Descriptors(l) : l \in left}
  BY Zenon DEF Live
<1>7. \A p : (\E w \in Owners : p \in Owned[w]) <=>
        p \in UNION {Descriptors(l) : l \in Live \cup left} \/ p \in O
  <2> SUFFICES ASSUME NEW p
               PROVE  (\E w \in Owners : p \in Owned[w]) <=>
                        p \in UNION {Descriptors(l) : l \in Live \cup left} \/ p \in O
    BY Zenon
  <2>1. ASSUME NEW w \in Owners, p \in Owned[w]
        PROVE  p \in UNION {Descriptors(l) : l \in Live \cup left} \/ p \in O
    <3>1. CASE w = TheCall
      BY ZenonT(30), <1>2, <1>4, <2>1, <3>1
    <3>2. CASE w = TheObject
      BY Zenon, <1>5, <2>1, <3>2
    <3>3. CASE w = GivenUp
      BY ZenonT(30), <1>4, <1>6, <2>1, <3>3
    <3>4. CASE w \in Holders
      <4>1. p \in LinkOwns(w)
        BY ZenonT(30), <1>4, <2>1, <3>4
      <4>2. ~Null(w)
        BY Zenon, <1>3, <3>4, <4>1
      <4>3. p \in Descriptors(link[w])
        BY ZenonT(30), <1>2, <3>4, <4>1, <4>2
      <4> QED BY ZenonT(30), <1>6, <3>4, <4>2, <4>3
    <3> QED BY ZenonT(30), <1>4, <3>1, <3>2, <3>3, <3>4
  <2>2. ASSUME p \in UNION {Descriptors(l) : l \in Live \cup left} \/ p \in O
        PROVE  \E w \in Owners : p \in Owned[w]
    <3>1. CASE p \in O
      BY Zenon, <1>4, <1>5, <3>1
    <3>2. CASE p \in UNION {Descriptors(l) : l \in left}
      BY Zenon, <1>4, <3>2
    <3>3. CASE \E h \in Holders : ~Null(h) /\ p \in Descriptors(link[h])
      BY Zenon, <1>2, <1>4, <3>3
    <3> QED BY ZenonT(30), <1>6, <2>2, <3>1, <3>2, <3>3
  <2> QED BY ZenonT(30), <2>1, <2>2
<1>8. \A p : p \in {<<n, fds[n]>> : n \in {m \in Fds : fds[m] \notin {NoFile, App}}} <=>
        \E n \in Fds : p = <<n, fds[n]>> /\ fds[n] \notin {NoFile, App}
  BY Zenon
<1>9. \A p : (\E n \in Fds : p = <<n, fds[n]>> /\ fds[n] \notin {NoFile, App})
               <=> \E w \in Owners : p \in Owned[w]
  <2>1. \A w \in Owners : \A p \in Owned[w] :
          \E n \in Fds : p = <<n, fds[n]>> /\ fds[n] \notin {NoFile, App}
    BY Zenon, <1>1, <1>4 DEF Accounted
  <2>2. \A n \in Fds : fds[n] \notin {NoFile, App} =>
          \E w \in Owners : <<n, fds[n]>> \in Owned[w]
    BY ZenonT(30), <1>1, <1>4 DEF Accounted
  <2> QED BY Zenon, <2>1, <2>2
<1>10. \A p : p \in {<<n, fds[n]>> : n \in {m \in Fds : fds[m] \notin {NoFile, App}}} <=>
        p \in UNION {Descriptors(l) : l \in Live \cup left} \/ p \in O
  BY Zenon, <1>7, <1>8, <1>9
<1>A. PICK A : A = {<<n, fds[n]>> : n \in {m \in Fds : fds[m] \notin {NoFile, App}}}
  BY Zenon
<1>B. PICK B : B = UNION {Descriptors(l) : l \in Live \cup left}
  BY Zenon
<1>11. \A p : p \in A <=> p \in B \/ p \in O
  BY Zenon, <1>10, <1>A, <1>B
<1>12. A = B \cup O
  BY ZenonT(30), <1>11
<1> QED BY ZenonT(30), <1>12, <1>A, <1>B, <1>O

\* Between calls the descriptors open on events, links and the object are exactly
\* those of live links, of disconnected links and of the open object: no error
\* path of an attachment and no bpf_link__destroy() leaks one.
THEOREM NoDescriptorLeaks == Spec => []DescriptorsAccounted
<1>1. LinksInv => DescriptorsAccounted
  BY Zenon, LinksAccount
<1> QED BY <1>1, LinksInvariant, PTL

LEMMA LinksAttachments ==
  ASSUME LinksInv
  PROVE  AttachmentsAccounted
<1>1. TypeOK /\ LinksShaped /\ ProbesInv /\ ValuesInv
  BY Zenon DEF LinksInv
<1>p. PICK probes : probes = {l.id : l \in {m \in Live \cup left : m.legacy}}
  BY Zenon
<1>v. PICK values : values = {s \in Slots : Kinds[s] = "ops" /\ \E l \in Live \cup left :
                                              l.kind = "ops" /\ l.file = ObjFile(s)}
  BY Zenon
<1> SUFFICES ASSUME op.call = "idle"
             PROVE  /\ probes \subseteq tracefs
                    /\ \A k \in tracefs \ probes : <<"probe", k>> \in stuck
                    /\ values \subseteq ops
                    /\ \A s \in ops \ values : Kinds[s] = "ops_link" \/ <<"ops", s>> \in stuck
  BY Zenon, <1>p, <1>v DEF AttachmentsAccounted
<1>2. ~HasProbe
  BY Zenon DEF HasProbe, InAttach
<1>3. \A l : l \in Live <=> \E h \in Holders : ~Null(h) /\ l = link[h]
  BY Zenon DEF Live
<1>4. \A k : k \in probes <=> \/ \E h \in Holders : ~Null(h) /\ link[h].legacy /\ link[h].id = k
                              \/ \E l \in left : l.legacy /\ l.id = k
  <2>1. \A k : k \in probes <=> \E m \in Live \cup left : m.legacy /\ m.id = k
    BY Zenon, <1>p
  <2>2. \A k : (\E m \in Live : m.legacy /\ m.id = k)
                 <=> \E h \in Holders : ~Null(h) /\ link[h].legacy /\ link[h].id = k
    BY ZenonT(60), <1>3
  <2> QED BY Zenon, <2>1, <2>2
<1>5. probes \subseteq tracefs /\ \A k \in tracefs \ probes : <<"probe", k>> \in stuck
  BY Zenon, <1>1, <1>2, <1>4 DEF ProbesInv, Probed
<1>6. \A s, t : ObjFile(s) = ObjFile(t) => s = t
  BY Zenon DEF ObjFile
<1>7. \A h \in Holders : link[h].kind = "ops" =>
        h \in Slots /\ ~Null(h) /\ link[h].file = ObjFile(h) /\ Kinds[h] = "ops"
  BY Zenon, <1>1 DEF LinksShaped, Holders, Null
<1>8. values \subseteq ops
  <2> SUFFICES ASSUME NEW s \in Slots, NEW l \in Live \cup left, l.kind = "ops",
                      l.file = ObjFile(s)
               PROVE  s \in ops
    BY Zenon, <1>v
  <2>1. CASE l \in left
    BY Zenon, <1>1, <2>1 DEF ValuesInv
  <2>2. CASE l \in Live
    <3>1. PICK h \in Holders : ~Null(h) /\ l = link[h]
      BY Zenon, <1>3, <2>2
    <3>2. h = s
      BY Zenon, <1>6, <1>7, <3>1
    <3> QED BY Zenon, <1>1, <3>1, <3>2 DEF ValuesInv
  <2> QED BY Zenon, <2>1, <2>2
<1>9. \A s \in ops \ values : Kinds[s] = "ops_link" \/ <<"ops", s>> \in stuck
  <2> SUFFICES ASSUME NEW s \in ops, Kinds[s] # "ops_link", <<"ops", s>> \notin stuck
               PROVE  s \in values
    BY Zenon
  <2>1. s \in Slots /\ s \in Holders
    BY Zenon, <1>1 DEF TypeOK, Holders
  <2>2. link[s].kind = "ops" \/ \E l \in left : l.kind = "ops" /\ l.file = ObjFile(s)
    BY Zenon, <1>1 DEF ValuesInv
  <2>3. CASE link[s].kind = "ops"
    BY ZenonT(30), <1>3, <1>7, <1>v, <2>1, <2>3
  <2>4. CASE \E l \in left : l.kind = "ops" /\ l.file = ObjFile(s)
    <3>1. PICK l \in left : l.kind = "ops" /\ l.file = ObjFile(s)
      BY ZenonT(30), <2>4
    <3>2. \E t \in Slots : Kinds[t] = "ops" /\ l.file = ObjFile(t)
      BY Zenon, <1>1, <3>1 DEF LinksShaped, Shape
    <3>3. Kinds[s] = "ops"
      BY ZenonT(30), <1>6, <3>1, <3>2
    <3> QED BY ZenonT(30), <1>v, <2>1, <3>1, <3>3
  <2> QED BY ZenonT(30), <2>2, <2>3, <2>4
<1> QED BY ZenonT(30), <1>5, <1>8, <1>9

\* Between calls a legacy probe is in tracefs, and a struct_ops value set, for a
\* live or disconnected link and for nothing else, unless the kernel refused to
\* take it down: the cleanups of attach and detach run on every path and in an
\* order in which they can succeed.
THEOREM NoAttachmentLeaks == Spec => []AttachmentsAccounted
<1>1. LinksInv => AttachmentsAccounted
  BY Zenon, LinksAttachments
<1> QED BY <1>1, LinksInvariant, PTL

==============================================================================

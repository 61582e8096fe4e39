--------------------------- MODULE ProgLoadProofs ---------------------------
(***************************************************************************)
(* Proofs about ProgLoad for any threads, kernels, loads and buffer sizes: *)
(* the inductive invariant LoadInv, and from it that every failure is      *)
(* reported for what it is and that a good program is loaded.              *)
(*                                                                         *)
(* What is known of a thread concerns its own record, its load, the kernel *)
(* and a flag that is only ever set.  A step is therefore proved to keep   *)
(* ThreadOK as a fact about two records, r before and s after it, and      *)
(* StepFrame carries it over to the state.                                 *)
(***************************************************************************)
EXTENDS ProgLoad, TLAPS

---------------------------------------------------------------------------
(* Types.                                                                  *)

(* The fields of r that the sub-calls leave alone.                         *)
SameLoad(r, s) ==
    /\ s.log_level = r.log_level /\ s.size = r.size /\ s.fixed = r.fixed
    /\ s.errno = r.errno /\ s.why = r.why /\ s.unraised = r.unraised

LEMMA UintFacts ==
    /\ U32 \in Nat \ {0} /\ UINT_MAX \in Nat /\ UINT_MAX = U32 - 1
    /\ LogBufSize \in Nat /\ LogBufSize <= UINT_MAX
BY LoadAssumption DEF UINT_MAX

LEMMA HalfFacts ==
  ASSUME NEW m \in Nat, NEW n \in Nat
  PROVE  n <= m \div 2 <=> 2 * n <= m
OBVIOUS

LEMMA SizeFacts ==
    /\ U32 \in Nat \ {0} /\ UINT_MAX \in Nat /\ UINT_MAX = U32 - 1
    /\ LogBufSize \in Nat /\ LogBufSize <= UINT_MAX
    /\ 0 % U32 = 0
    /\ \A n \in Nat : n % U32 \in Nat /\ n % U32 <= UINT_MAX
<1>1. /\ U32 \in Nat \ {0} /\ UINT_MAX \in Nat /\ UINT_MAX = U32 - 1
      /\ LogBufSize \in Nat /\ LogBufSize <= UINT_MAX
  BY UintFacts
<1>2. 0 % U32 = 0
  BY Z3, <1>1
<1>3. ASSUME NEW n \in Nat PROVE n % U32 \in Nat /\ n % U32 <= UINT_MAX
  <2>1. n % U32 \in 0 .. (U32 - 1)
    BY Z3, <1>1
  <2> QED
    BY <2>1, <1>1
<1> QED
  BY <1>1, <1>2, <1>3

LEMMA ThreadFacts ==
  ASSUME LoadInv, NEW t \in Threads
  PROVE  /\ TypeOK /\ SharedOK
         /\ th[t] \in ThreadRec /\ load[t] \in LoadRec /\ kern \in KernelRec
         /\ ThreadOK(th[t], load[t], kern, memlock_bumped)
BY LoadAssumption DEF LoadInv, TypeOK

LEMMA NumberFacts ==
  ASSUME NEW r \in ThreadRec
  PROVE  /\ r.log_level \in Nat /\ r.size \in Nat /\ r.tries \in Nat
         /\ r.log_level > 0 <=> r.log_level # 0
<1>1. r.log_level \in Nat /\ r.size \in Nat /\ r.tries \in Nat
  BY Zenon DEF ThreadRec
<1>2. r.log_level > 0 <=> r.log_level # 0
  BY <1>1
<1> QED
  BY <1>1, <1>2

LEMMA FieldFacts ==
  ASSUME NEW r \in ThreadRec
  PROVE  /\ r.feat \in {"name", "memcg"} /\ r.fixed \in SUBSET {"func", "line"}
         /\ r.errno \in Errnos /\ r.why \in SUBSET {"EAGAIN", "EPERM", "nomem"}
BY Zenon DEF ThreadRec

LEMMA ErrnoFacts ==
    {"", "EAGAIN", "EPERM", "EINVAL", "E2BIG", "ENOSPC", "ENOMEM"} \subseteq Errnos
BY DEF Errnos

LEMMA GotoFacts ==
  ASSUME NEW r \in ThreadRec, NEW pc \in PCs, NEW s, s = [r EXCEPT !.pc = pc]
  PROVE  /\ s \in ThreadRec /\ s.pc = pc /\ SameLoad(r, s)
         /\ s.then = r.then /\ s.feat = r.feat /\ s.probed = r.probed /\ s.name = r.name
BY Zenon DEF ThreadRec, SameLoad

(* Outside the sub-calls the pc is the place.                              *)
LEMMA PlaceFacts ==
  ASSUME NEW r
  PROVE  /\ r.pc \in SubCalls => Place(r) = r.then
         /\ r.pc \notin SubCalls => Place(r) = r.pc
         /\ r.pc \in {"start", "trivial", "trivial_sys", "setup", "enter", "check", "sys",
                      "failed", "again", "done"} => r.pc \notin SubCalls
BY DEF Place, SubCalls

---------------------------------------------------------------------------
(* From one thread to the state.                                           *)

(* The flag is only ever set, so other threads keep what they know.        *)
LEMMA StepFrame ==
  ASSUME LoadInv, NEW t \in Threads, NEW s \in ThreadRec, th' = [th EXCEPT ![t] = s],
         UNCHANGED <<kern, load>>,
         cache' \in [{"name", "memcg"} -> {"unknown", "supported", "missing"}],
         memlock_bumped' \in BOOLEAN, memlock_rlim' \in {"infinity", "none"},
         limit' \in {"low", "high", "denied"},
         memlock_bumped => memlock_bumped',
         ThreadOK(s, load[t], kern, memlock_bumped'), SharedOK'
  PROVE  LoadInv'
<1>1. /\ th \in [Threads -> ThreadRec] /\ kern \in Kernels /\ load \in Loads
  BY DEF LoadInv, TypeOK
<1>2. /\ th' \in [Threads -> ThreadRec] /\ th'[t] = s
      /\ \A u \in Threads : u # t => th'[u] = th[u]
  BY <1>1
<1>3. TypeOK'
  BY <1>1, <1>2 DEF TypeOK
<1>4. ASSUME NEW u \in Threads PROVE ThreadOK(th'[u], load[u], kern, memlock_bumped')
  <2>1. CASE u = t
    BY <2>1, <1>2
  <2>2. CASE u # t
    <3>1. ThreadOK(th[u], load[u], kern, memlock_bumped)
      BY DEF LoadInv
    <3>2. BumpOK(th[u], kern, memlock_bumped')
      BY <3>1 DEF ThreadOK, BumpOK
    <3>3. ThreadOK(th[u], load[u], kern, memlock_bumped')
      BY <3>1, <3>2 DEF ThreadOK
    <3> QED
      BY <3>3, <2>2, <1>2
  <2> QED
    BY <2>1, <2>2
<1>5. \A u \in Threads : ThreadOK(th[u], load[u], kern, memlock_bumped)'
  BY <1>4
<1> QED
  BY <1>3, <1>5 DEF LoadInv

(* A step that leaves what the threads share, and is not setrlimit().      *)
LEMMA LocalFrame ==
  ASSUME LoadInv, NEW t \in Threads, NEW s \in ThreadRec, th' = [th EXCEPT ![t] = s],
         UNCHANGED <<kern, load>>, UNCHANGED Shared, th[t].pc # "setrlimit",
         ThreadOK(s, load[t], kern, memlock_bumped)
  PROVE  LoadInv'
<1>1. /\ TypeOK /\ SharedOK
      /\ UNCHANGED <<cache, memlock_bumped, memlock_rlim, limit>>
  BY DEF LoadInv, Shared
<1>2. \A u \in Threads : At(u, "setrlimit") => At(u, "setrlimit")'
  BY <1>1 DEF TypeOK, At
<1>3. SharedOK'
  BY <1>1, <1>2 DEF SharedOK
<1> QED
  BY Zenon, <1>1, <1>3, StepFrame DEF TypeOK

(* A step within or around the sub-calls.                                  *)
LEMMA QuietStep ==
  ASSUME NEW r \in ThreadRec, NEW s \in ThreadRec, NEW l \in LoadRec, NEW k, NEW b, NEW c,
         ThreadOK(r, l, k, b), SameLoad(r, s), s.pc \notin {"failed", "done"},
         \/ Place(s) = Place(r)
         \/ Place(r) = "start" /\ Place(s) \in {"trivial", "setup"}
         \/ Place(r) = "trivial" /\ Place(s) = "trivial_sys"
         \/ Place(r) = "trivial_sys" /\ Place(s) = "setup"
         \/ Place(r) = "enter" /\ Place(s) = "check",
         CallsOK(s), BumpOK(s, k, c), FeatureOK(s, k)
  PROVE  ThreadOK(s, l, k, c)
<1> USE DEF SameLoad
<1>1. SizeOK(s, l)
  BY SizeFacts, NumberFacts DEF SizeOK, ThreadOK
<1>2. ErrnoOK(s, l, k)
  <2>1. Place(s) = "again" => Place(r) = "again"
    OBVIOUS
  <2> QED
    BY <2>1 DEF ErrnoOK, ThreadOK, Passing, BadSize, NoSpace, ItsVerdict
<1>3. LastTryOK(s, l)
  BY DEF LastTryOK, ThreadOK
<1>4. GoodOK(s, l)
  BY Zenon DEF GoodOK, ThreadOK
<1>5. Explained(s, l, k)
  BY Zenon DEF Explained
<1> QED
  BY <1>1, <1>2, <1>3, <1>4, <1>5 DEF ThreadOK

---------------------------------------------------------------------------
(* feat_supported() and bump_rlimit_memlock().                             *)

LEMMA CallBumpInv ==
  ASSUME LoadInv, NEW t \in Threads, UNCHANGED <<kern, load>>, UNCHANGED Shared,
         NEW n \in PCs, CallBump(t, n),
         \/ At(t, "start") /\ n = "trivial"
         \/ At(t, "trivial") /\ n = "trivial_sys"
         \/ At(t, "enter") /\ n = "check"
  PROVE  LoadInv'
<1>0. PICK r \in ThreadRec : r = th[t]
  BY ThreadFacts
<1>1. /\ ThreadOK(r, load[t], kern, memlock_bumped) /\ load[t] \in LoadRec
      /\ r.pc \in {"start", "trivial", "enter"} /\ n \in PCs /\ n \notin SubCalls
      /\ r.pc \notin SubCalls /\ Place(r) = r.pc
  BY <1>0, ThreadFacts DEF At, PCs, SubCalls, Place
<1>2. CASE memlock_bumped /\ th' = [th EXCEPT ![t] = [th[t] EXCEPT !.pc = n]]
  <2>0. PICK s : s = [r EXCEPT !.pc = n]
    BY Zenon
  <2>1. /\ s \in ThreadRec /\ s.pc = n /\ SameLoad(r, s) /\ s.name = r.name
    BY <2>0, <1>1, GotoFacts
  <2>2. Place(s) = n /\ n # "write" /\ s.pc \notin {"failed", "done"}
    BY <2>1, <1>1, PlaceFacts DEF SubCalls
  <2>3. CallsOK(s) /\ BumpOK(s, kern, memlock_bumped) /\ FeatureOK(s, kern)
    BY <2>1, <2>2, <1>1, <1>2 DEF CallsOK, BumpOK, FeatureOK, ThreadOK
  <2>4. ThreadOK(s, load[t], kern, memlock_bumped)
    BY <2>1, <2>2, <2>3, <1>0, <1>1, QuietStep DEF At
  <2> QED
    BY Zenon, <2>0, <2>1, <2>4, <1>0, <1>1, <1>2, LocalFrame
<1>3. CASE th' = [th EXCEPT ![t] = [th[t] EXCEPT !.pc = "feat", !.feat = "memcg", !.then = n]]
  <2>0. PICK s : s = [r EXCEPT !.pc = "feat", !.feat = "memcg", !.then = n]
    OBVIOUS
  <2>1. /\ s \in ThreadRec /\ s.pc = "feat" /\ SameLoad(r, s) /\ s.name = r.name
        /\ s.then = n /\ s.feat = "memcg"
    BY Zenon, <2>0 DEF ThreadRec, SameLoad, PCs, SubCalls
  <2>2. Place(s) = n /\ s.pc \notin {"failed", "done"} /\ n \notin {"sys", "failed"}
    BY <2>1, PlaceFacts DEF SubCalls, At
  <2>3. CallsOK(s) /\ BumpOK(s, kern, memlock_bumped) /\ FeatureOK(s, kern)
    BY <2>1, <2>2, <1>1 DEF CallsOK, BumpOK, FeatureOK, ThreadOK, At
  <2>4. ThreadOK(s, load[t], kern, memlock_bumped)
    BY <2>1, <2>2, <2>3, <1>0, <1>1, QuietStep DEF At
  <2> QED
    BY Zenon, <2>0, <2>1, <2>4, <1>0, <1>1, <1>3, LocalFrame
<1> QED
  BY <1>2, <1>3 DEF CallBump, Goto, AskFeature, Set

(* A step inside a sub-call that stays there, sharing nothing.             *)
LEMMA InsideInv ==
  ASSUME LoadInv, NEW t \in Threads, UNCHANGED <<kern, load>>, UNCHANGED Shared,
         NEW s \in ThreadRec, th' = [th EXCEPT ![t] = s], SameLoad(th[t], s),
         th[t].pc \in SubCalls \ {"setrlimit"}, s.pc \in SubCalls \ {"setrlimit"},
         s.then = th[t].then, s.feat = th[t].feat, s.name = th[t].name,
         s.pc = "bump" => s.feat = "memcg",
         s.pc = "write" /\ s.probed => kern[s.feat]
  PROVE  LoadInv'
<1>0. PICK r \in ThreadRec : r = th[t]
  BY ThreadFacts
<1>1. /\ ThreadOK(r, load[t], kern, memlock_bumped) /\ load[t] \in LoadRec
  BY <1>0, ThreadFacts
<1>2. Place(s) = Place(r) /\ Place(r) = r.then
  BY <1>0, PlaceFacts
<1>3. s.pc \notin {"failed", "done", "trivial_sys", "check"}
  BY DEF SubCalls
<1>4. CallsOK(s) /\ BumpOK(s, kern, memlock_bumped) /\ FeatureOK(s, kern)
  BY <1>0, <1>1, <1>2, <1>3 DEF CallsOK, BumpOK, FeatureOK, ThreadOK
<1>5. ThreadOK(s, load[t], kern, memlock_bumped)
  BY <1>0, <1>1, <1>2, <1>3, <1>4, QuietStep
<1> QED
  BY Zenon, <1>0, <1>5, LocalFrame

LEMMA FeatReadInv ==
  ASSUME LoadInv, NEW t \in Threads, UNCHANGED <<kern, load>>, FeatRead(t)
  PROVE  LoadInv'
<1>0. PICK r \in ThreadRec : r = th[t]
  BY ThreadFacts
<1>1. PICK p \in {"probe", "answer"} : p = IF cache[th[t].feat] = "unknown" THEN "probe" ELSE "answer"
  OBVIOUS
<1>2. PICK s : s = [r EXCEPT !.pc = p]
  BY Zenon
<1>3. p \in PCs /\ {"feat", "probe", "answer"} \subseteq SubCalls \ {"setrlimit"}
  BY DEF PCs, SubCalls
<1>4. /\ s \in ThreadRec /\ s.pc = p /\ SameLoad(r, s)
      /\ s.then = r.then /\ s.feat = r.feat /\ s.name = r.name
  BY <1>2, <1>3, GotoFacts
<1>5. th' = [th EXCEPT ![t] = s] /\ th[t].pc = "feat" /\ UNCHANGED Shared
  BY <1>0, <1>1, <1>2 DEF FeatRead, Goto, Set, At
<1> QED
  BY Zenon, <1>0, <1>3, <1>4, <1>5, InsideInv

LEMMA FeatProbeInv ==
  ASSUME LoadInv, NEW t \in Threads, UNCHANGED <<kern, load>>, FeatProbe(t)
  PROVE  LoadInv'
<1>0. PICK r \in ThreadRec : r = th[t]
  BY ThreadFacts
<1>1. PICK yes \in {kern[th[t].feat] /\ ~LimitTooLow, FALSE} :
        th' = [th EXCEPT ![t] = [th[t] EXCEPT !.pc = "write", !.probed = yes]]
  BY Zenon DEF FeatProbe, Set
<1>2. PICK s : s = [r EXCEPT !.pc = "write", !.probed = yes]
  OBVIOUS
<1>3. yes \in BOOLEAN /\ (yes => kern[r.feat])
  BY Zenon, <1>0, <1>1
<1>4. {"write", "probe"} \subseteq SubCalls \ {"setrlimit"} /\ "write" \in PCs
  BY DEF SubCalls, PCs
<1>5. /\ s \in ThreadRec /\ s.pc = "write" /\ SameLoad(r, s) /\ s.probed = yes
      /\ s.then = r.then /\ s.feat = r.feat /\ s.name = r.name
  BY Zenon, <1>2, <1>3, <1>4 DEF ThreadRec, SameLoad
<1>6. th' = [th EXCEPT ![t] = s] /\ th[t].pc = "probe" /\ UNCHANGED Shared
  BY <1>0, <1>1, <1>2 DEF FeatProbe, At
<1> QED
  BY Zenon, <1>0, <1>3, <1>4, <1>5, <1>6, InsideInv

LEMMA FeatWriteInv ==
  ASSUME LoadInv, NEW t \in Threads, UNCHANGED <<kern, load>>, FeatWrite(t)
  PROVE  LoadInv'
<1>0. PICK r \in ThreadRec : r = th[t]
  BY ThreadFacts
<1>1. /\ ThreadOK(r, load[t], kern, memlock_bumped) /\ load[t] \in LoadRec
      /\ TypeOK /\ SharedOK /\ r.pc = "write" /\ r.feat \in {"name", "memcg"}
  BY <1>0, ThreadFacts, FieldFacts DEF FeatWrite, At
<1>2. PICK w \in {"supported", "missing"} :
        w = IF th[t].probed THEN "supported" ELSE "missing"
  OBVIOUS
<1>3. cache' = [cache EXCEPT ![r.feat] = w] /\ (w = "supported" => kern[r.feat])
      /\ UNCHANGED <<memlock_bumped, memlock_rlim, limit>>
  BY <1>0, <1>1, <1>2 DEF FeatWrite, ThreadOK, FeatureOK
<1>4. PICK s : s = [r EXCEPT !.pc = "answer", !.probed = FALSE]
  OBVIOUS
<1>5. /\ s \in ThreadRec /\ s.pc = "answer" /\ SameLoad(r, s)
      /\ s.then = r.then /\ s.feat = r.feat /\ s.name = r.name
  BY Zenon, <1>4 DEF ThreadRec, SameLoad, PCs, SubCalls
<1>6. th' = [th EXCEPT ![t] = s]
  BY <1>0, <1>4 DEF FeatWrite, Set
<1>7. Place(s) = Place(r) /\ {"write", "answer"} \subseteq SubCalls
  BY <1>1, <1>5, PlaceFacts DEF SubCalls
<1>8. CallsOK(s) /\ BumpOK(s, kern, memlock_bumped') /\ FeatureOK(s, kern)
  BY <1>1, <1>3, <1>5, <1>7 DEF CallsOK, BumpOK, FeatureOK, ThreadOK
<1>9. ThreadOK(s, load[t], kern, memlock_bumped')
  BY <1>1, <1>5, <1>7, <1>8, QuietStep
<1>10. cache' \in [{"name", "memcg"} -> {"unknown", "supported", "missing"}]
  BY <1>1, <1>3 DEF TypeOK
<1>11. SharedOK'
  <2>1. ASSUME NEW f \in {"name", "memcg"}, cache'[f] = "supported" PROVE kern[f]
    <3>1. CASE f = r.feat
      BY <3>1, <2>1, <1>1, <1>3 DEF TypeOK
    <3>2. CASE f # r.feat
      BY <3>2, <2>1, <1>1, <1>3 DEF TypeOK, SharedOK
    <3> QED
      BY <3>1, <3>2
  <2>2. \A u \in Threads : At(u, "setrlimit") => At(u, "setrlimit")'
    BY <1>0, <1>1, <1>6 DEF TypeOK, At
  <2> QED
    BY <2>1, <2>2, <1>1, <1>3 DEF SharedOK
<1> QED
  BY Zenon, <1>1, <1>3, <1>5, <1>6, <1>9, <1>10, <1>11, StepFrame DEF TypeOK

(* Back from a sub-call, to the place it was called for.                   *)
LEMMA BackInv ==
  ASSUME NEW r \in ThreadRec, NEW s \in ThreadRec, NEW l \in LoadRec, NEW k, NEW b,
         ThreadOK(r, l, k, b), SameLoad(r, s), r.pc \in SubCalls, s.pc = r.then,
         s.name => k.name, r.feat = "memcg" => b \/ k.memcg
  PROVE  ThreadOK(s, l, k, b)
<1>1. r.then \in {"trivial", "trivial_sys", "check", "setup", "sys", "again"}
  BY DEF ThreadOK, CallsOK
<1>2. Place(r) = r.then /\ Place(s) = r.then /\ s.pc \notin SubCalls
  BY <1>1, PlaceFacts
<1>3. s.pc \notin {"failed", "done", "write", "setrlimit"}
  BY <1>1
<1>4. CallsOK(s) /\ FeatureOK(s, k)
  BY <1>2, <1>3 DEF CallsOK, FeatureOK
<1>5. BumpOK(s, k, b)
  <2>1. CASE r.feat = "memcg"
    BY <2>1 DEF BumpOK
  <2>2. CASE r.feat # "memcg"
    <3>1. r.then \in {"setup", "sys", "again"}
      BY <2>2 DEF ThreadOK, CallsOK
    <3> QED
      BY <3>1, <1>2 DEF BumpOK, ThreadOK
  <2> QED
    BY <2>1, <2>2
<1> QED
  BY <1>2, <1>3, <1>4, <1>5, QuietStep

LEMMA FeatAnswerInv ==
  ASSUME LoadInv, NEW t \in Threads, UNCHANGED <<kern, load>>, FeatAnswer(t)
  PROVE  LoadInv'
<1>0. PICK r \in ThreadRec : r = th[t]
  BY ThreadFacts
<1>1. /\ ThreadOK(r, load[t], kern, memlock_bumped) /\ load[t] \in LoadRec
      /\ TypeOK /\ SharedOK /\ r.pc = "answer" /\ r.feat \in {"name", "memcg"}
      /\ "answer" \in SubCalls \ {"setrlimit"} /\ "bump" \in SubCalls \ {"setrlimit"}
      /\ "bump" \in PCs /\ UNCHANGED Shared
  BY <1>0, ThreadFacts, FieldFacts DEF FeatAnswer, At, SubCalls, PCs
<1>2. r.then \in PCs /\ (r.name => kern.name)
  BY <1>1 DEF ThreadOK, CallsOK, FeatureOK, PCs
<1>3. PICK yes \in BOOLEAN : yes = (cache[r.feat] = "supported")
  BY Zenon
<1>4. yes => kern[r.feat]
  BY Zenon, <1>1, <1>3 DEF SharedOK
<1>5. PICK r1 : r1 = [r EXCEPT !.pc = r.then]
  BY Zenon
<1>6. r1 \in ThreadRec /\ r1.pc = r.then /\ SameLoad(r, r1) /\ r1.name = r.name
  BY <1>2, <1>5, GotoFacts
<1>7. CASE r.feat = "memcg" /\ yes /\ th' = [th EXCEPT ![t] = r1]
  <2>1. kern.memcg
    BY <1>4, <1>7
  <2>2. ThreadOK(r1, load[t], kern, memlock_bumped)
    BY <2>1, <1>1, <1>2, <1>6, BackInv
  <2> QED
    BY Zenon, <2>2, <1>0, <1>1, <1>6, <1>7, LocalFrame
<1>8. CASE r.feat = "memcg" /\ th' = [th EXCEPT ![t] = [r1 EXCEPT !.pc = "bump"]]
  <2>1. PICK s : s = [r EXCEPT !.pc = "bump"]
    BY Zenon
  <2>2. /\ s \in ThreadRec /\ s.pc = "bump" /\ SameLoad(r, s)
        /\ s.then = r.then /\ s.feat = r.feat /\ s.name = r.name
    BY <2>1, <1>1, GotoFacts
  <2>3. s = [r1 EXCEPT !.pc = "bump"]
    BY Zenon, <2>1, <1>5 DEF ThreadRec
  <2> QED
    BY Zenon, <2>2, <2>3, <1>0, <1>1, <1>8, InsideInv
<1>9. CASE r.feat = "name" /\ r.then = "setup"
           /\ th' = [th EXCEPT ![t] = [r1 EXCEPT !.prog_name = yes]]
  <2>1. PICK s : s = [r1 EXCEPT !.prog_name = yes]
    BY Zenon
  <2>2. /\ s \in ThreadRec /\ s.pc = r.then /\ SameLoad(r, s) /\ s.name = r.name
    BY Zenon, <2>1, <1>3, <1>6 DEF ThreadRec, SameLoad
  <2>3. ThreadOK(s, load[t], kern, memlock_bumped)
    BY <2>2, <1>1, <1>2, <1>9, BackInv
  <2> QED
    BY Zenon, <2>1, <2>2, <2>3, <1>0, <1>1, <1>9, LocalFrame
<1>10. CASE r.feat = "name" /\ th' = [th EXCEPT ![t] = [r1 EXCEPT !.name = yes]]
  <2>1. PICK s : s = [r1 EXCEPT !.name = yes]
    BY Zenon
  <2>2. /\ s \in ThreadRec /\ s.pc = r.then /\ SameLoad(r, s) /\ s.name = yes
    BY Zenon, <2>1, <1>3, <1>6 DEF ThreadRec, SameLoad
  <2>3. s.name => kern.name
    BY <2>2, <1>4, <1>10
  <2>4. ThreadOK(s, load[t], kern, memlock_bumped)
    BY <2>2, <2>3, <1>1, <1>10, BackInv
  <2> QED
    BY Zenon, <2>1, <2>2, <2>4, <1>0, <1>1, <1>10, LocalFrame
<1> QED
  <2>1. th' = [th EXCEPT ![t] =
                 IF r.feat = "memcg" THEN IF yes THEN r1 ELSE [r1 EXCEPT !.pc = "bump"]
                 ELSE IF r1.pc = "setup" THEN [r1 EXCEPT !.prog_name = yes]
                 ELSE [r1 EXCEPT !.name = yes]]
    BY Zenon, <1>0, <1>3, <1>5 DEF FeatAnswer, Set
  <2> QED
    BY Zenon, <2>1, <1>1, <1>6, <1>7, <1>8, <1>9, <1>10

LEMMA SetBumpedInv ==
  ASSUME LoadInv, NEW t \in Threads, UNCHANGED <<kern, load>>, SetBumped(t)
  PROVE  LoadInv'
<1>0. PICK r \in ThreadRec : r = th[t]
  BY ThreadFacts
<1>1. /\ ThreadOK(r, load[t], kern, memlock_bumped) /\ load[t] \in LoadRec
      /\ TypeOK /\ SharedOK /\ r.pc = "bump" /\ "setrlimit" \in PCs
      /\ {"bump", "setrlimit"} \subseteq SubCalls
      /\ memlock_bumped' = TRUE /\ UNCHANGED <<cache, memlock_rlim, limit>>
  BY <1>0, ThreadFacts DEF SetBumped, At, PCs, SubCalls
<1>2. PICK s : s = [r EXCEPT !.pc = "setrlimit"]
  BY Zenon
<1>3. /\ s \in ThreadRec /\ s.pc = "setrlimit" /\ SameLoad(r, s)
      /\ s.then = r.then /\ s.feat = r.feat /\ s.name = r.name
  BY <1>1, <1>2, GotoFacts
<1>4. th' = [th EXCEPT ![t] = s]
  BY <1>0, <1>2 DEF SetBumped, Goto, Set
<1>5. Place(s) = Place(r)
  BY <1>1, <1>3, PlaceFacts
<1>6. CallsOK(s) /\ BumpOK(s, kern, memlock_bumped') /\ FeatureOK(s, kern)
  BY <1>1, <1>3 DEF CallsOK, BumpOK, FeatureOK, ThreadOK
<1>7. ThreadOK(s, load[t], kern, memlock_bumped')
  BY Zenon, <1>1, <1>3, <1>5, <1>6, QuietStep
<1>8. At(t, "setrlimit")'
  BY <1>1, <1>3, <1>4 DEF TypeOK, At
<1>9. SharedOK'
  BY <1>1, <1>8 DEF SharedOK
<1> QED
  BY Zenon, <1>1, <1>3, <1>4, <1>7, <1>9, StepFrame DEF TypeOK

LEMMA SetrlimitInv ==
  ASSUME LoadInv, NEW t \in Threads, UNCHANGED <<kern, load>>, Setrlimit(t)
  PROVE  LoadInv'
<1>0. PICK r \in ThreadRec : r = th[t]
  BY ThreadFacts
<1>1. /\ ThreadOK(r, load[t], kern, memlock_bumped) /\ load[t] \in LoadRec
      /\ TypeOK /\ SharedOK /\ r.pc = "setrlimit" /\ "setrlimit" \in SubCalls
      /\ UNCHANGED <<cache, memlock_bumped, memlock_rlim>>
  BY <1>0, ThreadFacts DEF Setrlimit, At, SubCalls
<1>2. limit' \in {"high", "denied"}
  BY <1>1 DEF Setrlimit, TypeOK
<1>3. r.then \in PCs /\ (r.name => kern.name) /\ (memlock_bumped \/ kern.memcg)
  BY <1>1 DEF ThreadOK, CallsOK, FeatureOK, BumpOK, PCs
<1>4. PICK s : s = [r EXCEPT !.pc = r.then]
  BY Zenon
<1>5. /\ s \in ThreadRec /\ s.pc = r.then /\ SameLoad(r, s) /\ s.name = r.name
  BY <1>3, <1>4, GotoFacts
<1>6. th' = [th EXCEPT ![t] = s]
  BY <1>0, <1>4 DEF Setrlimit, Goto, Set
<1>7. ThreadOK(s, load[t], kern, memlock_bumped')
  BY <1>1, <1>3, <1>5, BackInv
<1>8. SharedOK'
  BY <1>1, <1>2 DEF SharedOK
<1> QED
  BY Zenon, <1>1, <1>2, <1>5, <1>6, <1>7, <1>8, StepFrame DEF TypeOK

LEMMA SetMemlockInv ==
  ASSUME LoadInv, libbpf_set_memlock_rlim
  PROVE  LoadInv'
<1>1. UNCHANGED <<kern, load, cache, memlock_bumped, limit, th>> /\ memlock_rlim' = "none"
  BY DEF libbpf_set_memlock_rlim
<1>2. TypeOK'
  BY <1>1 DEF LoadInv, TypeOK
<1>3. SharedOK'
  BY <1>1 DEF LoadInv, SharedOK, At
<1>4. \A u \in Threads : ThreadOK(th'[u], load'[u], kern', memlock_bumped')
  BY <1>1 DEF LoadInv
<1> QED
  BY <1>2, <1>3, <1>4 DEF LoadInv

---------------------------------------------------------------------------
(* What precedes the load.                                                 *)

(* Who has come past bump_rlimit_memlock() and still finds the limit too   *)
(* low is not the first to: raising it was tried, or is about to be.       *)
LEMMA LimitTried ==
  ASSUME LoadInv, NEW t \in Threads, th[t].pc \in {"trivial_sys", "sys"}, LimitTooLow
  PROVE  ~Unraised
<1>1. PICK r \in ThreadRec : r = th[t]
  BY ThreadFacts
<1>2. BumpOK(r, kern, memlock_bumped) /\ SharedOK /\ r.pc \in {"trivial_sys", "sys"}
  BY <1>1, ThreadFacts DEF ThreadOK
<1>3. r.pc = "sys" => Place(r) = "sys"
  BY PlaceFacts
<1>4. memlock_bumped
  BY <1>2, <1>3 DEF BumpOK, LimitTooLow
<1> QED
  BY <1>2, <1>4 DEF SharedOK, Unraised

LEMMA StartInv ==
  ASSUME LoadInv, NEW t \in Threads, UNCHANGED <<kern, load>>, Start(t)
  PROVE  LoadInv'
<1>0. PICK r \in ThreadRec : r = th[t]
  BY ThreadFacts
<1>1. /\ ThreadOK(r, load[t], kern, memlock_bumped) /\ load[t] \in LoadRec
      /\ r.pc = "start" /\ At(t, "start") /\ UNCHANGED Shared
  BY <1>0, ThreadFacts DEF Start, At
<1>2. CASE CallBump(t, "trivial")
  BY <1>1, <1>2, CallBumpInv DEF PCs
<1>3. CASE th' = [th EXCEPT ![t] = [th[t] EXCEPT !.pc = "setup", !.prog_name = load[t].how = "raw"]]
  <2>1. PICK s : s = [r EXCEPT !.pc = "setup", !.prog_name = (load[t].how = "raw")]
    OBVIOUS
  <2>2. s \in ThreadRec /\ s.pc = "setup" /\ SameLoad(r, s) /\ s.name = r.name
    BY ZenonT(30), <2>1 DEF ThreadRec, SameLoad, PCs
  <2>3. Place(s) = "setup" /\ Place(r) = "start" /\ "setup" \notin SubCalls
    BY <2>2, <1>1, PlaceFacts
  <2>4. CallsOK(s) /\ BumpOK(s, kern, memlock_bumped) /\ FeatureOK(s, kern)
    BY <2>2, <2>3, <1>1 DEF CallsOK, BumpOK, FeatureOK, ThreadOK
  <2>5. ThreadOK(s, load[t], kern, memlock_bumped)
    BY <2>2, <2>3, <2>4, <1>1, QuietStep
  <2> QED
    BY Zenon, <2>1, <2>2, <2>5, <1>0, <1>1, <1>3, LocalFrame
<1> QED
  BY <1>2, <1>3 DEF Start, Set

LEMMA TrivialInv ==
  ASSUME LoadInv, NEW t \in Threads, UNCHANGED <<kern, load>>, Trivial(t)
  PROVE  LoadInv'
BY CallBumpInv DEF Trivial, PCs

LEMMA TrivialFails ==
  ASSUME NEW r \in ThreadRec, NEW s \in ThreadRec, NEW l \in LoadRec, NEW k, NEW b,
         ThreadOK(r, l, k, b), r.pc = "trivial_sys", s.pc \in {"trivial", "done"},
         s.log_level = r.log_level, s.size = r.size, s.fixed = r.fixed, s.name = r.name,
         s.errno \in {"EPERM", "EAGAIN"}, s.why = r.why \cup {s.errno},
         l.verdict = "" => ~s.unraised
  PROVE  ThreadOK(s, l, k, b)
<1>1. Place(r) = "trivial_sys" /\ Place(s) = s.pc /\ s.pc \notin SubCalls
  BY Zenon, PlaceFacts
<1>2. CallsOK(s) /\ BumpOK(s, k, b) /\ FeatureOK(s, k)
  BY Zenon, <1>1 DEF CallsOK, BumpOK, FeatureOK, ThreadOK
<1>3. SizeOK(s, l)
  BY Zenon, <1>1, SizeFacts, NumberFacts DEF SizeOK, ThreadOK
<1>4. ErrnoOK(s, l, k) /\ Explained(s, l, k)
  BY Zenon, <1>1 DEF ErrnoOK, Explained, Passing
<1>5. LastTryOK(s, l) /\ GoodOK(s, l)
  BY Zenon, <1>1 DEF LastTryOK, GoodOK, ThreadOK
<1> QED
  BY Zenon, <1>2, <1>3, <1>4, <1>5 DEF ThreadOK

LEMMA TrivialSysInv ==
  ASSUME LoadInv, NEW t \in Threads, UNCHANGED <<kern, load>>, TrivialSys(t)
  PROVE  LoadInv'
<1>0. PICK r \in ThreadRec : r = th[t]
  BY ThreadFacts
<1>1. /\ ThreadOK(r, load[t], kern, memlock_bumped) /\ load[t] \in LoadRec
      /\ r.pc = "trivial_sys" /\ UNCHANGED Shared
  BY Zenon, <1>0, ThreadFacts DEF TrivialSys, At
<1>2. PICK e \in {IF LimitTooLow THEN "EPERM" ELSE "", "EAGAIN"} :
        IF e = "" THEN AskFeature(t, "name", "setup")
        ELSE Set(t, [th[t] EXCEPT
                        !.pc = IF th[t].tries = 0 THEN "trivial" ELSE "done",
                        !.tries = 1, !.errno = e, !.why = @ \cup {e},
                        !.unraised = @ \/ (e = "EPERM" /\ Unraised)])
  BY Zenon DEF TrivialSys
<1>3. CASE e = ""
  <2>1. PICK s : s = [r EXCEPT !.pc = "feat", !.feat = "name", !.then = "setup"]
    BY Zenon
  <2>2. /\ s \in ThreadRec /\ s.pc = "feat" /\ SameLoad(r, s)
        /\ s.then = "setup" /\ s.feat = "name" /\ s.name = r.name
    BY Zenon, <2>1 DEF ThreadRec, SameLoad, PCs, SubCalls
  <2>3. Place(s) = "setup" /\ Place(r) = "trivial_sys"
    BY Zenon, <2>2, <1>1, PlaceFacts DEF SubCalls
  <2>4. CallsOK(s) /\ BumpOK(s, kern, memlock_bumped) /\ FeatureOK(s, kern)
    BY Zenon, <2>2, <2>3, <1>1 DEF CallsOK, BumpOK, FeatureOK, ThreadOK
  <2>5. ThreadOK(s, load[t], kern, memlock_bumped)
    BY Zenon, <2>2, <2>3, <2>4, <1>1, QuietStep
  <2>6. th' = [th EXCEPT ![t] = s]
    BY Zenon, <2>1, <1>0, <1>2, <1>3 DEF AskFeature, Set
  <2> QED
    BY Zenon, <2>2, <2>5, <2>6, <1>0, <1>1, LocalFrame
<1>4. CASE e # ""
  <2>1. PICK p \in {"trivial", "done"} : p = IF th[t].tries = 0 THEN "trivial" ELSE "done"
    BY Zenon
  <2>2. PICK v \in BOOLEAN : v = (r.unraised \/ (e = "EPERM" /\ Unraised))
    BY Zenon
  <2>3. PICK s : s = [r EXCEPT !.pc = p, !.tries = 1, !.errno = e, !.why = r.why \cup {e},
                               !.unraised = v]
    BY Zenon
  <2>4. th' = [th EXCEPT ![t] = s]
    BY Zenon, <2>1, <2>2, <2>3, <1>0, <1>2, <1>4 DEF Set
  <2>5. e \in {"EPERM", "EAGAIN"} /\ (e = "EPERM" => LimitTooLow)
    BY Zenon, <1>2, <1>4
  <2>6. /\ s \in ThreadRec /\ s.pc = p /\ s.errno = e /\ s.why = r.why \cup {e}
        /\ s.log_level = r.log_level /\ s.size = r.size /\ s.fixed = r.fixed
        /\ s.name = r.name /\ s.unraised = v
    BY ZenonT(30), <2>3, <2>5, ErrnoFacts DEF ThreadRec, PCs
  <2>7. e = "EPERM" => ~Unraised
    BY <2>5, <1>0, <1>1, LimitTried
  <2>8. load[t].verdict = "" => ~s.unraised
    BY Zenon, <2>2, <2>6, <2>7, <1>1 DEF ThreadOK, GoodOK
  <2>9. ThreadOK(s, load[t], kern, memlock_bumped)
    BY Zenon, <2>5, <2>6, <2>8, <1>1, TrivialFails
  <2> QED
    BY Zenon, <2>4, <2>6, <2>9, <1>0, <1>1, LocalFrame
<1> QED
  BY Zenon, <1>3, <1>4

---------------------------------------------------------------------------
(* The load.                                                               *)

LEMMA BufferChosen ==
  ASSUME NEW r \in ThreadRec, NEW s \in ThreadRec, NEW l \in LoadRec, NEW k, NEW b,
         ThreadOK(r, l, k, b), r.pc = "setup", s.pc = "enter", s.name = FALSE,
         s.log_level = r.log_level, s.errno = r.errno, s.why = r.why,
         s.unraised = r.unraised,
         OwnBuffer(l) => s.size <= UINT_MAX /\ (s.log_level = 0 => s.size = 0),
         l.how = "raw" /\ l.custom # -1 => s.size = l.custom
  PROVE  ThreadOK(s, l, k, b)
<1>1. Place(r) = "setup" /\ Place(s) = "enter" /\ "enter" \notin SubCalls
  BY PlaceFacts
<1>2. CallsOK(s) /\ BumpOK(s, k, b) /\ FeatureOK(s, k)
  BY <1>1 DEF CallsOK, BumpOK, FeatureOK
<1>3. SizeOK(s, l)
  BY <1>1 DEF SizeOK
<1>4. ErrnoOK(s, l, k) /\ Explained(s, l, k)
  BY <1>1 DEF ErrnoOK, Explained
<1>5. LastTryOK(s, l) /\ GoodOK(s, l)
  BY Zenon, <1>1 DEF LastTryOK, GoodOK, ThreadOK
<1> QED
  BY <1>2, <1>3, <1>4, <1>5 DEF ThreadOK

(* A load that is done; whatever it was, it keeps its buffer and history.  *)
LEMMA LoadDone ==
  ASSUME NEW r \in ThreadRec, NEW s \in ThreadRec, NEW l \in LoadRec, NEW k, NEW b,
         ThreadOK(r, l, k, b), s.pc = "done", s.name = FALSE,
         s.log_level = r.log_level, s.size = r.size, s.why = r.why,
         s.unraised = r.unraised,
         l.how = "raw" => s.fixed = r.fixed,
         Explained(s, l, k),
         s.errno = "" \/ r.log_level > 0 \/ Place(r) = "again"
  PROVE  ThreadOK(s, l, k, b)
<1>1. Place(s) = "done" /\ "done" \notin SubCalls
  BY Zenon, PlaceFacts
<1>2. CallsOK(s) /\ BumpOK(s, k, b) /\ FeatureOK(s, k)
  BY Zenon, <1>1 DEF CallsOK, BumpOK, FeatureOK
<1>3. SizeOK(s, l)
  BY Zenon, <1>1 DEF SizeOK, ThreadOK
<1>4. ErrnoOK(s, l, k)
  BY Zenon, <1>1 DEF ErrnoOK
<1>5. LastTryOK(s, l)
  BY Zenon, <1>1 DEF LastTryOK, ThreadOK
<1>6. GoodOK(s, l)
  <2>1. r.log_level > 0 => r.log_level # 0
    BY Zenon, NumberFacts
  <2> QED
    BY Zenon, <2>1, <1>1 DEF GoodOK, ThreadOK
<1> QED
  BY Zenon, <1>2, <1>3, <1>4, <1>5, <1>6 DEF ThreadOK

LEMMA GrownFacts ==
  ASSUME NEW t \in Threads, NEW r \in ThreadRec, r = th[t], 2 * r.size <= UINT_MAX
  PROVE  GrownSize(t) \in Nat /\ GrownSize(t) <= UINT_MAX
<1>1. 2 * r.size \in Nat /\ (2 * r.size) % U32 \in Nat /\ (2 * r.size) % U32 <= UINT_MAX
  <2>1. 2 * r.size \in Nat
    BY NumberFacts
  <2> QED
    BY <2>1, SizeFacts
<1>2. PICK w \in Nat : /\ w <= UINT_MAX
                       /\ w = IF load[t].how = "btf" THEN (2 * th[t].size) % U32
                              ELSE 2 * th[t].size
  BY <1>1
<1>3. GrownSize(t) = IF w > LogBufSize THEN w ELSE LogBufSize
  BY <1>2 DEF GrownSize
<1> QED
  BY <1>2, <1>3, SizeFacts

LEMMA SetupInv ==
  ASSUME LoadInv, NEW t \in Threads, UNCHANGED <<kern, load>>, Setup(t)
  PROVE  LoadInv'
<1>0. PICK r \in ThreadRec : r = th[t]
  BY ThreadFacts
<1>1. /\ ThreadOK(r, load[t], kern, memlock_bumped) /\ load[t] \in LoadRec
      /\ r.pc = "setup" /\ UNCHANGED Shared /\ Place(r) = "setup"
  BY <1>0, ThreadFacts, PlaceFacts DEF Setup, At
<1>2. PICK r1 : r1 = [r EXCEPT !.pc = "enter", !.fixed = {}, !.name = FALSE]
  OBVIOUS
<1>3. /\ r1 \in ThreadRec /\ r1.pc = "enter" /\ r1.fixed = {} /\ r1.name = FALSE
      /\ r1.log_level = r.log_level /\ r1.size = r.size /\ r1.errno = r.errno
      /\ r1.why = r.why /\ r1.unraised = r.unraised
  BY Zenon, <1>2 DEF ThreadRec, PCs
<1>4. /\ OwnBuffer(load[t]) => 2 * r.size <= UINT_MAX /\ r.size <= UINT_MAX
                               /\ (r.log_level = 0 => r.size = 0)
      /\ load[t].custom \in Nat \cup {-1} /\ r.log_level \in Nat
  BY <1>1, NumberFacts DEF ThreadOK, SizeOK, LoadRec
<1>5. ASSUME NEW z \in Nat, th' = [th EXCEPT ![t] = [r1 EXCEPT !.size = z]],
             OwnBuffer(load[t]) => z <= UINT_MAX /\ (r.log_level = 0 => z = 0),
             load[t].how = "raw" /\ load[t].custom # -1 => z = load[t].custom
      PROVE  LoadInv'
  <2>1. PICK s : s = [r1 EXCEPT !.size = z]
    BY Zenon
  <2>2. /\ s \in ThreadRec /\ s.pc = "enter" /\ s.name = FALSE /\ s.size = z
        /\ s.log_level = r.log_level /\ s.errno = r.errno
        /\ s.why = r.why /\ s.unraised = r.unraised
    BY Zenon, <2>1, <1>3 DEF ThreadRec
  <2>3. ThreadOK(s, load[t], kern, memlock_bumped)
    BY Zenon, <2>2, <1>1, <1>5, BufferChosen
  <2> QED
    BY Zenon, <2>1, <2>2, <2>3, <1>0, <1>1, <1>5, LocalFrame
<1>6. CASE load[t].custom # -1 /\ (r1.log_level > 0 \/ load[t].how = "raw")
           /\ th' = [th EXCEPT ![t] = [r1 EXCEPT !.size = load[t].custom]]
  <2>1. load[t].custom \in Nat /\ ~OwnBuffer(load[t])
    BY <1>4, <1>6 DEF OwnBuffer
  <2> QED
    BY Zenon, <2>1, <1>5, <1>6
<1>7. CASE r1.log_level > 0 /\ OwnBuffer(load[t])
           /\ th' = [th EXCEPT ![t] = [r1 EXCEPT !.size = GrownSize(t)]]
  <2>1. GrownSize(t) \in Nat /\ GrownSize(t) <= UINT_MAX
    BY <1>0, <1>4, <1>7, GrownFacts
  <2>2. r.log_level # 0 /\ load[t].how # "raw"
    BY <1>3, <1>4, <1>7 DEF OwnBuffer
  <2> QED
    BY Zenon, <2>1, <2>2, <1>5, <1>7
<1>8. CASE /\ ~(load[t].custom # -1 /\ (r1.log_level > 0 \/ load[t].how = "raw"))
           /\ th' = [th EXCEPT ![t] = r1]
  <2>1. ThreadOK(r1, load[t], kern, memlock_bumped)
    BY Zenon, <1>1, <1>3, <1>4, <1>8, BufferChosen
  <2> QED
    BY Zenon, <2>1, <1>0, <1>1, <1>3, <1>8, LocalFrame
<1>9. CASE r1.log_level > 0 /\ OwnBuffer(load[t])
           /\ th' = [th EXCEPT ![t] = Done(r1, "ENOMEM")]
  <2>1. PICK s : s = Done(r1, "ENOMEM")
    OBVIOUS
  <2>2. /\ s \in ThreadRec /\ s.pc = "done" /\ s.errno = "ENOMEM" /\ s.name = FALSE
        /\ s.log_level = r.log_level /\ s.size = r.size
        /\ s.why = r.why /\ s.unraised = r.unraised
    <3>1. "ENOMEM" \in Errnos
      BY Zenon, ErrnoFacts
    <3> QED
      BY Zenon, <3>1, <2>1, <1>3 DEF Done, ThreadRec, PCs
  <2>3. Explained(s, load[t], kern)
    BY <2>2, <1>9 DEF Explained
  <2>4. load[t].how # "raw" /\ r.log_level > 0
    BY <1>3, <1>9 DEF OwnBuffer
  <2>5. ThreadOK(s, load[t], kern, memlock_bumped)
    BY Zenon, <2>2, <2>3, <2>4, <1>1, LoadDone
  <2> QED
    BY Zenon, <2>1, <2>2, <2>5, <1>0, <1>1, <1>9, LocalFrame
<1> QED
  BY <1>0, <1>2, <1>6, <1>7, <1>8, <1>9 DEF Setup, Set, Own

LEMMA EnterInv ==
  ASSUME LoadInv, NEW t \in Threads, UNCHANGED <<kern, load>>, Enter(t)
  PROVE  LoadInv'
BY CallBumpInv DEF Enter, PCs

(* bpf_prog_load() has looked at the buffer; next is where it goes on.     *)
LEMMA BufferChecked ==
  ASSUME NEW r \in ThreadRec, NEW s \in ThreadRec, NEW l \in LoadRec, NEW k \in KernelRec,
         NEW b, NEW bad \in BOOLEAN,
         ThreadOK(r, l, k, b), r.pc = "check",
         bad = (/\ l.how # "btf" /\ l.custom # -1 /\ (r.log_level > 0 \/ l.how = "raw")
                /\ r.size % U32 = 0),
         Place(s) = IF bad THEN "again" ELSE "sys",
         s.errno = IF bad THEN "EINVAL" ELSE r.errno,
         s.log_level = r.log_level, s.size = r.size, s.fixed = r.fixed,
         s.why = r.why, s.unraised = r.unraised, s.name = r.name,
         s.pc \in {"feat", "sys", "again"},
         s.pc = "feat" => s.feat = "name"
  PROVE  ThreadOK(s, l, k, b)
<1>1. Place(r) = "check" /\ r.pc \notin SubCalls
  BY PlaceFacts
<1>2. CallsOK(s)
  BY PlaceFacts DEF CallsOK
<1>3. BumpOK(s, k, b) /\ FeatureOK(s, k)
  BY DEF BumpOK, FeatureOK, ThreadOK
<1>4. SizeOK(s, l)
  BY SMTT(30), <1>1, SizeFacts, NumberFacts DEF SizeOK, ThreadOK
<1>5. ErrnoOK(s, l, k)
  <2>1. 0 \notin 1 .. k.max
    BY DEF KernelRec
  <2>2. bad => BadSize(s, k)
    BY Zenon, <2>1 DEF BadSize
  <2> QED
    BY <2>2 DEF ErrnoOK
<1>6. LastTryOK(s, l)
  BY <1>1 DEF LastTryOK, ThreadOK
<1>7. GoodOK(s, l)
  <2>1. l.how = "raw" /\ l.custom # -1 => r.size = l.custom
    BY <1>1 DEF ThreadOK, SizeOK
  <2>2. r.log_level = 0 => ~(r.log_level > 0)
    BY NumberFacts
  <2>3. bad /\ r.log_level = 0 => EmptyBuffer(l)
    BY Zenon, <2>1, <2>2 DEF EmptyBuffer
  <2> QED
    BY Zenon, <2>3, <1>1 DEF GoodOK, ThreadOK
<1>8. Explained(s, l, k)
  BY Zenon DEF Explained
<1> QED
  BY <1>2, <1>3, <1>4, <1>5, <1>6, <1>7, <1>8 DEF ThreadOK

LEMMA CheckInv ==
  ASSUME LoadInv, NEW t \in Threads, UNCHANGED <<kern, load>>, Check(t)
  PROVE  LoadInv'
<1>0. PICK r \in ThreadRec : r = th[t]
  BY ThreadFacts
<1>1. /\ ThreadOK(r, load[t], kern, memlock_bumped) /\ load[t] \in LoadRec
      /\ kern \in KernelRec /\ r.pc = "check" /\ UNCHANGED Shared
  BY <1>0, ThreadFacts DEF Check, At
<1>2. PICK bad \in BOOLEAN :
        bad = (/\ load[t].how # "btf"
               /\ load[t].custom # -1 /\ (r.log_level > 0 \/ load[t].how = "raw")
               /\ r.size % U32 = 0)
  BY Zenon
<1>3. PICK n \in {"again", "sys"} : n = IF bad THEN "again" ELSE "sys"
  OBVIOUS
<1>4. PICK e \in Errnos : e = IF bad THEN "EINVAL" ELSE r.errno
  BY Zenon, FieldFacts, ErrnoFacts
<1>5. PICK r1 : r1 = [r EXCEPT !.pc = n, !.tries = Attempts, !.errno = e]
  OBVIOUS
<1>6. /\ r1 \in ThreadRec /\ r1.pc = n /\ r1.errno = e /\ r1.name = r.name
      /\ r1.log_level = r.log_level /\ r1.size = r.size /\ r1.fixed = r.fixed
      /\ r1.why = r.why /\ r1.unraised = r.unraised
  BY Zenon, <1>5, LoadAssumption DEF ThreadRec, PCs
<1>7. PICK r2 : r2 = [r1 EXCEPT !.pc = "feat", !.feat = "name", !.then = n]
  OBVIOUS
<1>8. /\ r2 \in ThreadRec /\ r2.pc = "feat" /\ r2.then = n /\ r2.feat = "name"
      /\ r2.errno = e /\ r2.name = r.name
      /\ r2.log_level = r.log_level /\ r2.size = r.size /\ r2.fixed = r.fixed
      /\ r2.why = r.why /\ r2.unraised = r.unraised
  BY ZenonT(30), <1>6, <1>7 DEF ThreadRec, PCs, SubCalls
<1>9. th' = [th EXCEPT ![t] = IF r1.prog_name THEN r2 ELSE r1]
  BY <1>0, <1>2, <1>3, <1>4, <1>5, <1>7 DEF Check, Set, LogSize
<1>10. Place(r1) = n /\ Place(r2) = n
  BY SMTT(30), <1>3, <1>6, <1>8, PlaceFacts DEF SubCalls
<1>11. ThreadOK(r1, load[t], kern, memlock_bumped)
  BY Zenon, <1>1, <1>2, <1>3, <1>4, <1>6, <1>10, BufferChecked
<1>12. ThreadOK(r2, load[t], kern, memlock_bumped)
  BY Zenon, <1>1, <1>2, <1>3, <1>4, <1>8, <1>10, BufferChecked
<1> QED
  BY Zenon, <1>0, <1>1, <1>6, <1>8, <1>9, <1>11, <1>12, LocalFrame

(* What the kernel's answer e says, to a load l by r on a kernel k.        *)
Answer(e, r, l, k) ==
    \/ e \in {"EPERM", "EAGAIN"}
    \/ e = "EINVAL" /\ r.log_level > 0 /\ r.size % U32 \notin 1 .. k.max
    \/ e = "E2BIG" /\ ~(l.recs \subseteq r.fixed)
    \/ /\ e = "ENOSPC" /\ r.log_level > 0 /\ r.size % U32 < l.need
       /\ l.recs \subseteq r.fixed
    \/ /\ e = l.verdict /\ (r.log_level > 0 => r.size % U32 >= l.need)
       /\ l.recs \subseteq r.fixed

(* The kernel never sees a name it does not take.                          *)
LEMMA AnswerCases ==
  ASSUME NEW t \in Threads, NEW r \in ThreadRec, r = th[t], load[t] \in LoadRec,
         r.name => kern.name, NEW e \in Verdicts(t)
  PROVE  /\ Answer(e, r, load[t], kern) /\ e \in Errnos
         /\ e = "EPERM" => LimitTooLow \/ load[t].verdict = "EPERM"
<1>1. /\ load[t].verdict \in Errnos /\ load[t].need \in Nat
      /\ r.size % U32 \in Nat /\ r.log_level \in Nat
  BY NumberFacts, SizeFacts DEF LoadRec
<1>2. Unfixed(t) # {} <=> ~(load[t].recs \subseteq r.fixed)
  BY DEF Unfixed
<1>3. LogSize(t) = r.size % U32
  BY DEF LogSize
<1>4. e = "EAGAIN" \/ e = Verdict(t)
  BY DEF Verdicts
<1>5. CASE e = "EAGAIN"
  BY Zenon, <1>5, ErrnoFacts DEF Answer
<1>6. CASE e = Verdict(t)
  <2>1. CASE LimitTooLow
    BY Zenon, <2>1, <1>6, ErrnoFacts DEF Verdict, Answer
  <2>2. CASE ~LimitTooLow
    <3>1. \/ e = "EINVAL" /\ r.log_level > 0 /\ r.size % U32 \notin 1 .. kern.max
          \/ e = "E2BIG" /\ ~(load[t].recs \subseteq r.fixed)
          \/ /\ e = "ENOSPC" /\ r.log_level > 0 /\ r.size % U32 < load[t].need
             /\ load[t].recs \subseteq r.fixed
          \/ /\ e = load[t].verdict /\ ~(r.log_level > 0 /\ r.size % U32 < load[t].need)
             /\ load[t].recs \subseteq r.fixed
      BY SMTT(30), <2>2, <1>2, <1>3, <1>6 DEF Verdict
    <3> QED
      <4>1. e \in Errnos
        BY Zenon, <3>1, <1>1, ErrnoFacts
      <4>2. ~(r.log_level > 0 /\ r.size % U32 < load[t].need) =>
              (r.log_level > 0 => r.size % U32 >= load[t].need)
        BY <1>1
      <4>3. Answer(e, r, load[t], kern)
        BY <3>1, <4>2 DEF Answer
      <4>4. e = "EPERM" => load[t].verdict = "EPERM"
        BY <3>1
      <4> QED
        BY <4>1, <4>3, <4>4
  <2> QED
    BY <2>1, <2>2
<1> QED
  BY <1>4, <1>5, <1>6

LEMMA CallRefused ==
  ASSUME NEW r \in ThreadRec, NEW s \in ThreadRec, NEW l \in LoadRec, NEW k, NEW b,
         ThreadOK(r, l, k, b), r.pc = "sys", s.pc = "failed", s.errno # "",
         Answer(s.errno, r, l, k), s.why = r.why \cup ({s.errno} \cap {"EAGAIN", "EPERM"}),
         s.log_level = r.log_level, s.size = r.size, s.fixed = r.fixed, s.name = r.name,
         l.verdict = "" => ~s.unraised
  PROVE  ThreadOK(s, l, k, b)
<1>1. Place(r) = "sys" /\ Place(s) = "failed" /\ s.pc \notin SubCalls
  BY ZenonT(30), PlaceFacts
<1>2. CallsOK(s) /\ BumpOK(s, k, b) /\ FeatureOK(s, k)
  BY ZenonT(30), <1>1 DEF CallsOK, BumpOK, FeatureOK, ThreadOK
<1>3. SizeOK(s, l)
  BY Zenon, <1>1 DEF SizeOK, ThreadOK
<1>4. ErrnoOK(s, l, k)
  BY ZenonT(30), <1>1 DEF ErrnoOK, Answer, Passing, BadSize, NoSpace, ItsVerdict
<1>5. LastTryOK(s, l)
  BY ZenonT(30), <1>1 DEF LastTryOK, ThreadOK
<1>6. GoodOK(s, l)
  <2>1. l.verdict = "" /\ s.why = {} /\ r.log_level = 0 =>
          s.errno = "E2BIG" /\ ~(l.recs \subseteq r.fixed)
    <3>1. s.why = {} => s.errno \notin {"EAGAIN", "EPERM"}
      BY Zenon
    <3>2. r.log_level = 0 => ~(r.log_level > 0)
      BY Zenon, NumberFacts
    <3> QED
      BY Zenon, <3>1, <3>2 DEF Answer
  <2> QED
    BY ZenonT(30), <2>1, <1>1 DEF GoodOK, ThreadOK
<1>7. Explained(s, l, k)
  BY Zenon DEF Explained
<1> QED
  BY Zenon, <1>2, <1>3, <1>4, <1>5, <1>6, <1>7 DEF ThreadOK

LEMMA SysInv ==
  ASSUME LoadInv, NEW t \in Threads, UNCHANGED <<kern, load>>, Sys(t)
  PROVE  LoadInv'
<1>0. PICK r \in ThreadRec : r = th[t]
  BY ThreadFacts
<1>1. /\ ThreadOK(r, load[t], kern, memlock_bumped) /\ load[t] \in LoadRec
      /\ r.pc = "sys" /\ UNCHANGED Shared /\ (r.name => kern.name)
  BY Zenon, <1>0, ThreadFacts DEF Sys, At, ThreadOK, FeatureOK
<1>2. PICK e \in Verdicts(t) :
        th' = [th EXCEPT ![t] =
                 IF e = "" THEN Done(th[t], "")
                 ELSE IF e = "EAGAIN" /\ th[t].tries > 1
                   THEN [th[t] EXCEPT !.tries = @ - 1]
                 ELSE Refused(th[t], e)]
  BY Zenon DEF Sys, Set
<1>3. /\ Answer(e, r, load[t], kern) /\ e \in Errnos
      /\ e = "EPERM" => LimitTooLow \/ load[t].verdict = "EPERM"
  BY <1>0, <1>1, AnswerCases
<1>4. CASE e = "" /\ th' = [th EXCEPT ![t] = Done(r, "")]
  <2>1. PICK s : s = Done(r, "")
    BY Zenon
  <2>2. /\ s \in ThreadRec /\ s.pc = "done" /\ s.errno = "" /\ s.name = FALSE
        /\ s.log_level = r.log_level /\ s.size = r.size /\ s.fixed = r.fixed
        /\ s.why = r.why /\ s.unraised = r.unraised
    <3>1. "" \in Errnos
      BY Zenon, ErrnoFacts
    <3> QED
      BY Zenon, <3>1, <2>1 DEF Done, ThreadRec, PCs
  <2>3. Explained(s, load[t], kern)
    BY Zenon, <2>2 DEF Explained
  <2>4. ThreadOK(s, load[t], kern, memlock_bumped)
    BY Zenon, <2>2, <2>3, <1>1, LoadDone
  <2> QED
    BY Zenon, <2>1, <2>2, <2>4, <1>0, <1>1, <1>4, LocalFrame
<1>5. CASE r.tries > 1 /\ th' = [th EXCEPT ![t] = [r EXCEPT !.tries = r.tries - 1]]
  <2>1. PICK n \in Nat : n = r.tries - 1
    BY <1>5, NumberFacts
  <2>2. PICK s : s = [r EXCEPT !.tries = n]
    BY Zenon
  <2>3. /\ s \in ThreadRec /\ s.pc = "sys" /\ SameLoad(r, s) /\ s.name = r.name
    BY Zenon, <2>2, <1>1 DEF ThreadRec, SameLoad
  <2>4. Place(s) = "sys" /\ Place(r) = "sys" /\ "sys" \notin SubCalls
    BY <2>3, <1>1, PlaceFacts
  <2>5. CallsOK(s) /\ BumpOK(s, kern, memlock_bumped) /\ FeatureOK(s, kern)
    BY <2>3, <2>4, <1>1 DEF CallsOK, BumpOK, FeatureOK, ThreadOK
  <2>6. ThreadOK(s, load[t], kern, memlock_bumped)
    BY <2>3, <2>4, <2>5, <1>1, QuietStep
  <2> QED
    BY Zenon, <2>1, <2>2, <2>3, <2>6, <1>0, <1>1, <1>5, LocalFrame
<1>6. CASE e # "" /\ th' = [th EXCEPT ![t] = Refused(r, e)]
  <2>1. PICK v \in BOOLEAN : v = (r.unraised \/ (e = "EPERM" /\ Unraised))
    BY ZenonT(30)
  <2>2. PICK w : w = r.why \cup ({e} \cap {"EAGAIN", "EPERM"})
    OBVIOUS
  <2>3. w \in SUBSET {"EAGAIN", "EPERM", "nomem"}
    BY <2>2, <1>3, FieldFacts
  <2>4. PICK s : s = [r EXCEPT !.pc = "failed", !.errno = e, !.why = w, !.unraised = v]
    OBVIOUS
  <2>5. s = Refused(r, e)
    BY <2>1, <2>2, <2>4 DEF Refused
  <2>6. /\ s \in ThreadRec /\ s.pc = "failed" /\ s.errno = e /\ s.why = w
        /\ s.log_level = r.log_level /\ s.size = r.size /\ s.fixed = r.fixed
        /\ s.name = r.name /\ s.unraised = v
    BY Zenon, <2>3, <2>4, <1>3 DEF ThreadRec, PCs
  <2>7. e = "EPERM" /\ load[t].verdict = "" => ~Unraised
    BY Zenon, <1>0, <1>1, <1>3, LimitTried
  <2>8. load[t].verdict = "" => ~s.unraised
    BY ZenonT(30), <2>1, <2>6, <2>7, <1>1 DEF ThreadOK, GoodOK
  <2>9. ThreadOK(s, load[t], kern, memlock_bumped)
    BY ZenonT(30), <2>2, <2>6, <2>8, <1>1, <1>3, <1>6, CallRefused
  <2> QED
    BY Zenon, <2>5, <2>6, <2>9, <1>0, <1>1, <1>6, LocalFrame
<1> QED
  BY Zenon, <1>0, <1>2, <1>4, <1>5, <1>6

LEMMA RecordsFixed ==
  ASSUME NEW r \in ThreadRec, NEW s \in ThreadRec, NEW l \in LoadRec, NEW k, NEW b,
         ThreadOK(r, l, k, b), r.pc = "failed", s.pc = "sys", s.errno = r.errno,
         s.why = r.why, s.unraised = r.unraised,
         s.log_level = r.log_level, s.size = r.size, s.name = r.name,
         ~(l.how = "raw" /\ r.log_level # l.level)
  PROVE  ThreadOK(s, l, k, b)
<1>1. Place(r) = "failed" /\ Place(s) = "sys" /\ s.pc \notin SubCalls
  BY SMTT(30), PlaceFacts
<1>2. CallsOK(s) /\ BumpOK(s, k, b) /\ FeatureOK(s, k)
  BY <1>1 DEF CallsOK, BumpOK, FeatureOK, ThreadOK
<1>3. SizeOK(s, l)
  BY SMTT(30), <1>1 DEF SizeOK, ThreadOK
<1>4. ErrnoOK(s, l, k) /\ Explained(s, l, k)
  BY SMTT(30), <1>1 DEF ErrnoOK, Explained
<1>5. LastTryOK(s, l) /\ GoodOK(s, l)
  BY ZenonT(30), <1>1 DEF LastTryOK, GoodOK, ThreadOK
<1> QED
  BY SMTT(30), <1>2, <1>3, <1>4, <1>5 DEF ThreadOK

(* The caller is to decide: bpf_prog_load() has no more to try.            *)
LEMMA CallEnds ==
  ASSUME NEW r \in ThreadRec, NEW s \in ThreadRec, NEW l \in LoadRec, NEW k, NEW b,
         ThreadOK(r, l, k, b), r.pc = "failed", s.pc = "again", s.errno = r.errno,
         s.unraised = r.unraised, s.fixed = r.fixed,
         s.log_level = r.log_level, s.size = r.size, s.name = r.name,
         \/ r.errno = "E2BIG" /\ s.why = r.why \cup {"nomem"}
         \/ /\ s.why = r.why
            /\ ~(l.how = "raw" /\ r.log_level = 0 /\ r.size > 0)
            /\ r.errno = "E2BIG" /\ ~(l.recs \subseteq r.fixed) =>
                 l.how = "raw" /\ r.log_level # l.level
  PROVE  ThreadOK(s, l, k, b)
<1>1. Place(r) = "failed" /\ Place(s) = "again" /\ s.pc \notin SubCalls
  BY SMTT(30), PlaceFacts
<1>2. CallsOK(s) /\ BumpOK(s, k, b) /\ FeatureOK(s, k)
  BY SMTT(30), <1>1 DEF CallsOK, BumpOK, FeatureOK, ThreadOK
<1>3. SizeOK(s, l)
  BY SMTT(30), <1>1 DEF SizeOK, ThreadOK
<1>4. Explained(s, l, k) /\ LastTryOK(s, l)
  BY SMTT(30), <1>1 DEF Explained, LastTryOK, ThreadOK
<1>5. ErrnoOK(s, l, k)
  <2>1. CASE s.why = r.why \cup {"nomem"} /\ r.errno = "E2BIG"
    BY SMTT(30), <2>1, <1>1 DEF ErrnoOK
  <2>2. CASE /\ s.why = r.why
             /\ ~(l.how = "raw" /\ r.log_level = 0 /\ r.size > 0)
             /\ r.errno = "E2BIG" /\ ~(l.recs \subseteq r.fixed) =>
                  l.how = "raw" /\ r.log_level # l.level
    <3>1. l.how = "raw" /\ l.custom # -1 => r.log_level > 0
      BY SMTT(30), <2>2, <1>1, NumberFacts DEF ThreadOK, SizeOK
    <3>2. r.errno = "E2BIG" /\ ~(l.recs \subseteq r.fixed) => r.why # {}
      BY SMTT(30), <2>2 DEF ThreadOK, LastTryOK
    <3>3. \/ Passing(s) \/ BadSize(s, k) \/ NoSpace(s, l)
          \/ r.errno = "E2BIG" /\ ~(l.recs \subseteq r.fixed)
          \/ ItsVerdict(s, l)
      BY <2>2 DEF ThreadOK, ErrnoOK, Passing, BadSize, NoSpace, ItsVerdict
    <3> QED
      BY SMTT(30), <3>1, <3>2, <3>3, <2>2, <1>1 DEF ErrnoOK
  <2> QED
    BY <2>1, <2>2
<1>6. GoodOK(s, l)
  <2>1. l.verdict = "" => ~r.unraised
    BY Zenon DEF ThreadOK, GoodOK
  <2>2. ASSUME l.verdict = "", l.level = 0, ~EmptyBuffer(l), s.why = {} PROVE FALSE
    <3>1. s.why = r.why
      BY ZenonT(30), <2>2
    <3>2. r.log_level = 0 /\ r.errno = "E2BIG" /\ ~(l.recs \subseteq r.fixed)
      BY Zenon, <3>1, <2>2 DEF ThreadOK, GoodOK
    <3> QED
      BY Zenon, <3>1, <3>2, <2>2
  <2> QED
    BY Zenon, <2>1, <2>2 DEF GoodOK
<1> QED
  BY <1>2, <1>3, <1>4, <1>5, <1>6 DEF ThreadOK

(* Corrects(t), of the thread's record.                                    *)
LEMMA CorrectsFacts ==
  ASSUME NEW t \in Threads, NEW r, r = th[t]
  PROVE  Corrects(t) <=> /\ r.errno = "E2BIG" /\ ~(load[t].recs \subseteq r.fixed)
                         /\ ~(load[t].how = "raw" /\ r.log_level # load[t].level)
BY DEF Corrects, Unfixed, LastTry

LEMMA CorrectInv ==
  ASSUME LoadInv, NEW t \in Threads, UNCHANGED <<kern, load>>, Correct(t)
  PROVE  LoadInv'
<1>0. PICK r \in ThreadRec : r = th[t]
  BY ThreadFacts
<1>1. /\ ThreadOK(r, load[t], kern, memlock_bumped) /\ load[t] \in LoadRec
      /\ r.pc = "failed" /\ UNCHANGED Shared
  BY <1>0, ThreadFacts DEF Correct, At
<1>2. r.errno = "E2BIG" /\ ~(load[t].how = "raw" /\ r.log_level # load[t].level)
  BY <1>0, CorrectsFacts DEF Correct
<1>3. CASE th' = [th EXCEPT ![t] = [th[t] EXCEPT !.pc = "sys", !.tries = Attempts,
                                                 !.fixed = @ \cup {TooLong(t)}]]
  <2>1. PICK f \in SUBSET {"func", "line"} : f = r.fixed \cup {TooLong(t)}
    BY Zenon, FieldFacts DEF TooLong
  <2>2. PICK s : s = [r EXCEPT !.pc = "sys", !.tries = Attempts, !.fixed = f]
    OBVIOUS
  <2>3. /\ s \in ThreadRec /\ s.pc = "sys" /\ s.errno = r.errno /\ s.why = r.why
        /\ s.unraised = r.unraised
        /\ s.log_level = r.log_level /\ s.size = r.size /\ s.name = r.name
    BY Zenon, <2>2, LoadAssumption DEF ThreadRec, PCs
  <2>4. ThreadOK(s, load[t], kern, memlock_bumped)
    BY <2>3, <1>1, <1>2, RecordsFixed
  <2>5. th' = [th EXCEPT ![t] = s]
    BY <2>1, <2>2, <1>0, <1>3
  <2> QED
    BY Zenon, <2>3, <2>4, <2>5, <1>0, <1>1, LocalFrame
<1>4. CASE th' = [th EXCEPT ![t] = [th[t] EXCEPT !.pc = "again", !.why = @ \cup {"nomem"}]]
  <2>1. PICK s : s = [r EXCEPT !.pc = "again", !.why = r.why \cup {"nomem"}]
    OBVIOUS
  <2>2. /\ s \in ThreadRec /\ s.pc = "again" /\ s.errno = r.errno
        /\ s.why = r.why \cup {"nomem"} /\ s.unraised = r.unraised /\ s.fixed = r.fixed
        /\ s.log_level = r.log_level /\ s.size = r.size /\ s.name = r.name
    BY Zenon, <2>1 DEF ThreadRec, PCs
  <2>3. ThreadOK(s, load[t], kern, memlock_bumped)
    BY SMTT(30), <2>2, <1>1, <1>2, CallEnds
  <2> QED
    BY Zenon, <2>1, <2>2, <2>3, <1>0, <1>1, <1>4, LocalFrame
<1> QED
  BY <1>3, <1>4 DEF Correct, Set

(* bpf_prog_load() tries a last time, with a log.                          *)
LEMMA TriedWithLog ==
  ASSUME NEW r \in ThreadRec, NEW s \in ThreadRec, NEW l \in LoadRec, NEW k, NEW b,
         ThreadOK(r, l, k, b), r.pc = "failed", s.pc = "sys", s.errno = r.errno,
         s.unraised = r.unraised, s.fixed = r.fixed, s.why = r.why,
         s.size = r.size, s.name = r.name, s.log_level = 1,
         l.how = "raw", r.log_level = 0,
         r.errno = "E2BIG" /\ ~(l.recs \subseteq r.fixed) => r.log_level # l.level
  PROVE  ThreadOK(s, l, k, b)
<1>1. Place(r) = "failed" /\ Place(s) = "sys" /\ s.pc \notin SubCalls
  BY SMTT(30), PlaceFacts
<1>2. CallsOK(s) /\ BumpOK(s, k, b) /\ FeatureOK(s, k)
  BY SMTT(30), <1>1 DEF CallsOK, BumpOK, FeatureOK, ThreadOK
<1>3. SizeOK(s, l)
  BY SMTT(30), <1>1 DEF SizeOK, ThreadOK, OwnBuffer
<1>4. ErrnoOK(s, l, k) /\ Explained(s, l, k)
  BY SMTT(30), <1>1 DEF ErrnoOK, Explained
<1>5. ~(l.recs \subseteq r.fixed) => r.why # {}
  <2>1. ~(l.recs \subseteq r.fixed) => Passing(r) \/ r.errno = "E2BIG"
    BY SMTT(30) DEF ThreadOK, ErrnoOK
  <2> QED
    BY SMTT(30), <2>1 DEF Passing, ThreadOK, LastTryOK
<1>6. LastTryOK(s, l)
  BY SMTT(30), <1>1, <1>5 DEF LastTryOK
<1>7. GoodOK(s, l)
  BY Zenon, <1>1 DEF GoodOK, ThreadOK
<1> QED
  BY <1>2, <1>3, <1>4, <1>6, <1>7 DEF ThreadOK

LEMMA LogTooInv ==
  ASSUME LoadInv, NEW t \in Threads, UNCHANGED <<kern, load>>, LogToo(t)
  PROVE  LoadInv'
<1>0. PICK r \in ThreadRec : r = th[t]
  BY ThreadFacts
<1>1. /\ ThreadOK(r, load[t], kern, memlock_bumped) /\ load[t] \in LoadRec
      /\ r.pc = "failed" /\ UNCHANGED Shared
  BY <1>0, ThreadFacts DEF LogToo, At
<1>2. r.errno = "E2BIG" /\ ~(load[t].recs \subseteq r.fixed) =>
        load[t].how = "raw" /\ r.log_level # load[t].level
  BY <1>0, CorrectsFacts DEF LogToo
<1>3. CASE load[t].how = "raw" /\ r.log_level = 0 /\ r.size > 0
  <2>1. PICK s : s = [r EXCEPT !.pc = "sys", !.log_level = 1, !.tries = Attempts]
    OBVIOUS
  <2>2. /\ s \in ThreadRec /\ s.pc = "sys" /\ s.errno = r.errno
        /\ s.why = r.why /\ s.unraised = r.unraised /\ s.fixed = r.fixed
        /\ s.log_level = 1 /\ s.size = r.size /\ s.name = r.name
    BY Zenon, <2>1, LoadAssumption DEF ThreadRec, PCs
  <2>3. ThreadOK(s, load[t], kern, memlock_bumped)
    BY <2>2, <1>1, <1>2, <1>3, TriedWithLog
  <2>4. th' = [th EXCEPT ![t] = s]
    BY Zenon, <2>1, <1>0, <1>3 DEF LogToo, Set
  <2> QED
    BY Zenon, <2>2, <2>3, <2>4, <1>0, <1>1, LocalFrame
<1>4. CASE ~(load[t].how = "raw" /\ r.log_level = 0 /\ r.size > 0)
  <2>1. PICK s : s = [r EXCEPT !.pc = "again"]
    BY Zenon
  <2>2. "again" \in PCs
    BY DEF PCs
  <2>3. s \in ThreadRec /\ s.pc = "again" /\ SameLoad(r, s) /\ s.name = r.name
    BY <2>1, <2>2, GotoFacts
  <2>4. ThreadOK(s, load[t], kern, memlock_bumped)
    BY <2>3, <1>1, <1>2, <1>4, CallEnds DEF SameLoad
  <2>5. th' = [th EXCEPT ![t] = s]
    BY ZenonT(30), <2>1, <1>0, <1>4 DEF LogToo, Set
  <2> QED
    BY Zenon, <2>3, <2>4, <2>5, <1>0, <1>1, LocalFrame
<1> QED
  BY <1>3, <1>4

(* A retry: the first with a log, or one with a larger buffer.             *)
LEMMA Retried ==
  ASSUME NEW r \in ThreadRec, NEW s \in ThreadRec, NEW l \in LoadRec, NEW k, NEW b,
         ThreadOK(r, l, k, b), r.pc = "again", s.pc = "setup", s.errno = r.errno,
         s.unraised = r.unraised, s.fixed = r.fixed, s.why = r.why,
         s.size = r.size, s.name = r.name, l.how # "raw", s.log_level # 0,
         r.log_level = 0 \/ 2 * r.size <= UINT_MAX
  PROVE  ThreadOK(s, l, k, b)
<1>1. Place(r) = "again" /\ Place(s) = "setup" /\ s.pc \notin SubCalls
  BY PlaceFacts
<1>2. CallsOK(s) /\ BumpOK(s, k, b) /\ FeatureOK(s, k)
  BY <1>1 DEF CallsOK, BumpOK, FeatureOK, ThreadOK
<1>3. SizeOK(s, l)
  BY SMTT(30), <1>1, SizeFacts, NumberFacts DEF SizeOK, ThreadOK
<1>4. ErrnoOK(s, l, k) /\ Explained(s, l, k)
  BY <1>1 DEF ErrnoOK, Explained
<1>5. LastTryOK(s, l) /\ GoodOK(s, l)
  BY Zenon, <1>1 DEF LastTryOK, GoodOK, ThreadOK
<1> QED
  BY <1>2, <1>3, <1>4, <1>5 DEF ThreadOK

LEMMA GivenUp ==
  ASSUME NEW r \in ThreadRec, NEW l \in LoadRec, NEW k, NEW b, NEW s,
         ThreadOK(r, l, k, b), r.pc = "again", s = Done(r, r.errno),
         \/ l.how = "raw"
         \/ /\ r.log_level > 0
            /\ OwnBuffer(l) /\ r.errno = "ENOSPC" => 2 * r.size > UINT_MAX
  PROVE  s \in ThreadRec /\ ThreadOK(s, l, k, b)
<1>1. Place(r) = "again"
  BY PlaceFacts
<1>2. /\ s \in ThreadRec /\ s.pc = "done" /\ s.errno = r.errno /\ s.name = FALSE
      /\ s.log_level = r.log_level /\ s.size = r.size /\ s.fixed = r.fixed
      /\ s.why = r.why /\ s.unraised = r.unraised
  BY ZenonT(30), FieldFacts DEF Done, ThreadRec, PCs
<1>3. Explained(s, l, k)
  <2>1. \/ Passing(r) \/ BadSize(r, k) \/ NoSpace(r, l)
        \/ r.errno = "E2BIG" /\ r.why # {}
        \/ ItsVerdict(r, l) /\ (l.how = "raw" /\ l.custom # -1 => r.log_level > 0)
    BY ZenonT(30), <1>1 DEF ThreadOK, ErrnoOK
  <2>2. CASE Passing(r) \/ BadSize(r, k) \/ (r.errno = "E2BIG" /\ r.why # {})
    BY Zenon, <2>2, <1>2 DEF Explained, Passing, BadSize
  <2>3. CASE NoSpace(r, l)
    BY ZenonT(30), <2>3, <1>2 DEF Explained, NoSpace, OwnBuffer
  <2>4. CASE ItsVerdict(r, l) /\ (l.how = "raw" /\ l.custom # -1 => r.log_level > 0)
    BY Zenon, <2>4, <1>2 DEF Explained, ItsVerdict
  <2> QED
    BY SMTT(30), <2>1, <2>2, <2>3, <2>4
<1>4. ThreadOK(s, l, k, b)
  BY Zenon, <1>1, <1>2, <1>3, LoadDone
<1> QED
  BY <1>2, <1>4

LEMMA AgainInv ==
  ASSUME LoadInv, NEW t \in Threads, UNCHANGED <<kern, load>>, Again(t)
  PROVE  LoadInv'
<1>0. PICK r \in ThreadRec : r = th[t]
  BY ThreadFacts
<1>1. /\ ThreadOK(r, load[t], kern, memlock_bumped) /\ load[t] \in LoadRec
      /\ r.pc = "again" /\ UNCHANGED Shared /\ r.log_level \in Nat /\ r.size \in Nat
      /\ "setup" \in PCs
  BY <1>0, ThreadFacts, NumberFacts DEF Again, At, PCs
<1>2. \/ load[t].how = "raw" /\ th' = [th EXCEPT ![t] = Done(r, r.errno)]
      \/ /\ load[t].how # "raw" /\ r.log_level = 0
         /\ th' = [th EXCEPT ![t] = [r EXCEPT !.log_level = 1, !.pc = "setup"]]
      \/ /\ load[t].how # "raw" /\ r.log_level # 0 /\ r.size <= UINT_MAX \div 2
         /\ th' = [th EXCEPT ![t] = [r EXCEPT !.pc = "setup"]]
      \/ /\ load[t].how # "raw" /\ r.log_level # 0
         /\ ~(OwnBuffer(load[t]) /\ r.errno = "ENOSPC" /\ r.size <= UINT_MAX \div 2)
         /\ th' = [th EXCEPT ![t] = Done(r, r.errno)]
  BY Zenon, <1>0 DEF Again, Set, Own
<1>3. r.size <= UINT_MAX \div 2 <=> 2 * r.size <= UINT_MAX
  BY <1>1, UintFacts, HalfFacts
<1>4. ASSUME th' = [th EXCEPT ![t] = Done(r, r.errno)],
             \/ load[t].how = "raw"
             \/ /\ r.log_level > 0
                /\ OwnBuffer(load[t]) /\ r.errno = "ENOSPC" => 2 * r.size > UINT_MAX
      PROVE  LoadInv'
  <2>1. PICK s : s = Done(r, r.errno)
    OBVIOUS
  <2>2. s \in ThreadRec /\ ThreadOK(s, load[t], kern, memlock_bumped)
    BY <2>1, <1>1, <1>4, GivenUp
  <2> QED
    BY Zenon, <2>1, <2>2, <1>0, <1>1, <1>4, LocalFrame
<1>5. ASSUME NEW s \in ThreadRec, th' = [th EXCEPT ![t] = s], s.pc = "setup",
             s.errno = r.errno, s.unraised = r.unraised, s.fixed = r.fixed,
             s.why = r.why, s.size = r.size, s.name = r.name, s.log_level # 0,
             load[t].how # "raw", r.log_level = 0 \/ 2 * r.size <= UINT_MAX
      PROVE  LoadInv'
  <2>1. ThreadOK(s, load[t], kern, memlock_bumped)
    BY <1>1, <1>5, Retried
  <2> QED
    BY Zenon, <2>1, <1>0, <1>1, <1>5, LocalFrame
<1>6. CASE load[t].how = "raw" /\ th' = [th EXCEPT ![t] = Done(r, r.errno)]
  BY <1>4, <1>6
<1>7. CASE /\ load[t].how # "raw" /\ r.log_level = 0
           /\ th' = [th EXCEPT ![t] = [r EXCEPT !.log_level = 1, !.pc = "setup"]]
  <2>1. PICK s : s = [r EXCEPT !.log_level = 1, !.pc = "setup"]
    OBVIOUS
  <2>2. /\ s \in ThreadRec /\ s.pc = "setup" /\ s.errno = r.errno
        /\ s.unraised = r.unraised /\ s.fixed = r.fixed /\ s.why = r.why
        /\ s.size = r.size /\ s.name = r.name /\ s.log_level = 1
    BY Zenon, <2>1, <1>1 DEF ThreadRec
  <2>3. s.log_level # 0
    BY <2>2
  <2> QED
    BY Zenon, <2>1, <2>2, <2>3, <1>5, <1>7
<1>8. CASE /\ load[t].how # "raw" /\ r.log_level # 0 /\ r.size <= UINT_MAX \div 2
           /\ th' = [th EXCEPT ![t] = [r EXCEPT !.pc = "setup"]]
  <2>1. PICK s : s = [r EXCEPT !.pc = "setup"]
    BY Zenon
  <2>2. s \in ThreadRec /\ s.pc = "setup" /\ SameLoad(r, s) /\ s.name = r.name
    BY <2>1, <1>1, GotoFacts
  <2> QED
    BY Zenon, <2>1, <2>2, <1>3, <1>5, <1>8 DEF SameLoad
<1>9. CASE /\ load[t].how # "raw" /\ r.log_level # 0
           /\ ~(OwnBuffer(load[t]) /\ r.errno = "ENOSPC" /\ r.size <= UINT_MAX \div 2)
           /\ th' = [th EXCEPT ![t] = Done(r, r.errno)]
  <2>1. r.log_level > 0 /\ (OwnBuffer(load[t]) /\ r.errno = "ENOSPC" => 2 * r.size > UINT_MAX)
    BY <1>1, <1>3, <1>9, UintFacts
  <2> QED
    BY <2>1, <1>4, <1>9
<1> QED
  BY <1>2, <1>6, <1>7, <1>8, <1>9

---------------------------------------------------------------------------
(* The theorems.                                                           *)

LEMMA InitInv == Init => LoadInv
<1> SUFFICES ASSUME Init PROVE LoadInv
  OBVIOUS
<1>1. \A t \in Threads : load[t] \in LoadRec
  BY SMTT(30), LoadAssumption DEF Init
<1>2. ASSUME NEW t \in Threads
      PROVE  th[t] \in ThreadRec /\ ThreadOK(th[t], load[t], kern, memlock_bumped)
  <2>1. PICK l \in LoadRec : l = load[t]
    BY <1>1
  <2>2. PICK r : r = NewThread(l)
    OBVIOUS
  <2>3. /\ r.pc = "start" /\ r.name = FALSE /\ r.log_level = l.level /\ r.size = 0
        /\ r.why = {} /\ r.unraised = FALSE /\ r.errno = ""
    BY Zenon, <2>2 DEF NewThread
  <2>4. r \in ThreadRec
    <3>1. l.level \in Nat
      BY DEF LoadRec
    <3> QED
      BY Zenon, <2>2, <3>1, ErrnoFacts DEF NewThread, ThreadRec, PCs
  <2>5. Place(r) = "start" /\ "start" \notin SubCalls
    BY Zenon, <2>3, PlaceFacts
  <2>6. CallsOK(r) /\ BumpOK(r, kern, memlock_bumped) /\ FeatureOK(r, kern)
    BY Zenon, <2>3, <2>5 DEF CallsOK, BumpOK, FeatureOK
  <2>7. SizeOK(r, l)
    <3>1. 2 * 0 <= UINT_MAX /\ 0 <= UINT_MAX
      BY UintFacts
    <3>2. r.size = 0
      BY ZenonT(30), <2>3
    <3> QED
      BY <3>1, <3>2, <2>5 DEF SizeOK
  <2>8. ErrnoOK(r, l, kern) /\ LastTryOK(r, l) /\ GoodOK(r, l) /\ Explained(r, l, kern)
    BY Zenon, <2>3, <2>5 DEF ErrnoOK, LastTryOK, GoodOK, Explained
  <2>9. th[t] = r
    BY <2>1, <2>2 DEF Init
  <2> QED
    BY <2>1, <2>4, <2>6, <2>7, <2>8, <2>9 DEF ThreadOK
<1>3. th \in [Threads -> ThreadRec]
  <2>1. th = [t \in Threads |-> th[t]]
    BY DEF Init
  <2> QED
    BY <2>1, <1>2
<1>4. TypeOK
  BY Zenon, <1>3 DEF TypeOK, Init
<1>5. SharedOK
  BY DEF SharedOK, Init
<1> QED
  BY <1>2, <1>4, <1>5 DEF LoadInv

LEMMA StutterInv ==
  ASSUME LoadInv, UNCHANGED vars
  PROVE  LoadInv'
<1>1. UNCHANGED <<kern, load, cache, memlock_bumped, memlock_rlim, limit, th>>
  BY DEF vars
<1>2. TypeOK'
  BY <1>1 DEF LoadInv, TypeOK
<1>3. SharedOK'
  BY <1>1 DEF LoadInv, SharedOK, At
<1>4. \A u \in Threads : ThreadOK(th'[u], load'[u], kern', memlock_bumped')
  BY <1>1 DEF LoadInv
<1> QED
  BY <1>2, <1>3, <1>4 DEF LoadInv

LEMMA NextInv == LoadInv /\ [Next]_vars => LoadInv'
<1> SUFFICES ASSUME LoadInv, [Next]_vars PROVE LoadInv'
  OBVIOUS
<1>1. CASE libbpf_set_memlock_rlim
  BY <1>1, SetMemlockInv
<1>2. CASE UNCHANGED vars
  BY <1>2, StutterInv
<1>3. ASSUME NEW t \in Threads, Step(t) PROVE LoadInv'
  <2>1. UNCHANGED <<kern, load>>
    BY <1>3 DEF Step
  <2>2. CASE Start(t)
    BY <2>1, <2>2, StartInv
  <2>3. CASE Trivial(t)
    BY SMTT(30), <2>1, <2>3, TrivialInv
  <2>4. CASE TrivialSys(t)
    BY <2>1, <2>4, TrivialSysInv
  <2>5. CASE FeatRead(t)
    BY <2>1, <2>5, FeatReadInv
  <2>6. CASE FeatProbe(t)
    BY <2>1, <2>6, FeatProbeInv
  <2>7. CASE FeatWrite(t)
    BY <2>1, <2>7, FeatWriteInv
  <2>8. CASE FeatAnswer(t)
    BY <2>1, <2>8, FeatAnswerInv
  <2>9. CASE SetBumped(t)
    BY <2>1, <2>9, SetBumpedInv
  <2>10. CASE Setrlimit(t)
    BY <2>1, <2>10, SetrlimitInv
  <2>11. CASE Setup(t)
    BY <2>1, <2>11, SetupInv
  <2>12. CASE Enter(t)
    BY <2>1, <2>12, EnterInv
  <2>13. CASE Check(t)
    BY <2>1, <2>13, CheckInv
  <2>14. CASE Sys(t)
    BY <2>1, <2>14, SysInv
  <2>15. CASE Correct(t)
    BY <2>1, <2>15, CorrectInv
  <2>16. CASE LogToo(t)
    BY <2>1, <2>16, LogTooInv
  <2>17. CASE Again(t)
    BY <2>1, <2>17, AgainInv
  <2> QED
    BY SMTT(30), <1>3, <2>2, <2>3, <2>4, <2>5, <2>6, <2>7, <2>8, <2>9, <2>10, <2>11, <2>12, <2>13,
       <2>14, <2>15, <2>16, <2>17 DEF Step
<1> QED
  BY <1>1, <1>2, <1>3 DEF Next

(* The invariant holds in every run: the cache claims no feature the       *)
(* kernel lacks, whoever passed bump_rlimit_memlock() has its effect, and  *)
(* every thread's errno, buffer and records fit the point it has reached.  *)
THEOREM LoadInvariant == Spec => []LoadInv
<1>1. Init => LoadInv
  BY InitInv
<1>2. LoadInv /\ [Next]_vars => LoadInv'
  BY NextInv
<1> QED
  BY <1>1, <1>2, PTL DEF Spec

(* A failed load is reported for what it is (bpf_object_load_prog,         *)
(* btf_load_into_kernel, bpf_prog_load), and libbpf's own log buffer stays *)
(* within 32 bits.                                                         *)
THEOREM FailuresExplained == Spec => []FailureExplained
<1>1. ASSUME LoadInv PROVE FailureExplained
  <2>1. ASSUME NEW t \in Threads
        PROVE  /\ Own(t) => th[t].size <= UINT_MAX
               /\ Failed(t) =>
                    LET e == th[t].errno
                    IN \/ e \in {"EAGAIN", "EPERM"} /\ e \in th[t].why
                       \/ e = "ENOMEM" /\ Own(t)
                       \/ e = "EINVAL" /\ LogSize(t) \notin 1 .. kern.max
                       \/ e = "ENOSPC" /\ LogSize(t) < load[t].need
                                       /\ (Own(t) => 2 * th[t].size > UINT_MAX)
                       \/ e = "E2BIG" /\ th[t].why # {}
                       \/ /\ e = load[t].verdict
                          /\ WantsLog(t) => /\ th[t].log_level > 0
                                            /\ LogSize(t) >= load[t].need
    <3>1. ThreadOK(th[t], load[t], kern, memlock_bumped)
      BY SMTT(30), <1>1, <2>1, ThreadFacts
    <3>2. Own(t) => th[t].size <= UINT_MAX
      BY SMTT(30), <3>1 DEF ThreadOK, SizeOK, Own
    <3>3. Explained(th[t], load[t], kern)
      BY <3>1 DEF ThreadOK
    <3> QED
      BY Zenon, <3>2, <3>3 DEF Explained, Passing, BadSize, Failed, At, Own, LogSize, WantsLog
  <2> QED
    BY SMTT(30), <2>1 DEF FailureExplained
<1> QED
  BY <1>1, LoadInvariant, PTL

(* A program the kernel accepts is loaded unless something that passes     *)
(* stood in the way, and never because the memory limit was left as it was *)
(* (bpf_prog_load, bump_rlimit_memlock).                                   *)
THEOREM GoodProgramsLoad == Spec => []GoodProgramLoads
<1>1. ASSUME LoadInv PROVE GoodProgramLoads
  <2>1. ASSUME NEW t \in Threads, Failed(t), Good(t), load[t].level = 0,
               ~EmptyBuffer(load[t])
        PROVE  th[t].why # {} /\ ~th[t].unraised
    <3>1. GoodOK(th[t], load[t])
      BY <1>1, ThreadFacts DEF ThreadOK
    <3> QED
      BY ZenonT(30), <3>1, <2>1 DEF GoodOK, Failed, Good, At
  <2> QED
    BY <2>1 DEF GoodProgramLoads
<1> QED
  BY <1>1, LoadInvariant, PTL
=============================================================================

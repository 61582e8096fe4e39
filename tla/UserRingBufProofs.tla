-------------------------- MODULE UserRingBufProofs --------------------------
(***************************************************************************)
(* Proofs about the user ring buffer, for every number of threads, ring    *)
(* size, position width, set of sample sizes and timeouts, and number of   *)
(* records.                                                                *)
(***************************************************************************)
EXTENDS UserRingBuf, TLAPS

------------------------------------------------------------------------------
(* Wrapped unsigned positions: what is left of a position, a distance or   *)
(* an offset when positions are kept modulo M and the data area they index *)
(* has S bytes, S dividing M.                                              *)

(* Division with remainder. *)
LEMMA DivMod ==
  ASSUME NEW a \in Int, NEW M \in Nat \ {0}
  PROVE  /\ a % M \in 0..(M - 1)
         /\ a \div M \in Int
         /\ a = M * (a \div M) + (a % M)
  BY Z3

(* The remainder is unique. *)
LEMMA ModUnique ==
  ASSUME NEW M \in Nat \ {0}, NEW q \in Int, NEW r \in 0..(M - 1),
         NEW a \in Int, a = M * q + r
  PROVE  a % M = r
<1>1. a % M \in 0..(M - 1) /\ a \div M \in Int /\ a = M * (a \div M) + (a % M)
  BY DivMod
<1> DEFINE d == q - (a \div M)
<1>2. M * d = (a % M) - r
  BY <1>1
<1>3. d \in Int
  BY <1>1
<1>4. CASE d >= 1
  <2>1. M * d >= M
    BY <1>3, <1>4
  <2> QED
    BY <2>1, <1>2, <1>1
<1>5. CASE d <= -1
  <2>1. M * d <= -M
    BY <1>3, <1>5
  <2> QED
    BY <2>1, <1>2, <1>1
<1>6. CASE d = 0
  BY <1>6, <1>2, <1>1
<1> QED
  BY <1>3, <1>4, <1>5, <1>6

(* Adding a multiple of M does not change the remainder. *)
LEMMA ModShift ==
  ASSUME NEW M \in Nat \ {0}, NEW a \in Int, NEW k \in Int
  PROVE  (a + M * k) % M = a % M
<1>1. a % M \in 0..(M - 1) /\ a \div M \in Int /\ a = M * (a \div M) + (a % M)
  BY DivMod
<1> DEFINE q == (a \div M) + k
<1>2. q \in Int /\ a + M * k \in Int
  BY <1>1
<1>3. a + M * k = M * q + (a % M)
  BY <1>1
<1> DEFINE r == a % M  b == a + M * k
<1>4. r \in 0..(M - 1) /\ q \in Int /\ b \in Int /\ b = M * q + r
  BY <1>1, <1>2, <1>3
<1> HIDE DEF q, r, b
<1>5. b % M = r
  BY ZenonT(30), <1>4, ModUnique
<1> QED
  BY Zenon, <1>5 DEF r, b

(* A number below M is its own remainder. *)
LEMMA ModSmall ==
  ASSUME NEW M \in Nat \ {0}, NEW a \in 0..(M - 1)
  PROVE  a % M = a
<1>1. a = M * 0 + a
  OBVIOUS
<1> QED
  BY <1>1, ModUnique

(* Advancing a wrapped position wraps the advanced position. *)
LEMMA ModAdd ==
  ASSUME NEW M \in Nat \ {0}, NEW a \in Int, NEW d \in Int
  PROVE  ((a % M) + d) % M = (a + d) % M
<1>1. a % M \in 0..(M - 1) /\ a \div M \in Int /\ a = M * (a \div M) + (a % M)
  BY DivMod
<1> DEFINE k == a \div M
<1>2. k \in Int /\ (a % M) + d \in Int
  BY <1>1
<1>3. a + d = ((a % M) + d) + M * k
  BY <1>1
<1> DEFINE r == (a % M) + d
<1>4. r \in Int /\ a + d = r + M * k
  BY Zenon, <1>2, <1>3
<1> HIDE DEF k, r
<1>5. (r + M * k) % M = r % M
  BY Zenon, <1>2, <1>4, ModShift
<1> QED
  BY Zenon, <1>4, <1>5 DEF r

(* A divisor of the position modulus sees through the wrap. *)
LEMMA DividesFactor ==
  ASSUME NEW S \in Nat \ {0}, NEW M \in Nat \ {0}, M % S = 0
  PROVE  M \div S \in Int /\ M = S * (M \div S)
  BY DivMod

(* The offset of a wrapped position is the offset of the position. *)
LEMMA ModMod ==
  ASSUME NEW S \in Nat \ {0}, NEW M \in Nat \ {0}, M % S = 0, NEW a \in Int
  PROVE  (a % M) % S = a % S
<1>1. a % M \in 0..(M - 1) /\ a \div M \in Int /\ a = M * (a \div M) + (a % M)
  BY DivMod
<1>2. M \div S \in Int /\ M = S * (M \div S)
  BY DividesFactor
<1> DEFINE k == (M \div S) * (a \div M)
<1>3. k \in Int /\ a % M \in Int
  BY <1>1, <1>2
<1>4. M * (a \div M) = S * k
  BY <1>1, <1>2
<1>5. a = (a % M) + S * k
  BY <1>1, <1>4
<1> DEFINE r == a % M
<1>6. r \in Int /\ a = r + S * k
  BY Zenon, <1>3, <1>5
<1> HIDE DEF k, r
<1>7. (r + S * k) % S = r % S
  BY Zenon, <1>3, <1>6, ModShift
<1> QED
  BY Zenon, <1>6, <1>7 DEF r

(* So is the distance from it to an offset of the data area. *)
LEMMA DistWrap ==
  ASSUME NEW S \in Nat \ {0}, NEW M \in Nat \ {0}, M % S = 0,
         NEW o \in Int, NEW t \in Int
  PROVE  (o - (t % M)) % S = (o - t) % S
<1>1. t % M \in 0..(M - 1) /\ t \div M \in Int /\ t = M * (t \div M) + (t % M)
  BY DivMod
<1>2. M \div S \in Int /\ M = S * (M \div S)
  BY DividesFactor
<1> DEFINE k == (M \div S) * (t \div M)
<1>3. k \in Int /\ o - t \in Int
  BY <1>1, <1>2
<1>4. M * (t \div M) = S * k
  BY <1>1, <1>2
<1>5. o - (t % M) = (o - t) + S * k
  BY <1>1, <1>4
<1> DEFINE r == o - t
<1>6. r \in Int /\ o - (t % M) = r + S * k
  BY Zenon, <1>3, <1>5
<1> HIDE DEF k, r
<1>7. (r + S * k) % S = r % S
  BY Zenon, <1>3, <1>6, ModShift
<1> QED
  BY Zenon, <1>6, <1>7 DEF r

(* Distance zero means the offset of the position itself, and only that. *)
LEMMA DistZero ==
  ASSUME NEW S \in Nat \ {0}, NEW s \in Int, NEW o \in 0..(S - 1)
  PROVE  (o - s) % S = 0 <=> o = s % S
<1>1. s % S \in 0..(S - 1) /\ s \div S \in Int /\ s = S * (s \div S) + (s % S)
  BY DivMod
<1>2. ASSUME o = s % S PROVE (o - s) % S = 0
  <2> DEFINE k == -(s \div S)
  <2>1. k \in Int /\ o - s \in Int /\ o - s = S * k + 0
    BY <1>1, <1>2
  <2> HIDE DEF k
  <2> QED
    BY <2>1, ModUnique
<1>3. ASSUME (o - s) % S = 0 PROVE o = s % S
  <2>1. (o - s) \div S \in Int /\ o - s = S * ((o - s) \div S) + ((o - s) % S)
    BY DivMod
  <2> DEFINE k == -((o - s) \div S)
  <2>2. k \in Int
    BY <2>1
  <2>3. o - s = S * ((o - s) \div S)
    BY <2>1, <1>3
  <2>4. s = S * k + o
    BY <2>1, <2>3
  <2> HIDE DEF k
  <2> QED
    BY <2>2, <2>4, ModUnique
<1> QED
  BY <1>2, <1>3

(* Two stretches of positions that together span at most S bytes share no  *)
(* byte of the data area.                                                  *)
LEMMA Disjoint ==
  ASSUME NEW S \in Nat \ {0}, NEW o \in Int,
         NEW s1 \in Int, NEW t1 \in Nat, NEW s2 \in Int, NEW t2 \in Nat,
         s1 + t1 <= s2, s2 + t2 <= s1 + S,
         (o - s1) % S < t1, (o - s2) % S < t2
  PROVE  FALSE
<1>0. o - s1 \in Int /\ o - s2 \in Int
  OBVIOUS
<1>1. /\ (o - s1) % S \in 0..(S - 1) /\ (o - s1) \div S \in Int
      /\ o - s1 = S * ((o - s1) \div S) + ((o - s1) % S)
  BY Zenon, <1>0, DivMod
<1>2. /\ (o - s2) % S \in 0..(S - 1) /\ (o - s2) \div S \in Int
      /\ o - s2 = S * ((o - s2) \div S) + ((o - s2) % S)
  BY Zenon, <1>0, DivMod
<1> DEFINE q == ((o - s1) \div S) - ((o - s2) \div S)
           a == s1 + ((o - s1) % S)
           b == s2 + ((o - s2) % S)
<1>3. q \in Int /\ a \in Int /\ b \in Int
  BY <1>1, <1>2
<1>4. b - a = S * q
  <2>1. S * q = S * ((o - s1) \div S) - S * ((o - s2) \div S)
    BY <1>1, <1>2
  <2> QED
    BY <2>1, <1>1, <1>2
<1>5. 0 < b - a /\ b - a < S
  BY <1>1, <1>2
<1> HIDE DEF q, a, b
<1>6. CASE q >= 1
  <2>1. S * q >= S
    BY <1>3, <1>6
  <2> QED
    BY <2>1, <1>3, <1>4, <1>5
<1>7. CASE q <= 0
  <2>1. S * q <= 0
    BY <1>3, <1>7
  <2> QED
    BY <2>1, <1>3, <1>4, <1>5
<1> QED
  BY <1>3, <1>6, <1>7

------------------------------------------------------------------------------
(* The ring *)

(* The constants are usable as moduli. *)
LEMMA ConstFacts ==
  /\ Size \in Nat \ {0}
  /\ PosMod \in Nat \ {0}
  /\ PosMod % Size = 0
  /\ U32Mod \in Nat \ {0}
  /\ PosMod % U32Mod = 0
  /\ Size < U32Mod
  /\ Size < PosMod
<1>1. /\ Size \in Nat \ {0} /\ PosMod \in Nat \ {0} /\ PosMod % Size = 0
      /\ U32Mod \in Nat \ {0} /\ PosMod % U32Mod = 0 /\ Size < U32Mod
  BY UserSizeAssumption, UserModAssumption DEF BPF_RINGBUF_HDR_SZ
<1>2. PosMod \div U32Mod \in Int /\ PosMod = U32Mod * (PosMod \div U32Mod)
  BY <1>1, DividesFactor
<1> DEFINE k == PosMod \div U32Mod
<1>3. k \in Int /\ PosMod = U32Mod * k
  BY <1>2
<1> HIDE DEF k
<1>4. k >= 1
  <2>1. CASE k <= 0
    <3>1. U32Mod * k <= 0
      BY <2>1, <1>1, <1>3
    <3> QED
      BY <3>1, <1>1, <1>3
  <2> QED
    BY <2>1, <1>3
<1>5. U32Mod * k >= U32Mod
  BY <1>1, <1>3, <1>4
<1> QED
  BY <1>1, <1>3, <1>5

(* A sample takes at least its header. *)
LEMMA TotalFacts ==
  ASSUME NEW len \in Nat
  PROVE  RoundTotal(len) \in Nat /\ RoundTotal(len) >= 8
  BY DEF RoundTotal, BPF_RINGBUF_HDR_SZ

(* Record boundaries are naturals that grow along the log. *)
LEMMA EndFacts ==
  ASSUME TypeOK, LogContiguous
  PROVE  /\ Len(log) \in Nat
         /\ \A i \in 1..Len(log) :
              /\ log[i] \in Record
              /\ log[i].start \in Nat /\ log[i].len \in Nat
              /\ RoundTotal(log[i].len) \in Nat
              /\ RoundTotal(log[i].len) >= 8
         /\ \A i \in 0..Len(log) : End(i) \in Nat
         /\ \A i, j \in 0..Len(log) : i < j => End(i) < End(j)
         /\ \A i \in 1..Len(log) :
              End(i) = log[i].start + RoundTotal(log[i].len)
<1>1. Len(log) \in Nat /\ \A i \in 1..Len(log) : log[i] \in Record
  BY DEF TypeOK
<1>2. \A i \in 1..Len(log) :
         /\ log[i].start \in Nat /\ log[i].len \in Nat
         /\ RoundTotal(log[i].len) \in Nat /\ RoundTotal(log[i].len) >= 8
  BY Zenon, <1>1, TotalFacts DEF Record
<1>3. \A i \in 1..Len(log) : End(i) = log[i].start + RoundTotal(log[i].len)
  BY <1>1 DEF End
<1>4. \A i \in 0..Len(log) : End(i) \in Nat
  BY <1>1, <1>2, <1>3 DEF End
<1>5. ASSUME NEW i \in 0..Len(log), NEW j \in 0..Len(log), i < j
      PROVE  End(i) < End(j)
  <2>1. End(j) = log[j].start + RoundTotal(log[j].len) /\ j \in 1..Len(log)
    BY <1>1, <1>3, <1>5
  <2>2. CASE i = 0
    BY <2>1, <2>2, <1>2 DEF End
  <2>3. CASE i # 0
    <3>1. i \in 1..Len(log) /\ End(i) <= log[j].start
      BY <1>1, <1>5, <2>1, <2>3 DEF LogContiguous
    <3> QED
      BY <3>1, <2>1, <1>2, <1>4
  <2> QED
    BY <2>2, <2>3
<1> QED
  BY <1>1, <1>2, <1>3, <1>4, <1>5

(* What the later proofs use of the boundaries: where the records in the   *)
(* ring lie, between the last released one and the tail.                   *)
LEMMA TailFacts ==
  ASSUME TypeOK, LogContiguous
  PROVE  /\ Len(log) \in Nat /\ rd \in Nat /\ released \in Nat
         /\ rd <= Len(log) /\ released <= rd
         /\ Tail_ \in Nat
         /\ \A c \in 0..Len(log) : End(c) \in Nat /\ End(c) <= Tail_
         /\ \A c, d \in 0..Len(log) : c <= d => End(c) <= End(d)
         /\ \A i \in (released + 1)..Len(log) : End(released) <= log[i].start
<1>1. /\ Len(log) \in Nat /\ rd \in Nat /\ released \in Nat
      /\ rd <= Len(log) /\ released <= rd
  BY DEF TypeOK
<1>2. \A c, d \in 0..Len(log) : c <= d => End(c) <= End(d)
  <2>1. SUFFICES ASSUME NEW c \in 0..Len(log), NEW d \in 0..Len(log), c <= d
                 PROVE  End(c) <= End(d)
    OBVIOUS
  <2>2. End(c) \in Nat /\ End(d) \in Nat /\ (c < d => End(c) < End(d))
    BY EndFacts
  <2>3. c = d \/ c < d
    BY <2>1, <1>1
  <2> QED
    BY <2>2, <2>3
<1>3. Tail_ \in Nat /\ \A c \in 0..Len(log) : End(c) \in Nat /\ End(c) <= Tail_
  BY <1>1, <1>2, EndFacts DEF Tail_
<1>4. ASSUME NEW i \in (released + 1)..Len(log)
      PROVE  End(released) <= log[i].start
  <2>1. /\ released \in 0..Len(log) /\ i - 1 \in 0..Len(log)
        /\ released <= i - 1 /\ i \in 1..Len(log)
    BY <1>1
  <2> QED
    BY <2>1, <1>2 DEF LogContiguous
<1> QED
  BY <1>1, <1>2, <1>3, <1>4

(* Two records in the ring share no byte of the data area. *)
LEMMA RecordsDisjoint ==
  ASSUME TypeOK, LogContiguous, PositionsInv,
         NEW i \in (released + 1)..Len(log), NEW j \in (released + 1)..Len(log),
         i < j, NEW o \in 0..(Size - 1),
         Dist(o, log[i].start) < RoundTotal(log[i].len),
         Dist(o, log[j].start) < RoundTotal(log[j].len)
  PROVE  FALSE
<1>1. Len(log) \in Nat /\ released \in Nat /\ released <= Len(log)
  BY TailFacts
<1>2. /\ i \in 1..Len(log) /\ j \in 1..Len(log) /\ j \in 0..Len(log)
      /\ released \in 0..Len(log)
  BY <1>1
<1> DEFINE s == log[i].start  t == RoundTotal(log[i].len)
           u == log[j].start  v == RoundTotal(log[j].len)
           e == End(released)
<1>3. /\ s \in Nat /\ t \in Nat /\ u \in Nat /\ v \in Nat /\ e \in Nat
      /\ End(i) = s + t /\ End(j) = u + v
  <2> HIDE DEF UserInv
  <2> QED BY SMTT(30), <1>2, EndFacts
<1>4. s + t <= u
  BY Zenon, <1>2, <1>3 DEF LogContiguous
<1>5. e <= s /\ u + v <= Tail_ /\ Tail_ \in Nat /\ Tail_ - e <= Size
  <2>1. e <= s
    BY TailFacts
  <2>2. End(j) <= Tail_ /\ Tail_ \in Nat
    BY <1>2, TailFacts
  <2> QED
    BY <2>1, <2>2, <1>3 DEF PositionsInv
<1>6. (o - s) % Size < t /\ (o - u) % Size < v
  BY DEF Dist
<1> HIDE DEF s, t, u, v, e
<1>7. u + v <= s + Size
  BY <1>3, <1>5, ConstFacts
<1>8. o \in Int /\ s \in Int /\ u \in Int
  BY <1>3
<1> QED
  BY Zenon, <1>3, <1>4, <1>6, <1>7, <1>8, ConstFacts, Disjoint

(* A free stretch behind the tail shares no byte with a record in the ring. *)
LEMMA FreeDisjoint ==
  ASSUME TypeOK, LogContiguous,
         NEW i \in (released + 1)..Len(log), NEW n \in Nat,
         Tail_ + n - End(released) <= Size,
         NEW o \in 0..(Size - 1),
         Dist(o, log[i].start) < RoundTotal(log[i].len),
         Dist(o, Tail_) < n
  PROVE  FALSE
<1>1. Len(log) \in Nat /\ released \in Nat /\ released <= Len(log)
  BY TailFacts
<1>2. i \in 1..Len(log) /\ i \in 0..Len(log) /\ released \in 0..Len(log)
  BY <1>1
<1> DEFINE s == log[i].start  t == RoundTotal(log[i].len)  e == End(released)
           u == Tail_
<1>3. /\ s \in Nat /\ t \in Nat /\ e \in Nat /\ u \in Nat
      /\ End(i) = s + t /\ End(i) <= u /\ e <= s /\ u + n - e <= Size
  BY ZenonT(30), <1>2, EndFacts, TailFacts
<1>4. (o - s) % Size < t /\ (o - u) % Size < n
  BY DEF Dist
<1> HIDE DEF s, t, u, e
<1>5. s + t <= u /\ u + n <= s + Size
  BY <1>3, ConstFacts
<1>6. o \in Int /\ s \in Int /\ u \in Int
  BY <1>3
<1> QED
  BY Zenon, <1>3, <1>4, <1>5, <1>6, ConstFacts, Disjoint

(* Distances from the wrapped producer position are those from the tail. *)
LEMMA ProducerDist ==
  ASSUME TypeOK, LogContiguous, PositionsInv, NEW o \in 0..(Size - 1)
  PROVE  Dist(o, producer_pos) = Dist(o, Tail_)
<1> DEFINE u == Tail_
<1>1. o \in Int /\ u \in Int /\ producer_pos = u % PosMod
  BY TailFacts DEF PositionsInv
<1> HIDE DEF u
<1>2. (o - (u % PosMod)) % Size = (o - u) % Size
  BY Zenon, <1>1, ConstFacts, DistWrap
<1> QED
  BY <1>1, <1>2 DEF Dist, u

(* The offset where a record begins, and what lies there. *)
LEMMA HeaderAt ==
  ASSUME TypeOK, LogContiguous, MemoryInv,
         NEW i \in (released + 1)..Len(log)
  PROVE  /\ log[i].start % Size \in 0..(Size - 1)
         /\ Dist(log[i].start % Size, log[i].start) = 0
         /\ mem[log[i].start % Size] = HdrOf(i)
<1>1. /\ i \in 1..Len(log)
  BY TailFacts
<1> DEFINE s == log[i].start
           o == s % Size
<1>2. s \in Int /\ RoundTotal(log[i].len) \in Nat /\ RoundTotal(log[i].len) >= 8
  BY <1>1, EndFacts
<1>3. o \in 0..(Size - 1)
  BY Zenon, <1>2, ConstFacts, DivMod
<1>4. Dist(o, s) = 0
  <2> HIDE DEF s
  <2> QED
    BY Zenon, <1>2, <1>3, ConstFacts, DistZero DEF Dist
<1>5. mem[o] = HdrOf(i)
  BY <1>2, <1>3, <1>4 DEF MemoryInv
<1> QED
  BY <1>3, <1>4, <1>5

(* avail_size, computed from wrapped positions in 32 bits, is the room     *)
(* left above the consumer position the call has read.                     *)
LEMMA AvailExact ==
  ASSUME TypeOK, LogContiguous, PositionsInv,
         NEW c \in 0..released, cons_pos = End(c) % PosMod,
         Tail_ - End(c) <= Size
  PROVE  avail_size = Size - (Tail_ - End(c))
<1>1. c \in 0..Len(log)
  BY TailFacts
<1> DEFINE e == End(c)
           u == Tail_
           p == u % PosMod
<1>2. e \in Nat /\ u \in Nat /\ e <= u /\ u - e <= Size
  BY <1>1, TailFacts
<1>3. producer_pos = p /\ cons_pos = e % PosMod
  BY DEF PositionsInv
<1>4. avail_size = (Size - (p - (e % PosMod))) % U32Mod
  BY <1>3 DEF avail_size
<1>5. p \in Int /\ e % PosMod \in Int
  <2>1. u \in Int /\ e \in Int
    BY <1>2
  <2>2. p \in 0..(PosMod - 1) /\ e % PosMod \in 0..(PosMod - 1)
    BY Zenon, <2>1, ConstFacts, DivMod
  <2> QED
    BY <2>2, ConstFacts
<1> DEFINE q == e % PosMod
<1>6. (Size - (p - q)) = (Size + q) - p
  <2> HIDE DEF p, q
  <2> QED
    BY <1>5, ConstFacts DEF q
<1>7. ((Size + q) - p) % U32Mod = ((Size + q) - u) % U32Mod
  <2>1. Size + q \in Int /\ u \in Int
    BY <1>2, <1>5, ConstFacts
  <2> HIDE DEF q, u
  <2> QED
    BY Zenon, <2>1, ConstFacts, DistWrap
<1> DEFINE w == Size - u
<1>8. ((Size + q) - u) = w + q
  <2> HIDE DEF q, u
  <2> QED
    BY <1>2, <1>5, ConstFacts DEF q
<1>9. (w + q) % U32Mod = (w + e) % U32Mod
  <2>1. /\ ((w + q) % U32Mod) = ((q % U32Mod) + w) % U32Mod
        /\ ((w + e) % U32Mod) = ((e % U32Mod) + w) % U32Mod
    <3>1. w \in Int /\ q \in Int /\ e \in Int
      BY <1>2, <1>5, ConstFacts
    <3> HIDE DEF w, q, e
    <3>2. w + q = q + w /\ w + e = e + w
      BY <3>1
    <3>3. (q + w) % U32Mod = ((q % U32Mod) + w) % U32Mod
      BY Zenon, <3>1, ConstFacts, ModAdd
    <3>4. (e + w) % U32Mod = ((e % U32Mod) + w) % U32Mod
      BY Zenon, <3>1, ConstFacts, ModAdd
    <3> QED
      BY <3>2, <3>3, <3>4
  <2>2. q % U32Mod = e % U32Mod
    <3>1. e \in Int
      BY <1>2
    <3> HIDE DEF e
    <3> QED
      BY Zenon, <3>1, ConstFacts, ModMod DEF q
  <2> QED
    BY <2>1, <2>2
<1>10. (w + e) % U32Mod = w + e
  <2>1. w + e \in 0..(U32Mod - 1)
    <3> HIDE DEF u, e
    <3> QED
      BY <1>2, ConstFacts DEF w
  <2> HIDE DEF w, e
  <2> QED
    BY <2>1, ConstFacts, ModSmall
<1>11. avail_size = w + e
  BY <1>4, <1>6, <1>7, <1>8, <1>9, <1>10
<1>12. w + e = Size - (u - e)
  <2> HIDE DEF u, e
  <2> QED
    BY <1>2, ConstFacts DEF w
<1> QED
  BY <1>11, <1>12

(* The invariant holds initially. *)
LEMMA InitInv == Init => UserInv
<1> SUFFICES ASSUME Init PROVE UserInv
  OBVIOUS
<1>1. Len(log) = 0 /\ End(0) = 0 /\ Tail_ = 0
  BY DEF Init, End, Tail_
<1>2. 0 % PosMod = 0
  BY ConstFacts, ModSmall
<1>3. TypeOK
  <2>1. mem \in [0..(Size - 1) -> Cell]
    BY DEF Init, Cell, DataCell
  <2>2. log \in Seq(Record) /\ drained \in Seq(Nat)
    BY DEF Init
  <2>3. /\ pc \in [Threads -> {"idle", "load_cons", "check", "store_prod",
                               "epoll_wait", "owner"}]
        /\ sample \in [Threads -> 0..(Size - 1)] /\ own \in [Threads -> Nat]
        /\ ret \in [Threads -> {"none", "ok", "E2BIG", "ENOSPC", "EINTR"}]
    BY ConstFacts DEF Init
  <2>4. blocking \in BOOLEAN /\ last \in BOOLEAN
    BY Zenon DEF Init
  <2> QED
    BY <2>1, <2>2, <2>3, <2>4, <1>1, ConstFacts DEF Init, TypeOK
<1>4. \A t \in Threads : pc[t] = "idle"
  BY Zenon DEF Init
<1>5. LogContiguous /\ MemoryInv
  BY <1>1, <1>4 DEF Init, LogContiguous, MemoryInv
<1>6. PositionsInv
  BY <1>1, <1>2, <1>4, ConstFacts DEF Init, PositionsInv
<1>7. ThreadsInv
  BY <1>4, UserBoundsAssumption DEF Init, ThreadsInv
<1>8. KernelInv /\ WaitInv
  BY DEF Init, KernelInv, WaitInv
<1>9. DrainedInOrder
  BY DEF Init, DrainedInOrder
<1> QED
  BY <1>3, <1>5, <1>6, <1>7, <1>8, <1>9 DEF UserInv

(* A step that leaves the ring, the log and the kernel alone, that makes   *)
(* no thread an owner and writes no header, preserves the invariant if it  *)
(* treats the lock, the position it reads and the time well.               *)
LEMMA ReserveFrame ==
  ASSUME UserInv, TypeOK', WaitInv',
         UNCHANGED <<mem, producer_pos, log, kernelVars, sample, own>>,
         \A t \in Threads : pc'[t] = "store_prod" =>
           pc[t] = "store_prod" /\ size' = size,
         \A t \in Threads : pc'[t] = "owner" => pc[t] = "owner",
         \A t \in Threads : pc'[t] = "check" =>
           \E c \in 0..released :
             cons_pos' = End(c) % PosMod /\ Tail_ - End(c) <= Size,
         \A t \in Threads :
           pc'[t] \in {"load_cons", "check", "store_prod", "epoll_wait"}
             <=> lock' = t
  PROVE  UserInv'
<1> USE DEF UserInv, kernelVars
<1>1. (\A i : End(i)' = End(i)) /\ (\A i : HdrOf(i)' = HdrOf(i))
  BY DEF End, HdrOf
<1>2. Tail_' = Tail_
  BY <1>1 DEF Tail_
<1>3. LogContiguous'
  BY <1>1 DEF LogContiguous
<1>4. PositionsInv'
  BY <1>1, <1>2 DEF PositionsInv
<1>5. MemoryInv'
  <2>1. \A i \in (released + 1)..Len(log), o \in 0..(Size - 1) :
          Dist(o, log[i].start) < RoundTotal(log[i].len) =>
            mem[o] = IF Dist(o, log[i].start) = 0 THEN HdrOf(i) ELSE DataCell(i)
    BY DEF MemoryInv
  <2>2. ASSUME NEW t \in Threads, NEW o \in 0..(Size - 1),
               pc'[t] = "store_prod", Dist(o, Tail_) < RoundTotal(size')
        PROVE  mem[o] = IF Dist(o, Tail_) = 0
                          THEN HdrCell(Len(log) + 1, size')
                          ELSE DataCell(Len(log) + 1)
    <3>1. pc[t] = "store_prod" /\ size' = size
      BY <2>2
    <3> QED
      BY <3>1, <2>2 DEF MemoryInv
  <2> QED
    BY <2>1, <2>2, <1>1, <1>2 DEF MemoryInv
<1>6. ThreadsInv'
  BY DEF ThreadsInv
<1>7. KernelInv' /\ DrainedInOrder'
  BY DEF KernelInv, DrainedInOrder
<1> QED
  BY <1>3, <1>4, <1>5, <1>6, <1>7

(* The lock is held by the thread inside a reserve function, and by it     *)
(* alone.                                                                  *)
LEMMA LockFacts ==
  ASSUME ThreadsInv, NEW t \in Threads
  PROVE  /\ lock = NoThread =>
              \A u \in Threads :
                pc[u] \notin {"load_cons", "check", "store_prod", "epoll_wait"}
         /\ pc[t] \in {"load_cons", "check", "store_prod", "epoll_wait"} =>
              /\ lock = t
              /\ \A u \in Threads :
                   pc[u] \in {"load_cons", "check", "store_prod", "epoll_wait"}
                     => u = t
  BY UserBoundsAssumption DEF ThreadsInv

(* A step of one thread moves that thread only. *)
LEMMA PcStep ==
  ASSUME TypeOK, NEW t \in Threads, NEW x, pc' = [pc EXCEPT ![t] = x]
  PROVE  pc'[t] = x /\ \A u \in Threads : u # t => pc'[u] = pc[u]
  BY DEF TypeOK

(* Calling a reserve function. *)
LEMMA CallReserveInv ==
  ASSUME UserInv, NEW t \in Threads, CallReserve(t) PROVE UserInv'
<1> USE DEF UserInv, CallReserve
<1>1. TypeOK'
  <2>1. size' \in Nat
    BY UserBoundsAssumption
  <2>2. blocking' \in BOOLEAN /\ last' \in BOOLEAN
    BY Zenon
  <2> QED
    BY <2>1, <2>2 DEF TypeOK, kernelVars
<1>2. WaitInv'
  BY DEF WaitInv
<1>3. /\ pc'[t] = "load_cons" /\ \A u \in Threads : u # t => pc'[u] = pc[u]
  BY Zenon, PcStep
<1>4. \A u \in Threads :
        pc[u] \notin {"load_cons", "check", "store_prod", "epoll_wait"}
  BY LockFacts
<1> QED
  BY <1>1, <1>2, <1>3, <1>4, ReserveFrame

LEMMA CallReserveBlockingInv ==
  ASSUME UserInv, NEW t \in Threads, CallReserveBlocking(t) PROVE UserInv'
<1> USE DEF UserInv, CallReserveBlocking
<1>1. TypeOK'
  <2>1. size' \in Nat /\ timeout_ms' \in Int
    BY UserBoundsAssumption
  <2>2. blocking' \in BOOLEAN /\ last' \in BOOLEAN
    BY Zenon
  <2> QED
    BY <2>1, <2>2 DEF TypeOK, kernelVars
<1>2. WaitInv'
  BY DEF WaitInv
<1>3. /\ pc'[t] = "load_cons" /\ \A u \in Threads : u # t => pc'[u] = pc[u]
  BY Zenon, PcStep
<1>4. \A u \in Threads :
        pc[u] \notin {"load_cons", "check", "store_prod", "epoll_wait"}
  BY LockFacts
<1> QED
  BY <1>1, <1>2, <1>3, <1>4, ReserveFrame

(* Reading consumer_pos: the tail cannot move before the call returns. *)
LEMMA LoadConsInv ==
  ASSUME UserInv, NEW t \in Threads, LoadCons(t) PROVE UserInv'
<1> USE DEF UserInv, LoadCons, callVars, waitVars
<1>1. TypeOK'
  BY DEF TypeOK, kernelVars
<1>2. WaitInv'
  BY DEF WaitInv
<1>3. /\ pc'[t] = "check" /\ \A u \in Threads : u # t => pc'[u] = pc[u]
  BY Zenon, PcStep
<1>4. /\ lock = t
      /\ \A u \in Threads :
           pc[u] \in {"load_cons", "check", "store_prod", "epoll_wait"} => u = t
  BY LockFacts
<1>5. released \in 0..released /\ cons_pos' = End(released) % PosMod
      /\ Tail_ - End(released) <= Size
  BY TailFacts DEF PositionsInv
<1> QED
  BY <1>1, <1>2, <1>3, <1>4, <1>5, ReserveFrame

(* Giving up. *)
LEMMA ReserveFailsInv ==
  ASSUME UserInv, NEW t \in Threads, ReserveFails(t) \/ EpollError(t)
  PROVE  UserInv'
<1> USE DEF UserInv, ReserveFails, EpollError, callVars, waitVars
<1>1. TypeOK'
  BY Zenon DEF TypeOK, kernelVars
<1>2. WaitInv'
  BY Zenon DEF WaitInv
<1>3. /\ pc'[t] = "idle" /\ \A u \in Threads : u # t => pc'[u] = pc[u]
  BY PcStep
<1>4. /\ lock = t
      /\ \A u \in Threads :
           pc[u] \in {"load_cons", "check", "store_prod", "epoll_wait"} => u = t
  BY LockFacts
<1>5. /\ lock' = NoThread /\ NoThread \notin Threads
      /\ UNCHANGED <<mem, producer_pos, log, kernelVars, sample, own>>
  BY UserBoundsAssumption
<1> QED
  BY <1>1, <1>2, <1>3, <1>4, <1>5, ReserveFrame

(* Waiting for room. *)
LEMMA MustWaitInv ==
  ASSUME UserInv, NEW t \in Threads, MustWait(t) PROVE UserInv'
<1> USE DEF UserInv, MustWait, callVars, waitVars
<1>1. TypeOK'
  BY DEF TypeOK, kernelVars
<1>2. WaitInv'
  BY DEF WaitInv
<1>3. /\ pc'[t] = "epoll_wait" /\ \A u \in Threads : u # t => pc'[u] = pc[u]
  BY Zenon, PcStep
<1>4. /\ lock = t
      /\ \A u \in Threads :
           pc[u] \in {"load_cons", "check", "store_prod", "epoll_wait"} => u = t
  BY LockFacts
<1> QED
  BY <1>1, <1>2, <1>3, <1>4, ReserveFrame

LEMMA NoTimeLeft ==
  ASSUME NEW x \in Int, NEW y \in Int, y - x <= 0 PROVE x >= y
  OBVIOUS

(* Coming back from epoll_wait: the last attempt is marked by the clock. *)
LEMMA EpollReturnInv ==
  ASSUME UserInv, NEW t \in Threads, EpollReturn(t) PROVE UserInv'
<1> USE DEF UserInv, EpollReturn, callVars
<1>1. elapsed' \in Int /\ timeout_ms \in Int /\ timeout_ms' = timeout_ms
  BY DEF TypeOK
<1>2. last' = (timeout_ms # -1 /\ ms_remaining' <= 0)
  OBVIOUS
<1>8. ms_remaining' = IF timeout_ms = -1 THEN -1 ELSE timeout_ms - elapsed'
  OBVIOUS
<1>3. ms_remaining' \in Int /\ last' \in BOOLEAN
  BY SMTT(30), <1>1, <1>2, <1>8
<1>4. TypeOK'
  BY <1>1, <1>3 DEF TypeOK, kernelVars
<1>5. WaitInv'
  <2>1. timeout_ms # -1 /\ ms_remaining' <= 0 => elapsed' >= timeout_ms
    <3>1. SUFFICES ASSUME timeout_ms # -1, ms_remaining' <= 0
                   PROVE  elapsed' >= timeout_ms
      OBVIOUS
    <3>2. ms_remaining' = timeout_ms - elapsed'
      BY <3>1, <1>8, Zenon
    <3>3. timeout_ms - elapsed' <= 0
      BY <3>1, <3>2, Zenon
    <3> QED
      BY Zenon, <3>3, <1>1, NoTimeLeft
  <2>2. last' => timeout_ms # -1 /\ elapsed' >= timeout_ms
    BY <2>1, <1>2, Zenon
  <2> QED
    BY <2>2, <1>1, Zenon DEF WaitInv
<1>6. /\ pc'[t] = "load_cons" /\ \A u \in Threads : u # t => pc'[u] = pc[u]
  BY Zenon, PcStep
<1>7. /\ lock = t
      /\ \A u \in Threads :
           pc[u] \in {"load_cons", "check", "store_prod", "epoll_wait"} => u = t
  BY LockFacts
<1> QED
  BY <1>4, <1>5, <1>6, <1>7, ReserveFrame

(* Writing the header: the free bytes reach at least as far as the sample, *)
(* however old the consumer position they were computed from.              *)
LEMMA WriteHdrInv ==
  ASSUME UserInv, NEW t \in Threads, WriteHdr(t) PROVE UserInv'
<1> USE DEF UserInv, kernelVars, callVars, waitVars
<1>0. /\ pc[t] = "check"
      /\ avail_size >= RoundTotal(size)
      /\ mem' = [o \in 0..(Size - 1) |->
                   IF Dist(o, producer_pos) = 0 THEN HdrCell(Len(log) + 1, size)
                   ELSE IF Dist(o, producer_pos) < RoundTotal(size)
                     THEN DataCell(Len(log) + 1)
                   ELSE mem[o]]
      /\ pc' = [pc EXCEPT ![t] = "store_prod"]
      /\ UNCHANGED <<producer_pos, log, consumer_pos, kpc, rd, released, drained,
                     lock, sample, own, ret, cons_pos, size, blocking,
                     timeout_ms, last, ms_remaining, elapsed>>
  BY DEF WriteHdr
<1>1. /\ Len(log) \in Nat /\ released \in Nat /\ released <= Len(log)
      /\ Tail_ \in Nat /\ End(released) \in Nat
      /\ size \in Nat /\ RoundTotal(size) \in Nat /\ RoundTotal(size) >= 8
  <2>1. Len(log) \in Nat /\ released \in Nat /\ released <= Len(log) /\ Tail_ \in Nat
    BY TailFacts
  <2>2. released \in 0..Len(log) /\ size \in Nat
    BY <2>1 DEF TypeOK
  <2> QED
    BY <2>1, <2>2, TailFacts, TotalFacts
<1>2. Tail_ + RoundTotal(size) - End(released) <= Size
  <2>1. PICK c \in 0..released :
          cons_pos = End(c) % PosMod /\ Tail_ - End(c) <= Size
    BY <1>0 DEF PositionsInv
  <2>2. avail_size = Size - (Tail_ - End(c))
    BY <2>1, AvailExact
  <2>3. End(c) \in Nat /\ End(c) <= End(released)
    <3>1. c \in 0..Len(log) /\ released \in 0..Len(log) /\ c <= released
      BY <1>1
    <3> QED
      BY <3>1, TailFacts
  <2> QED
    <3> HIDE DEF UserInv
    <3> QED BY SMTT(30), <2>2, <2>3, <1>0, <1>1, ConstFacts
<1>3. /\ pc'[t] = "store_prod" /\ \A u \in Threads : u # t => pc'[u] = pc[u]
  BY Zenon, <1>0, PcStep
<1>4. /\ lock = t
      /\ \A u \in Threads :
           pc[u] \in {"load_cons", "check", "store_prod", "epoll_wait"} => u = t
  BY <1>0, LockFacts
<1>5. (\A i : End(i)' = End(i)) /\ (\A i : HdrOf(i)' = HdrOf(i)) /\ Tail_' = Tail_
  BY <1>0 DEF End, HdrOf, Tail_
<1>6. \A o \in 0..(Size - 1) : Dist(o, producer_pos) = Dist(o, Tail_)
  BY ProducerDist
<1>7. TypeOK'
  <2>1. mem \in [0..(Size - 1) -> Cell]
    BY DEF TypeOK
  <2>2. HdrCell(Len(log) + 1, size) \in Cell /\ DataCell(Len(log) + 1) \in Cell
    BY <1>1 DEF HdrCell, DataCell, Cell
  <2>3. mem' \in [0..(Size - 1) -> Cell]
    BY SMTT(30), <2>1, <2>2, <1>0
  <2> QED
    BY SMTT(30), <2>3, <1>0 DEF TypeOK
<1>8. LogContiguous'
  BY ZenonT(30), <1>0, <1>5 DEF LogContiguous
<1>9. PositionsInv'
  <2>1. \A u \in Threads : pc'[u] # "check"
    BY SMTT(30), <1>3, <1>4
  <2> QED
    BY <2>1, <1>0, <1>2, <1>5 DEF PositionsInv
<1>10. MemoryInv'
  <2>1. ASSUME NEW i \in (released + 1)..Len(log), NEW o \in 0..(Size - 1),
               Dist(o, log[i].start) < RoundTotal(log[i].len)
        PROVE  mem'[o] = IF Dist(o, log[i].start) = 0 THEN HdrOf(i) ELSE DataCell(i)
    <3>1. ~(Dist(o, Tail_) < RoundTotal(size))
      BY <2>1, <1>1, <1>2, FreeDisjoint
    <3>2. mem'[o] = mem[o]
      BY SMTT(30), <3>1, <1>0, <1>1, <1>6
    <3> QED
      BY <2>1, <3>2 DEF MemoryInv
  <2>2. ASSUME NEW u \in Threads, NEW o \in 0..(Size - 1),
               Dist(o, Tail_) < RoundTotal(size)
        PROVE  mem'[o] = IF Dist(o, Tail_) = 0 THEN HdrCell(Len(log) + 1, size)
                         ELSE DataCell(Len(log) + 1)
    BY SMTT(30), <2>2, <1>0, <1>6
  <2> QED
    BY ZenonT(30), <2>1, <2>2, <1>0, <1>5 DEF MemoryInv
<1>11. ThreadsInv'
  BY SMTT(30), <1>0, <1>3, <1>4 DEF ThreadsInv
<1>12. KernelInv' /\ DrainedInOrder' /\ WaitInv'
  BY ZenonT(30), <1>0 DEF KernelInv, DrainedInOrder, WaitInv
<1> QED
  BY <1>7, <1>8, <1>9, <1>10, <1>11, <1>12

(* The producer position moves over the new record. *)
LEMMA StoreProdInv ==
  ASSUME UserInv, NEW t \in Threads, StoreProd(t) PROVE UserInv'
<1> USE DEF UserInv, kernelVars, callVars, waitVars
<1>0. PICK L \in Nat : L = Len(log)
  BY SMTT(30) DEF TypeOK
<1> DEFINE n == RoundTotal(size)
           new == [start |-> Tail_, len |-> size, st |-> "busy"]
<1>1. /\ pc[t] = "store_prod"
      /\ producer_pos' = (producer_pos + n) % PosMod
      /\ sample' = [sample EXCEPT ![t] = (producer_pos + BPF_RINGBUF_HDR_SZ) % Size]
      /\ own' = [own EXCEPT ![t] = L + 1]
      /\ log' = Append(log, new)
      /\ ret' = [ret EXCEPT ![t] = "ok"]
      /\ pc' = [pc EXCEPT ![t] = "owner"]
      /\ lock' = NoThread
  BY <1>0 DEF StoreProd
<1>2. UNCHANGED <<mem, consumer_pos, kpc, rd, released, drained, cons_pos, size,
                  blocking, timeout_ms, last, ms_remaining, elapsed>>
  BY DEF StoreProd
<1>3. /\ log \in Seq(Record) /\ rd \in 0..L /\ released \in 0..rd /\ released \in 0..L
      /\ size \in Nat /\ n \in Nat /\ n >= 8
  <2>1. size \in Nat
    BY DEF TypeOK
  <2>2. log \in Seq(Record) /\ rd \in 0..L /\ released \in 0..rd
    BY <1>0 DEF TypeOK
  <2>3. n \in Nat /\ n >= 8
    BY SMTT(30), <2>1, TotalFacts
  <2> QED
    BY <2>1, <2>2, <2>3, <1>0
<1>4. /\ Tail_ \in Nat /\ End(released) \in Nat /\ End(released) <= Tail_
      /\ producer_pos = Tail_ % PosMod /\ consumer_pos = End(released) % PosMod
      /\ Tail_ + n - End(released) <= Size
  BY ZenonT(30), <1>0, <1>1, <1>3, TailFacts DEF PositionsInv
<1>5. new \in Record
  BY <1>3, <1>4 DEF Record
<1>6. /\ Len(log') = L + 1 /\ log' \in Seq(Record)
      /\ \A j \in 1..L : log'[j] = log[j]
      /\ log'[L + 1] = new
  <2> HIDE DEF new
  <2> QED
    BY <1>0, <1>1, <1>3, <1>5
<1>7. (\A j \in 0..L : End(j)' = End(j)) /\ End(L + 1)' = Tail_ + n
      /\ Tail_' = Tail_ + n
  <2>1. \A j \in 0..L : End(j)' = End(j)
    BY <1>3, <1>6 DEF End
  <2>2. End(L + 1)' = Tail_ + n
    BY <1>3, <1>6 DEF End
  <2> QED
    BY <2>1, <2>2, <1>6 DEF Tail_
<1>8. pc'[t] = "owner" /\ \A u \in Threads : u # t => pc'[u] = pc[u]
  BY Zenon, <1>1, PcStep
<1>9. /\ lock = t
      /\ \A u \in Threads :
           pc[u] \in {"load_cons", "check", "store_prod", "epoll_wait"} => u = t
  BY <1>1, LockFacts
<1>10. \A u \in Threads :
         pc'[u] \notin {"load_cons", "check", "store_prod", "epoll_wait"}
  BY <1>8, <1>9
<1>11. (producer_pos + BPF_RINGBUF_HDR_SZ) % Size
         = (Tail_ + BPF_RINGBUF_HDR_SZ) % Size
  <2> DEFINE u == Tail_  h == BPF_RINGBUF_HDR_SZ
  <2>1. u \in Int /\ h \in Int /\ producer_pos = u % PosMod
    BY <1>4 DEF BPF_RINGBUF_HDR_SZ
  <2>2. producer_pos \in Int
    BY DEF TypeOK
  <2> HIDE DEF u, h
  <2>3. (u % PosMod) % Size = u % Size
    BY Zenon, <2>1, ConstFacts, ModMod
  <2>4. (producer_pos + h) % Size = ((producer_pos % Size) + h) % Size
    BY Zenon, <2>1, <2>2, ConstFacts, ModAdd
  <2>5. (u + h) % Size = ((u % Size) + h) % Size
    BY Zenon, <2>1, ConstFacts, ModAdd
  <2>6. (producer_pos + h) % Size = (u + h) % Size
    <3> HIDE DEF UserInv
    <3> QED BY <2>1, <2>3, <2>4, <2>5
  <2> QED
    BY <2>6 DEF u, h
<1>12. TypeOK'
  <2>1. producer_pos' \in 0..(PosMod - 1)
    <3>1. producer_pos + n \in Int
      BY <1>3 DEF TypeOK
    <3> QED
      BY Zenon, <3>1, <1>1, ConstFacts, DivMod
  <2>2. sample' \in [Threads -> 0..(Size - 1)]
    <3>1. producer_pos + BPF_RINGBUF_HDR_SZ \in Int
      BY DEF TypeOK, BPF_RINGBUF_HDR_SZ
    <3>2. (producer_pos + BPF_RINGBUF_HDR_SZ) % Size \in 0..(Size - 1)
      BY ZenonT(30), <3>1, ConstFacts, DivMod
    <3> QED
      BY <3>2, <1>1 DEF TypeOK
  <2>3. rd' \in 0..Len(log') /\ released' \in 0..rd'
    BY <1>2, <1>3, <1>6
  <2>4. own' \in [Threads -> Nat]
    BY SMTT(30), <1>1, <1>3 DEF TypeOK
  <2> QED
    BY SMTT(30), <2>1, <2>2, <2>3, <2>4, <1>1, <1>2, <1>6 DEF TypeOK
<1>13. LogContiguous'
  <2>1. ASSUME NEW j \in 1..(L + 1) PROVE log'[j].start = End(j - 1)'
    <3>1. CASE j \in 1..L
      <4>1. j - 1 \in 0..L
        BY SMTT(30), <1>3
      <4> QED
        BY <4>1, <3>1, <1>0, <1>6, <1>7 DEF LogContiguous
    <3>2. CASE j = L + 1
      <4>1. j - 1 = L /\ L \in 0..L
        BY <3>2, <1>3
      <4> QED
        BY <4>1, <3>2, <1>0, <1>6, <1>7 DEF Tail_
    <3> QED
      BY SMTT(30), <3>1, <3>2, <1>3
  <2>2. ASSUME NEW j \in 1..(L + 1), NEW k \in 1..(L + 1), j < k
        PROVE  End(j)' <= log'[k].start
    <3>1. j \in 0..L /\ j \in 1..L
      BY SMTT(30), <2>2, <1>3
    <3>2. CASE k \in 1..L
      BY ZenonT(30), <2>2, <3>1, <3>2, <1>0, <1>6, <1>7 DEF LogContiguous
    <3>3. CASE k = L + 1
      <4>1. End(j) <= Tail_
        BY SMTT(30), <3>1, <1>0, TailFacts
      <4> QED
        BY SMTT(30), <4>1, <3>1, <3>3, <1>6, <1>7
    <3> QED
      BY <3>2, <3>3, <1>3
  <2> QED
    BY <2>1, <2>2, <1>6 DEF LogContiguous
<1>14. PositionsInv'
  <2>1. consumer_pos' = End(released)' % PosMod
    BY <1>2, <1>3, <1>4, <1>7
  <2>2. producer_pos' = Tail_' % PosMod
    <3> DEFINE u == Tail_
    <3>1. u \in Int /\ n \in Int
      BY <1>3, <1>4
    <3>2. producer_pos' = ((u % PosMod) + n) % PosMod
      BY <1>1, <1>4
    <3>3. Tail_' = u + n
      BY <1>7
    <3> HIDE DEF u, n
    <3>4. ((u % PosMod) + n) % PosMod = (u + n) % PosMod
      BY Zenon, <3>1, ConstFacts, ModAdd
    <3> QED
      BY <3>2, <3>3, <3>4
  <2>3. Tail_' - End(released)' <= Size
    <3> HIDE DEF UserInv
    <3> QED BY SMTT(30), <1>2, <1>3, <1>4, <1>7, ConstFacts
  <2> QED
    BY SMTT(30), <2>1, <2>2, <2>3, <1>10 DEF PositionsInv
<1>15. MemoryInv'
  <2>1. SUFFICES ASSUME NEW j \in (released + 1)..(L + 1),
                        NEW o \in 0..(Size - 1),
                        Dist(o, log'[j].start) < RoundTotal(log'[j].len)
                 PROVE  mem[o] = IF Dist(o, log'[j].start) = 0
                                   THEN HdrOf(j)' ELSE DataCell(j)
    BY <1>2, <1>6, <1>10 DEF MemoryInv
  <2>2. CASE j = L + 1
    <3>1. HdrOf(j)' = HdrCell(L + 1, size)
      <4>1. log'[j].len = size /\ (log'[j].st = "busy") = TRUE
            /\ (log'[j].st = "discarded") = FALSE
        BY <2>2, <1>6
      <4> QED
        BY ZenonT(30), <2>2, <4>1 DEF HdrOf, HdrCell
    <3>2. log'[j].start = Tail_ /\ log'[j].len = size
      BY <2>2, <1>6
    <3>3. mem[o] = IF Dist(o, Tail_) = 0 THEN HdrCell(L + 1, size)
                   ELSE DataCell(L + 1)
      BY ZenonT(30), <2>1, <3>2, <1>0, <1>1 DEF MemoryInv
    <3> QED
      BY SMTT(30), <2>2, <3>1, <3>2, <3>3
  <2>3. CASE j \in (released + 1)..L
    <3>1. j \in 1..L /\ log'[j] = log[j]
      BY SMTT(30), <2>3, <1>3, <1>6
    <3>2. HdrOf(j)' = HdrOf(j)
      BY Zenon, <3>1 DEF HdrOf
    <3> QED
      BY SMTT(30), <2>1, <2>3, <3>1, <3>2, <1>0 DEF MemoryInv
  <2> QED
    BY SMTT(30), <2>2, <2>3, <1>3
<1>16. ThreadsInv'
  <2>1. \A u \in Threads :
          pc'[u] \in {"load_cons", "check", "store_prod", "epoll_wait"} <=> lock' = u
    BY SMTT(30), <1>1, <1>10, UserBoundsAssumption
  <2>2. ASSUME NEW u \in Threads, pc'[u] = "owner"
        PROVE  /\ own'[u] \in 1..(L + 1) /\ log'[own'[u]].st = "busy"
               /\ sample'[u] = (log'[own'[u]].start + BPF_RINGBUF_HDR_SZ) % Size
               /\ u # t => own'[u] = own[u] /\ own[u] \in 1..L /\ pc[u] = "owner"
    <3>1. CASE u = t
      <4>1. own'[u] = L + 1
            /\ sample'[u] = (producer_pos + BPF_RINGBUF_HDR_SZ) % Size
        BY ZenonT(30), <3>1, <1>1 DEF TypeOK
      <4>2. log'[L + 1].st = "busy" /\ log'[L + 1].start = Tail_
        BY SMTT(30), <1>6
      <4> QED
        BY SMTT(30), <3>1, <4>1, <4>2, <1>3, <1>11
    <3>2. CASE u # t
      <4>1. own'[u] = own[u] /\ sample'[u] = sample[u] /\ pc[u] = "owner"
        BY SMTT(30), <3>2, <2>2, <1>1, <1>8 DEF TypeOK
      <4>2. own[u] \in 1..L
        BY Zenon, <4>1, <1>0 DEF ThreadsInv
      <4>3. log[own[u]].st = "busy"
            /\ sample[u] = (log[own[u]].start + BPF_RINGBUF_HDR_SZ) % Size
        BY Zenon, <4>1, <1>0 DEF ThreadsInv
      <4>4. own[u] \in 1..(L + 1)
        BY <4>2, <1>3
      <4>5. log'[own[u]] = log[own[u]]
        BY Zenon, <4>2, <1>6
      <4> QED
        BY Zenon, <4>1, <4>2, <4>3, <4>4, <4>5
    <3> QED
      BY Zenon, <3>1, <3>2
  <2>3. ASSUME NEW u \in Threads, NEW v \in Threads, pc'[u] = "owner",
               pc'[v] = "owner", own'[u] = own'[v]
        PROVE  u = v
    <3>1. own'[t] = L + 1
      BY SMTT(30), <1>1 DEF TypeOK
    <3>2. /\ u # t => own'[u] = own[u] /\ own[u] \in 1..L /\ pc[u] = "owner"
          /\ v # t => own'[v] = own[v] /\ own[v] \in 1..L /\ pc[v] = "owner"
      BY Zenon, <2>2, <2>3
    <3>3. CASE u = t \/ v = t
      <4> HIDE DEF UserInv
      <4> QED BY SMTT(30), <3>1, <3>2, <3>3, <2>3, <1>3
    <3>4. CASE u # t /\ v # t
      BY SMTT(30), <3>2, <3>4, <2>3 DEF ThreadsInv
    <3> QED
      BY SMTT(30), <3>3, <3>4
  <2> QED
    BY SMTT(30), <2>1, <2>2, <2>3, <1>6 DEF ThreadsInv
<1>17. WaitInv'
  BY <1>1 DEF WaitInv
<1>18. KernelInv'
  <2>1. \A j \in 1..rd : log'[j] = log[j]
    <3> HIDE DEF UserInv
    <3> QED BY SMTT(30), <1>3, <1>6
  <2> QED
    BY ZenonT(40), <2>1, <1>2 DEF KernelInv
<1>19. DrainedInOrder'
  <2>1. \A j \in 1..rd : log'[j] = log[j]
    BY SMTT(30), <1>3, <1>6
  <2>2. {j \in 1..rd : log'[j].st = "committed"}
          = {j \in 1..rd : log[j].st = "committed"}
    BY SMTT(30), <2>1
  <2> QED
    BY <2>2, <1>2 DEF DrainedInOrder
<1> QED
  BY <1>12, <1>13, <1>14, <1>15, <1>16, <1>17, <1>18, <1>19

(* The header offset computed from the sample is where the record begins. *)
LEMMA HdrOffsetFact ==
  ASSUME UserInv, NEW t \in Threads, pc[t] = "owner"
  PROVE  /\ own[t] \in (released + 1)..Len(log)
         /\ HdrOffset(t) = log[own[t]].start % Size
<1> USE DEF UserInv
<1> DEFINE i == own[t]
           s == log[i].start
           h == BPF_RINGBUF_HDR_SZ
<1>1. i \in 1..Len(log) /\ log[i].st = "busy" /\ sample[t] = (s + h) % Size
  BY DEF ThreadsInv
<1>2. Len(log) \in Nat /\ rd \in Nat /\ released \in Nat /\ released <= rd
  BY TailFacts
<1>3. i \in (released + 1)..Len(log)
  BY <1>1, <1>2 DEF KernelInv
<1>4. s \in Int /\ h \in Int
  BY <1>1, EndFacts DEF BPF_RINGBUF_HDR_SZ
<1> DEFINE a == s + h
           d == Size - h
<1>5. /\ a \in Int /\ d \in Int
  BY <1>4, ConstFacts
<1>6. a % Size \in Int
  <2> HIDE DEF a
  <2>1. a % Size \in 0..(Size - 1)
    BY Zenon, <1>5, ConstFacts, DivMod
  <2> QED
    BY <2>1, ConstFacts
<1>7. HdrOffset(t) = ((a % Size) + d) % Size
  <2>1. HdrOffset(t) = (Size + (a % Size) - h) % Size
    BY <1>1 DEF HdrOffset
  <2>2. Size + (a % Size) - h = (a % Size) + d
    <3> DEFINE r == a % Size
    <3>1. r \in Int
      BY <1>6
    <3> HIDE DEF r, h
    <3>2. Size + r - h = r + (Size - h)
      BY <3>1, <1>4, ConstFacts
    <3> QED
      BY <3>2 DEF r
  <2> QED
    <3> HIDE DEF UserInv
    <3> QED BY <2>1, <2>2
<1>8. ((a % Size) + d) % Size = (a + d) % Size
  <2> HIDE DEF a, d
  <2> QED
    BY Zenon, <1>5, ConstFacts, ModAdd
<1> DEFINE one == 1
<1>9. a + d = s + Size * one
  <2> HIDE DEF s, h
  <2> QED
    BY <1>4, ConstFacts
<1>10. (s + Size * one) % Size = s % Size
  <2>1. one \in Int
    OBVIOUS
  <2> HIDE DEF s, one
  <2> QED
    BY Zenon, <2>1, <1>4, ConstFacts, ModShift
<1> QED
  BY ZenonT(30), <1>3, <1>7, <1>8, <1>9, <1>10

(* Submit and discard resolve the record of their thread. *)
LEMMA CommitInv ==
  ASSUME UserInv, NEW t \in Threads, NEW disc \in BOOLEAN, Commit(t, disc)
  PROVE  UserInv'
<1> USE DEF UserInv, kernelVars, callVars, waitVars
<1> DEFINE i == own[t]
           c == log[i].start % Size
           newst == IF disc THEN "discarded" ELSE "committed"
<1>0. pc[t] = "owner"
  BY DEF Commit
<1>1. /\ mem' = [mem EXCEPT ![c] = [@ EXCEPT !.busy = FALSE, !.discard = disc]]
      /\ log' = [log EXCEPT ![i] = [@ EXCEPT !.st = newst]]
      /\ pc' = [pc EXCEPT ![t] = "idle"]
  BY ZenonT(30), <1>0, HdrOffsetFact DEF Commit
<1>2. UNCHANGED <<producer_pos, consumer_pos, kpc, rd, released, drained, lock,
                  sample, own, ret, cons_pos, size, blocking, timeout_ms, last,
                  ms_remaining, elapsed>>
  BY DEF Commit
<1>3. /\ log \in Seq(Record) /\ Len(log) \in Nat
      /\ rd \in 0..Len(log) /\ released \in 0..rd
      /\ i \in (released + 1)..Len(log) /\ i \in 1..Len(log)
      /\ log[i].st = "busy"
      /\ \A j \in 1..Len(log) : log[j] \in Record
  <2>1. log \in Seq(Record) /\ Len(log) \in Nat
        /\ rd \in 0..Len(log) /\ released \in 0..rd
        /\ \A j \in 1..Len(log) : log[j] \in Record
    BY DEF TypeOK
  <2>2. i \in (released + 1)..Len(log)
    BY <1>0, HdrOffsetFact
  <2>3. log[i].st = "busy" /\ i \in 1..Len(log)
    BY <1>0 DEF ThreadsInv
  <2> QED
    BY <2>1, <2>2, <2>3
<1>4. /\ Len(log') = Len(log)
      /\ \A j \in 1..Len(log) : j # i => log'[j] = log[j]
      /\ log'[i] = [log[i] EXCEPT !.st = newst]
  BY <1>1, <1>3
<1>5. \A j \in 1..Len(log) :
        log'[j].start = log[j].start /\ log'[j].len = log[j].len
  <2>1. log'[i].start = log[i].start /\ log'[i].len = log[i].len
    BY <1>3, <1>4 DEF Record
  <2> QED
    BY Zenon, <2>1, <1>4
<1>6. log'[i].st = newst /\ log' \in Seq(Record)
  <2>1. log'[i].st = newst /\ log'[i] \in Record
    BY Zenon, <1>3, <1>4 DEF Record
  <2> QED
    BY <2>1, <1>1, <1>3, <1>4
<1>7. (\A j \in 0..Len(log) : End(j)' = End(j)) /\ Tail_' = Tail_
  <2>1. \A j \in 0..Len(log) : End(j)' = End(j)
    BY <1>3, <1>5 DEF End
  <2> QED
    BY <2>1, <1>3, <1>4 DEF Tail_
<1>8. \A j \in 1..rd : j # i /\ log'[j] = log[j]
  BY <1>3, <1>4 DEF KernelInv
<1>9. pc'[t] = "idle" /\ \A u \in Threads : u # t => pc'[u] = pc[u]
  BY ZenonT(30), <1>1, PcStep
<1>10. /\ c \in 0..(Size - 1) /\ Dist(c, log[i].start) = 0 /\ mem[c] = HdrOf(i)
       /\ log[i].start \in Int
       /\ RoundTotal(log[i].len) \in Nat /\ RoundTotal(log[i].len) >= 8
  <2>1. /\ log[i].start \in Int
        /\ RoundTotal(log[i].len) \in Nat /\ RoundTotal(log[i].len) >= 8
    <3>1. TypeOK /\ LogContiguous
      OBVIOUS
    <3>2. i \in 1..Len(log)
      BY Zenon, <1>3
    <3> HIDE DEF UserInv, i
    <3> QED BY <3>1, <3>2, EndFacts
  <2>2. c \in 0..(Size - 1) /\ Dist(c, log[i].start) = 0 /\ mem[c] = HdrOf(i)
    <3> HIDE DEF i
    <3> QED
      BY <1>3, HeaderAt
  <2> QED
    BY Zenon, <2>1, <2>2
<1> HIDE DEF c
<1>n. Len(log) \in Nat /\ released \in Nat /\ i \in 1..Len(log)
      /\ i \in (released + 1)..Len(log)
  BY <1>3
<1>11. TypeOK'
  <2>1. mem \in [0..(Size - 1) -> Cell] /\ mem[c] \in Cell
    BY ZenonT(40), <1>10 DEF TypeOK
  <2>2. [mem[c] EXCEPT !.busy = FALSE, !.discard = disc] \in Cell
    BY Zenon, <2>1 DEF Cell
  <2>3. mem' \in [0..(Size - 1) -> Cell]
    BY Zenon, <2>1, <2>2, <1>1
  <2> QED
    BY ZenonT(30), <2>3, <1>1, <1>2, <1>4, <1>6 DEF TypeOK
<1>12. LogContiguous'
  <2>1. ASSUME NEW j \in 1..Len(log) PROVE log'[j].start = End(j - 1)'
    <3>1. j - 1 \in 0..Len(log)
      BY <1>n
    <3> QED
      BY <3>1, <1>5, <1>7 DEF LogContiguous
  <2>2. ASSUME NEW j \in 1..Len(log), NEW k \in 1..Len(log), j < k
        PROVE  End(j)' <= log'[k].start
    <3>1. j \in 0..Len(log)
      <4> HIDE DEF UserInv
      <4> QED BY <1>n
    <3> QED
      BY SMTT(30), <3>1, <2>2, <1>5, <1>7 DEF LogContiguous
  <2> QED
    BY Zenon, <2>1, <2>2, <1>4 DEF LogContiguous
<1>13. PositionsInv'
  <2>1. released \in 0..Len(log) /\ \A p \in 0..released : p \in 0..Len(log)
    BY <1>3
  <2>2. \A u \in Threads : pc'[u] \in {"check", "store_prod"} => pc'[u] = pc[u]
    BY <1>9
  <2> QED
    BY SMTT(30), <2>1, <2>2, <1>2, <1>7 DEF PositionsInv
<1>14. MemoryInv'
  <2>1. ASSUME NEW j \in (released + 1)..Len(log), NEW o \in 0..(Size - 1),
               Dist(o, log[j].start) < RoundTotal(log[j].len)
        PROVE  mem'[o] = IF Dist(o, log[j].start) = 0
                           THEN HdrOf(j)' ELSE DataCell(j)
    <3>2. j \in 1..Len(log)
      BY <1>n
    <3>3. mem[o] = IF Dist(o, log[j].start) = 0 THEN HdrOf(j) ELSE DataCell(j)
      BY SMTT(30), <2>1 DEF MemoryInv
    <3>4. CASE j = i /\ o = c
      <4>1. HdrOf(j)' = [rec |-> j, hdr |-> TRUE, len |-> log[j].len,
                         busy |-> FALSE, discard |-> disc]
        <5>1. log'[j].len = log[j].len
          BY <3>2, <1>5
        <5>2. (log'[j].st = "busy") = FALSE
          BY <3>4, <1>6
        <5>3. (log'[j].st = "discarded") = disc
          BY <3>4, <1>6
        <5> QED
          BY Zenon, <5>1, <5>2, <5>3 DEF HdrOf
      <4>2. mem'[o] = [HdrOf(j) EXCEPT !.busy = FALSE, !.discard = disc]
        BY <3>4, <1>1, <1>10 DEF TypeOK
      <4>3. mem'[o] = [rec |-> j, hdr |-> TRUE, len |-> log[j].len,
                       busy |-> FALSE, discard |-> disc]
        BY ZenonT(30), <4>2 DEF HdrOf
      <4>4. Dist(o, log[j].start) = 0
        BY Zenon, <3>4, <1>10
      <4> QED
        BY SMTT(30), <4>1, <4>3, <4>4
    <3>5. CASE j = i /\ o # c
      <4>1. Dist(o, log[i].start) # 0
        BY ZenonT(30), <3>5, <1>10, ConstFacts, DistZero DEF Dist, c
      <4>2. mem'[o] = mem[o]
        BY SMTT(30), <3>5, <1>1, <1>10 DEF TypeOK
      <4> QED
        BY <4>1, <4>2, <3>3, <3>5
    <3>6. CASE j # i
      <4>1. o # c
        <5>1. SUFFICES ASSUME o = c PROVE FALSE
          BY Zenon
        <5>2. Dist(o, log[i].start) < RoundTotal(log[i].len)
          BY SMTT(30), <5>1, <1>10
        <5>3. i < j \/ j < i
          BY <3>6, <3>2, <1>n
        <5> QED
          BY Zenon, <5>2, <5>3, <3>2, <2>1, <1>n, RecordsDisjoint
      <4>2. mem'[o] = mem[o]
        BY <4>1, <1>1, <1>10 DEF TypeOK
      <4>3. HdrOf(j)' = HdrOf(j)
        BY ZenonT(30), <3>2, <3>6, <1>4 DEF HdrOf
      <4> QED
        BY ZenonT(30), <4>2, <4>3, <3>3
    <3> QED
      BY SMTT(30), <3>4, <3>5, <3>6
  <2>2. ASSUME NEW u \in Threads, NEW o \in 0..(Size - 1),
               pc'[u] = "store_prod", Dist(o, Tail_) < RoundTotal(size)
        PROVE  mem'[o] = IF Dist(o, Tail_) = 0 THEN HdrCell(Len(log) + 1, size)
                         ELSE DataCell(Len(log) + 1)
    <3>1. pc[u] = "store_prod"
      BY SMTT(30), <2>2, <1>9
    <3>2. o # c
      <4>1. SUFFICES ASSUME o = c PROVE FALSE
        BY Zenon
      <4>2. Dist(o, log[i].start) < RoundTotal(log[i].len)
        BY SMTT(30), <4>1, <1>10
      <4>3. RoundTotal(size) \in Nat
        BY Zenon, TotalFacts DEF TypeOK
      <4>4. Tail_ + RoundTotal(size) - End(released) <= Size
        BY <3>1 DEF PositionsInv
      <4> QED
        BY Zenon, <4>2, <4>3, <4>4, <2>2, <1>3, FreeDisjoint
    <3>3. mem'[o] = mem[o]
      BY <3>2, <1>1, <1>10 DEF TypeOK
    <3> QED
      BY Zenon, <3>1, <3>3, <2>2 DEF MemoryInv
  <2>3. \A j \in (released + 1)..Len(log) : j \in 1..Len(log)
    BY <1>3
  <2> QED
    BY SMTT(30), <2>1, <2>2, <2>3, <1>2, <1>4, <1>5, <1>7 DEF MemoryInv
<1>15. ThreadsInv'
  <2>1. \A u \in Threads :
          pc'[u] \in {"load_cons", "check", "store_prod", "epoll_wait"} <=> lock' = u
    BY <1>0, <1>2, <1>9 DEF ThreadsInv
  <2>2. ASSUME NEW u \in Threads, pc'[u] = "owner"
        PROVE  /\ u # t /\ pc[u] = "owner"
               /\ own[u] \in 1..Len(log) /\ log'[own[u]].st = "busy"
               /\ sample[u] = (log'[own[u]].start + BPF_RINGBUF_HDR_SZ) % Size
    <3>1. u # t /\ pc[u] = "owner"
      BY SMTT(30), <2>2, <1>9
    <3>2. /\ own[u] \in 1..Len(log) /\ log[own[u]].st = "busy"
          /\ sample[u] = (log[own[u]].start + BPF_RINGBUF_HDR_SZ) % Size
          /\ own[u] # i
      BY SMTT(30), <3>1, <1>0 DEF ThreadsInv
    <3> QED
      BY SMTT(30), <3>1, <3>2, <1>4
  <2> QED
    BY SMTT(30), <2>1, <2>2, <1>2, <1>4 DEF ThreadsInv
<1>16. WaitInv' /\ KernelInv'
  BY ZenonT(30), <1>2, <1>8 DEF WaitInv, KernelInv
<1>17. DrainedInOrder'
  <2>1. {j \in 1..rd : log'[j].st = "committed"}
          = {j \in 1..rd : log[j].st = "committed"}
    BY SMTT(30), <1>8
  <2> QED
    BY ZenonT(30), <2>1, <1>2 DEF DrainedInOrder
<1> QED
  BY <1>11, <1>12, <1>13, <1>14, <1>15, <1>16, <1>17

(* The word the kernel reads is the header of the next record. *)
LEMMA CurHdrFact ==
  ASSUME UserInv, consumer_pos # producer_pos \/ kpc = "cb"
  PROVE  /\ released \in 0..(Len(log) - 1)
         /\ CurHdr = HdrOf(released + 1)
         /\ (consumer_pos + RoundTotal(log[released + 1].len)) % PosMod
              = End(released + 1) % PosMod
         /\ End(released) \in Nat /\ End(released + 1) \in Nat
         /\ End(released) <= End(released + 1) /\ End(released + 1) <= Tail_
<1> USE DEF UserInv
<1>1. Len(log) \in Nat /\ released \in Nat /\ rd \in Nat
      /\ released <= rd /\ rd <= Len(log) /\ Tail_ \in Nat
  BY TailFacts
<1>2. released < Len(log)
  <2>1. CASE kpc = "cb"
    BY <2>1, <1>1 DEF KernelInv
  <2>2. CASE consumer_pos # producer_pos
    <3>1. released # Len(log)
      BY <2>2 DEF PositionsInv, Tail_
    <3> QED
      BY <3>1, <1>1
  <2> QED
    BY <2>1, <2>2
<1> DEFINE i == released + 1
<1>3. i \in (released + 1)..Len(log) /\ i \in 1..Len(log) /\ i \in 0..Len(log)
      /\ released \in 0..Len(log) /\ i - 1 = released
  BY <1>1, <1>2
<1>4. log[i].start = End(released)
  BY Zenon, <1>3 DEF LogContiguous
<1> DEFINE e == End(released)
           n == RoundTotal(log[i].len)
<1>5. e \in Nat /\ n \in Nat /\ End(i) = e + n /\ End(i) <= Tail_
  <2>1. TypeOK /\ LogContiguous
    OBVIOUS
  <2> HIDE DEF UserInv
  <2>2. n \in Nat /\ End(i) = log[i].start + n
    BY <2>1, <1>3, EndFacts
  <2>3. e \in Nat /\ End(i) <= Tail_
    BY <2>1, <1>3, TailFacts
  <2> QED BY <2>2, <2>3, <1>4
<1>6. consumer_pos = e % PosMod
  BY DEF PositionsInv
<1>7. consumer_pos % Size = log[i].start % Size
  <2>1. e \in Int
    BY <1>5
  <2>2. (e % PosMod) % Size = e % Size
    <3> HIDE DEF e
    <3> QED
      BY Zenon, <2>1, ConstFacts, ModMod
  <2> QED
    BY <2>2, <1>4, <1>6
<1>8. mem[log[i].start % Size] = HdrOf(i)
  <2> HIDE DEF i
  <2> QED
    BY <1>3, HeaderAt
<1>9. ((e % PosMod) + n) % PosMod = (e + n) % PosMod
  <2> HIDE DEF e, n
  <2>1. e \in Int /\ n \in Int
    BY <1>5
  <2> QED
    BY Zenon, <2>1, ConstFacts, ModAdd
<1>10. (consumer_pos + n) % PosMod = End(i) % PosMod
  BY <1>5, <1>6, <1>9
<1>11. e <= End(i)
  <2> HIDE DEF e, n
  <2> QED
    BY <1>5
<1> QED
  BY <1>1, <1>2, <1>5, <1>7, <1>8, <1>10, <1>11 DEF CurHdr

(* A step of the kernel that releases nothing or the next record keeps     *)
(* what the threads rely on.                                               *)
LEMMA KernelFrame ==
  ASSUME UserInv, TypeOK',
         UNCHANGED <<mem, producer_pos, log, lock, pc, sample, own, cons_pos,
                     callVars, waitVars>>,
         \/ released' = released /\ consumer_pos' = consumer_pos
         \/ /\ released' = released + 1
            /\ consumer_pos' = End(released + 1) % PosMod
            /\ released \in 0..(Len(log) - 1)
  PROVE  LogContiguous' /\ PositionsInv' /\ MemoryInv' /\ ThreadsInv' /\ WaitInv'
<1> USE DEF UserInv, callVars, waitVars
<1>1. (\A i : End(i)' = End(i)) /\ (\A i : HdrOf(i)' = HdrOf(i)) /\ Tail_' = Tail_
  BY ZenonT(30) DEF End, HdrOf, Tail_
<1>2. Len(log) \in Nat /\ released \in Nat /\ released <= Len(log) /\ Tail_ \in Nat
  BY TailFacts
<1>3. /\ released' \in 0..Len(log) /\ released \in 0..Len(log)
      /\ released <= released'
      /\ consumer_pos' = End(released') % PosMod
  <2>1. CASE released' = released /\ consumer_pos' = consumer_pos
    BY <2>1, <1>2 DEF PositionsInv
  <2>2. CASE /\ released' = released + 1
             /\ consumer_pos' = End(released + 1) % PosMod
             /\ released \in 0..(Len(log) - 1)
    BY <2>2, <1>2
  <2> QED
    BY SMTT(30), <2>1, <2>2
<1>4. PICK r \in 0..Len(log) : r = released'
  BY SMTT(30), <1>3
<1>5. /\ End(r) \in Nat /\ End(released) \in Nat /\ End(released) <= End(r)
      /\ released <= r
  BY SMTT(30), <1>3, <1>4, TailFacts
<1>6. LogContiguous' /\ ThreadsInv' /\ WaitInv'
  BY ZenonT(30), <1>1 DEF LogContiguous, ThreadsInv, WaitInv
<1>7. PositionsInv'
  <2>1. Tail_ - End(r) <= Size
    BY SMTT(30), <1>2, <1>5, ConstFacts DEF PositionsInv
  <2>2. \A t \in Threads : pc[t] = "store_prod" =>
          Tail_ + RoundTotal(size) - End(r) <= Size
    <3>1. SUFFICES ASSUME NEW t \in Threads, pc[t] = "store_prod"
                   PROVE  Tail_ + RoundTotal(size) - End(r) <= Size
      BY SMTT(30)
    <3>2. Tail_ + RoundTotal(size) - End(released) <= Size
      BY SMTT(30), <3>1 DEF PositionsInv
    <3>3. RoundTotal(size) \in Nat
      BY Zenon, TotalFacts DEF TypeOK
    <3> QED
      BY SMTT(30), <3>2, <3>3, <1>2, <1>5, ConstFacts
  <2>3. \A t \in Threads : pc[t] = "check" =>
          \E c \in 0..r : cons_pos = End(c) % PosMod /\ Tail_ - End(c) <= Size
    <3>1. SUFFICES ASSUME NEW t \in Threads, pc[t] = "check"
                   PROVE  \E c \in 0..r : cons_pos = End(c) % PosMod
                                          /\ Tail_ - End(c) <= Size
      OBVIOUS
    <3>2. PICK c \in 0..released :
            cons_pos = End(c) % PosMod /\ Tail_ - End(c) <= Size
      BY <3>1 DEF PositionsInv
    <3>3. c \in 0..r
      BY SMTT(30), <1>2, <1>5
    <3> QED
      BY <3>2, <3>3
  <2> QED
    BY Zenon, <2>1, <2>2, <2>3, <1>1, <1>3, <1>4 DEF PositionsInv
<1>8. MemoryInv'
  <2>1. \A i \in (r + 1)..Len(log) : i \in (released + 1)..Len(log)
    BY <1>2, <1>5
  <2> QED
    BY ZenonT(30), <2>1, <1>1, <1>4 DEF MemoryInv
<1> QED
  BY SMTT(30), <1>6, <1>7, <1>8

(* The callback is done with its sample. *)
LEMMA KernelReleaseInv == UserInv /\ KernelRelease => UserInv'
<1> SUFFICES ASSUME UserInv, KernelRelease PROVE UserInv'
  OBVIOUS
<1> USE DEF UserInv, KernelRelease, callVars, waitVars
<1>1. /\ released \in 0..(Len(log) - 1) /\ CurHdr = HdrOf(released + 1)
      /\ (consumer_pos + RoundTotal(log[released + 1].len)) % PosMod
           = End(released + 1) % PosMod
      /\ End(released + 1) \in Nat
  <2> HIDE DEF UserInv
  <2> QED BY CurHdrFact
<1>2. Len(log) \in Nat /\ rd \in 0..Len(log) /\ released = rd - 1 /\ released \in Nat
  BY SMTT(30) DEF TypeOK, KernelInv
<1>3. released' = released + 1 /\ consumer_pos' = End(released + 1) % PosMod
  <2>1. CurHdr.len = log[released + 1].len
    BY SMTT(30), <1>1 DEF HdrOf
  <2> QED
    <3> HIDE DEF UserInv
    <3> QED BY SMTT(30), <2>1, <1>1, <1>2
<1>4. TypeOK'
  <2>1. consumer_pos' \in 0..(PosMod - 1)
    <3> DEFINE e == End(released + 1)
    <3>1. e \in Int /\ consumer_pos' = e % PosMod
      BY <1>1, <1>3
    <3> HIDE DEF e
    <3> QED
      BY ZenonT(30), <3>1, ConstFacts, DivMod
  <2>2. released' \in 0..rd
    <3> HIDE DEF UserInv
    <3> QED BY <1>2
  <2> QED
    BY SMTT(30), <2>1, <2>2 DEF TypeOK
<1>5. LogContiguous' /\ PositionsInv' /\ MemoryInv' /\ ThreadsInv' /\ WaitInv'
  BY <1>1, <1>3, <1>4, KernelFrame
<1>6. KernelInv' /\ DrainedInOrder'
  BY ZenonT(30) DEF KernelInv, DrainedInOrder
<1> QED
  BY <1>4, <1>5, <1>6

(* The kernel takes the next sample. *)
LEMMA KernelPeekInv == UserInv /\ KernelPeek => UserInv'
<1> SUFFICES ASSUME UserInv, KernelPeek PROVE UserInv'
  OBVIOUS
<1> USE DEF UserInv
<1>0. /\ kpc = "idle" /\ consumer_pos # producer_pos /\ ~CurHdr.busy /\ rd' = rd + 1
      /\ UNCHANGED <<mem, producer_pos, log, lock, pc, sample, own, ret, cons_pos,
                     callVars, waitVars>>
  BY DEF KernelPeek
<1>1. /\ released \in 0..(Len(log) - 1) /\ CurHdr = HdrOf(released + 1)
      /\ (consumer_pos + RoundTotal(log[released + 1].len)) % PosMod
           = End(released + 1) % PosMod
      /\ End(released + 1) \in Nat
  BY <1>0, CurHdrFact
<1>2. Len(log) \in Nat /\ rd \in 0..(Len(log) - 1) /\ released = rd /\ rd \in Nat
  <2>1. Len(log) \in Nat /\ released = rd
    BY SMTT(30), <1>0 DEF TypeOK, KernelInv
  <2> QED
    BY SMTT(30), <2>1, <1>1
<1>3. /\ CurHdr.rec = rd + 1 /\ CurHdr.len = log[rd + 1].len
      /\ CurHdr.discard = (log[rd + 1].st = "discarded")
      /\ CurHdr.busy = (log[rd + 1].st = "busy")
  BY SMTT(30), <1>1, <1>2 DEF HdrOf
<1>4. log[rd + 1].st \in {"committed", "discarded"}
  <2>1. log[rd + 1] \in Record
    <3>1. rd + 1 \in 1..Len(log)
      BY <1>2
    <3> QED
      BY <3>1, EndFacts
  <2> QED
    BY ZenonT(30), <2>1, <1>0, <1>3 DEF Record
<1>5. \/ /\ log[rd + 1].st = "discarded"
         /\ consumer_pos' = End(rd + 1) % PosMod
         /\ released' = rd + 1 /\ UNCHANGED <<kpc, drained>>
      \/ /\ log[rd + 1].st = "committed"
         /\ kpc' = "cb" /\ drained' = Append(drained, rd + 1)
         /\ UNCHANGED <<consumer_pos, released>>
  <2>1. CASE log[rd + 1].st = "discarded"
    BY Zenon, <2>1, <1>0, <1>1, <1>2, <1>3 DEF KernelPeek
  <2>2. CASE log[rd + 1].st = "committed"
    BY <2>2, <1>3 DEF KernelPeek
  <2> QED
    BY <2>1, <2>2, <1>4
<1>6. TypeOK'
  <2>1. consumer_pos' \in 0..(PosMod - 1)
    <3> DEFINE e == End(rd + 1)
    <3>1. e \in Int /\ (consumer_pos' = e % PosMod \/ consumer_pos' = consumer_pos)
      BY <1>1, <1>2, <1>5
    <3> HIDE DEF e
    <3>2. e % PosMod \in 0..(PosMod - 1)
      BY SMTT(30), <3>1, ConstFacts, DivMod
    <3> QED
      BY Zenon, <3>1, <3>2 DEF TypeOK
  <2>2. rd' \in 0..Len(log) /\ released' \in 0..rd'
    BY <1>0, <1>2, <1>5
  <2>3. drained' \in Seq(Nat)
    <3>1. rd + 1 \in Nat /\ drained \in Seq(Nat)
      BY <1>2 DEF TypeOK
    <3>2. drained' = drained \/ drained' = Append(drained, rd + 1)
      BY SMTT(30), <1>5
    <3> QED
      <4> HIDE DEF UserInv
      <4> QED BY SMTT(30), <3>1, <3>2
  <2>4. kpc' \in {"idle", "cb"}
    BY SMTT(30), <1>0, <1>5
  <2> QED
    BY Zenon, <2>1, <2>2, <2>3, <2>4, <1>0 DEF TypeOK, callVars, waitVars
<1>7. LogContiguous' /\ PositionsInv' /\ MemoryInv' /\ ThreadsInv' /\ WaitInv'
  <2>1. \/ released' = released /\ consumer_pos' = consumer_pos
        \/ /\ released' = released + 1
           /\ consumer_pos' = End(released + 1) % PosMod
           /\ released \in 0..(Len(log) - 1)
    BY Zenon, <1>1, <1>2, <1>5
  <2> QED
    BY SMTT(30), <2>1, <1>0, <1>6, KernelFrame
<1>8. KernelInv'
  <2>1. \A i \in 1..(rd + 1) : log[i].st # "busy"
    BY <1>2, <1>4 DEF KernelInv
  <2> QED
    BY <2>1, <1>0, <1>2, <1>5 DEF KernelInv
<1>9. DrainedInOrder'
  <2> DEFINE S == {drained[a] : a \in 1..Len(drained)}
  <2>1. drained \in Seq(Nat) /\ Len(drained) \in Nat
    BY DEF TypeOK
  <2>2. /\ \A a, b \in 1..Len(drained) : a < b => drained[a] < drained[b]
        /\ S = {i \in 1..rd : log[i].st = "committed"}
    BY SMTT(30) DEF DrainedInOrder
  <2>3. CASE log[rd + 1].st = "discarded"
    <3>1. UNCHANGED <<drained, log>> /\ rd' = rd + 1
      BY <2>3, <1>0, <1>5
    <3>2. {i \in 1..(rd + 1) : log[i].st = "committed"}
            = {i \in 1..rd : log[i].st = "committed"}
      BY SMTT(30), <2>3, <1>2
    <3> QED
      BY SMTT(30), <3>1, <3>2, <2>2 DEF DrainedInOrder
  <2>4. CASE log[rd + 1].st = "committed"
    <3>1. drained' = Append(drained, rd + 1) /\ rd' = rd + 1 /\ log' = log
      BY <2>4, <1>0, <1>5
    <3>2. /\ Len(drained') = Len(drained) + 1
          /\ \A a \in 1..Len(drained) : drained'[a] = drained[a]
          /\ drained'[Len(drained) + 1] = rd + 1
      BY <3>1, <2>1, <1>2
    <3>3. \A a \in 1..Len(drained) : drained[a] \in 1..rd
      BY <2>2
    <3>4. \A a, b \in 1..Len(drained') : a < b => drained'[a] < drained'[b]
      <4>1. SUFFICES ASSUME NEW a \in 1..Len(drained'),
                            NEW b \in 1..Len(drained'), a < b
                     PROVE  drained'[a] < drained'[b]
        OBVIOUS
      <4>2. a \in 1..Len(drained)
        BY SMTT(30), <4>1, <3>2, <2>1
      <4>3. CASE b \in 1..Len(drained)
        BY <4>1, <4>2, <4>3, <3>2, <2>2
      <4>4. CASE b = Len(drained) + 1
        BY SMTT(30), <4>2, <4>4, <3>2, <3>3, <1>2
      <4> QED
        BY <4>3, <4>4, <3>2, <2>1
    <3>5. {drained'[a] : a \in 1..Len(drained')} = S \cup {rd + 1}
      <4>1. ASSUME NEW a \in 1..Len(drained')
            PROVE  drained'[a] \in S \cup {rd + 1}
        <5>1. a \in 1..Len(drained) \/ a = Len(drained) + 1
          BY <3>2, <2>1
        <5> QED
          BY <5>1, <3>2
      <4>2. ASSUME NEW a \in 1..Len(drained)
            PROVE  drained[a] \in {drained'[b] : b \in 1..Len(drained')}
        <5>1. a \in 1..Len(drained') /\ drained'[a] = drained[a]
          BY <3>2, <2>1
        <5> QED
          BY <5>1
      <4>3. rd + 1 \in {drained'[b] : b \in 1..Len(drained')}
        <5>1. Len(drained) + 1 \in 1..Len(drained')
          BY <3>2, <2>1
        <5> QED
          BY <5>1, <3>2
      <4> QED
        BY <4>1, <4>2, <4>3
    <3>6. {i \in 1..(rd + 1) : log[i].st = "committed"}
            = {i \in 1..rd : log[i].st = "committed"} \cup {rd + 1}
      BY <2>4, <1>2
    <3>7. {drained'[a] : a \in 1..Len(drained')} = {i \in 1..rd' : log'[i].st = "committed"}
      BY <3>1, <3>5, <3>6, <2>2
    <3> QED
      BY Zenon, <3>4, <3>7 DEF DrainedInOrder
  <2> QED
    BY SMTT(30), <2>3, <2>4, <1>4
<1> QED
  BY <1>6, <1>7, <1>8, <1>9

------------------------------------------------------------------------------
(* The theorems *)

\* Every step of the producers and of the kernel preserves the inductive
\* invariant, so it holds in every state of every instance.
THEOREM UserRingInvariant == Spec => []UserInv
<1>1. UserInv /\ [Next]_vars => UserInv'
  <2> SUFFICES ASSUME UserInv, [Next]_vars PROVE UserInv'
    OBVIOUS
  <2>1. ASSUME NEW t \in Threads, CallReserve(t) PROVE UserInv'
    BY <2>1, CallReserveInv
  <2>2. ASSUME NEW t \in Threads, CallReserveBlocking(t) PROVE UserInv'
    BY <2>2, CallReserveBlockingInv
  <2>3. ASSUME NEW t \in Threads, LoadCons(t) PROVE UserInv'
    BY <2>3, LoadConsInv
  <2>4. ASSUME NEW t \in Threads, ReserveFails(t) \/ EpollError(t) PROVE UserInv'
    BY <2>4, ReserveFailsInv
  <2>5. ASSUME NEW t \in Threads, MustWait(t) PROVE UserInv'
    BY <2>5, MustWaitInv
  <2>6. ASSUME NEW t \in Threads, WriteHdr(t) PROVE UserInv'
    BY <2>6, WriteHdrInv
  <2>7. ASSUME NEW t \in Threads, StoreProd(t) PROVE UserInv'
    BY <2>7, StoreProdInv
  <2>8. ASSUME NEW t \in Threads, EpollReturn(t) PROVE UserInv'
    BY <2>8, EpollReturnInv
  <2>9. ASSUME NEW t \in Threads, Submit(t) \/ Discard(t) PROVE UserInv'
    BY Zenon, <2>9, CommitInv DEF Submit, Discard
  <2>10. CASE KernelPeek
    BY <2>10, KernelPeekInv
  <2>11. CASE KernelRelease
    BY <2>11, KernelReleaseInv
  <2>12. CASE UNCHANGED vars
    <3>1. UNCHANGED <<mem, producer_pos, log, consumer_pos, kpc, rd, released,
                      drained, lock, pc, sample, own, ret, cons_pos, size,
                      blocking, timeout_ms, last, ms_remaining, elapsed>>
      BY ZenonT(30), <2>12 DEF vars, kernelVars, callVars, waitVars
    <3>2. TypeOK' /\ WaitInv'
      BY <3>1 DEF UserInv, TypeOK, WaitInv
    <3> QED
      BY ZenonT(30), <3>1, <3>2, ReserveFrame DEF UserInv, kernelVars, PositionsInv, ThreadsInv
  <2> QED
    BY SMTT(30), <2>1, <2>2, <2>3, <2>4, <2>5, <2>6, <2>7, <2>8, <2>9, <2>10, <2>11, <2>12
       DEF Next, Reserving, Kernel
<1> QED
  BY <1>1, InitInv, PTL DEF Spec

\* Whatever consumer position a reservation was based on, it leaves the
\* bytes of every sample that is not released as they were written.
THEOREM UserNeverOverwrites == Spec => []NeverOverwrites
<1>1. UserInv => NeverOverwrites
  <2> SUFFICES ASSUME UserInv, NEW i \in (released + 1)..Len(log),
                      NEW o \in 0..(Size - 1),
                      Dist(o, log[i].start) < RoundTotal(log[i].len)
               PROVE  /\ mem[o].rec = i
                      /\ mem[o].hdr <=> Dist(o, log[i].start) = 0
    BY SMTT(30) DEF NeverOverwrites, Intact
  <2>1. mem[o] = IF Dist(o, log[i].start) = 0 THEN HdrOf(i) ELSE DataCell(i)
    BY DEF UserInv, MemoryInv
  <2> QED
    BY SMTT(30), <2>1 DEF HdrOf, DataCell
<1> QED
  BY <1>1, UserRingInvariant, PTL

\* The header that submit and discard compute from a sample pointer is the
\* busy header of the record its thread reserved.
THEOREM UserCommitHits == Spec => []CommitHitsOwnHeader
<1>1. UserInv => CommitHitsOwnHeader
  <2> SUFFICES ASSUME UserInv, NEW t \in Threads, pc[t] = "owner"
               PROVE  /\ mem[HdrOffset(t)].hdr
                      /\ mem[HdrOffset(t)].rec = own[t]
                      /\ mem[HdrOffset(t)].busy
    BY DEF CommitHitsOwnHeader
  <2>1. own[t] \in (released + 1)..Len(log)
        /\ HdrOffset(t) = log[own[t]].start % Size
    BY SMTT(30), HdrOffsetFact
  <2>2. mem[HdrOffset(t)] = HdrOf(own[t])
    BY SMTT(30), <2>1, HeaderAt DEF UserInv
  <2>3. log[own[t]].st = "busy"
    BY SMTT(30) DEF UserInv, ThreadsInv
  <2>4. /\ HdrOf(own[t]).hdr = TRUE /\ HdrOf(own[t]).rec = own[t]
        /\ HdrOf(own[t]).busy = (log[own[t]].st = "busy")
    BY Zenon DEF HdrOf
  <2> QED
    BY <2>2, <2>3, <2>4, Zenon
<1> QED
  BY <1>1, UserRingInvariant, PTL

\* The kernel's callback gets the submitted samples, each once, in the order
\* of their reservation.
THEOREM UserDrained == Spec => []DrainedInOrder
<1>1. UserInv => DrainedInOrder
  BY DEF UserInv
<1> QED
  BY <1>1, UserRingInvariant, PTL

\* A blocking reserve never reports ENOSPC before its timeout, and never if
\* it has none.
THEOREM UserNoEarlyTimeout == Spec => NoEarlyTimeout
<1> DEFINE A == \A t \in Threads :
                  pc[t] = "check" /\ blocking /\ ret'[t] = "ENOSPC" /\ pc'[t] = "idle"
                    => timeout_ms # -1 /\ elapsed >= timeout_ms
<1>1. UserInv /\ [Next]_vars => [A]_vars
  <2> SUFFICES ASSUME UserInv, Next, NEW t \in Threads, pc[t] = "check",
                      blocking, ret'[t] = "ENOSPC", pc'[t] = "idle"
               PROVE  timeout_ms # -1 /\ elapsed >= timeout_ms
    BY Zenon
  <2>1. lock = t /\ t # NoThread
    BY SMTT(30), UserBoundsAssumption, LockFacts DEF UserInv
  <2>2. ReserveFails(t)
    <3>1. ~Kernel
      BY Zenon DEF Kernel, KernelPeek, KernelRelease
    <3>2. PICK u \in Threads : \/ CallReserve(u) \/ CallReserveBlocking(u)
                               \/ Reserving(u) \/ EpollError(u)
                               \/ Submit(u) \/ Discard(u)
      BY Zenon, <3>1 DEF Next
    <3>3. u = t
      <4>1. SUFFICES ASSUME u # t PROVE pc'[t] = pc[t]
        BY Zenon
      <4> QED
        BY SMTT(30), <3>2, <4>1 DEF UserInv, TypeOK, CallReserve, CallReserveBlocking,
           Reserving, LoadCons, ReserveFails, MustWait, WriteHdr, StoreProd,
           EpollReturn, EpollError, Submit, Discard, Commit
    <3> QED
      BY Zenon, <3>2, <3>3 DEF UserInv, TypeOK, CallReserve, CallReserveBlocking,
         Reserving, LoadCons, MustWait, WriteHdr, StoreProd, EpollReturn,
         EpollError, Submit, Discard, Commit
  <2>3. last
    BY <2>2 DEF ReserveFails, UserInv, TypeOK
  <2> QED
    BY <2>1, <2>3 DEF UserInv, WaitInv
<1>2. NoEarlyTimeout <=> [][A]_vars
  BY DEF NoEarlyTimeout
<1> HIDE DEF A
<1> QED
  BY <1>1, <1>2, UserRingInvariant, PTL DEF Spec
==============================================================================

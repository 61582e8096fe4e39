---------------------------- MODULE RingBufProofs ----------------------------
(***************************************************************************)
(* Proofs about the ring consumer, for every ring size, position width,    *)
(* set of record lengths, limit n and number of records.                   *)
(***************************************************************************)
EXTENDS RingBuf, SequenceTheorems, TLAPS

------------------------------------------------------------------------------
(* Wrapped unsigned positions: what is left of a position, a distance or   *)
(* an offset when positions are kept modulo M and the data area they index *)
(* has S bytes, S dividing M.                                              *)

(* Division with remainder. *)
LEMMA DivMod ==
  ASSUME NEW a \in Int, NEW M \in Nat \ {0}
  PROVE  /\ a % M \in 0..(M - 1)
         /\ a \div M \in Int
         /\ a = M * (a \div M) + (a % M)
  BY Z3

(* The remainder is unique. *)
LEMMA ModUnique ==
  ASSUME NEW M \in Nat \ {0}, NEW q \in Int, NEW r \in 0..(M - 1),
         NEW a \in Int, a = M * q + r
  PROVE  a % M = r
<1>1. a % M \in 0..(M - 1) /\ a \div M \in Int /\ a = M * (a \div M) + (a % M)
  BY DivMod
<1> DEFINE d == q - (a \div M)
<1>2. M * d = (a % M) - r
  BY <1>1
<1>3. d \in Int
  BY <1>1
<1>4. CASE d >= 1
  <2>1. M * d >= M
    BY <1>3, <1>4
  <2> QED
    BY <2>1, <1>2, <1>1
<1>5. CASE d <= -1
  <2>1. M * d <= -M
    BY <1>3, <1>5
  <2> QED
    BY <2>1, <1>2, <1>1
<1>6. CASE d = 0
  BY <1>6, <1>2, <1>1
<1> QED
  BY <1>3, <1>4, <1>5, <1>6

(* Adding a multiple of M does not change the remainder. *)
LEMMA ModShift ==
  ASSUME NEW M \in Nat \ {0}, NEW a \in Int, NEW k \in Int
  PROVE  (a + M * k) % M = a % M
<1>1. a % M \in 0..(M - 1) /\ a \div M \in Int /\ a = M * (a \div M) + (a % M)
  BY DivMod
<1> DEFINE q == (a \div M) + k
<1>2. q \in Int /\ a + M * k \in Int
  BY <1>1
<1>3. a + M * k = M * q + (a % M)
  BY <1>1
<1> DEFINE r == a % M  b == a + M * k
<1>4. r \in 0..(M - 1) /\ q \in Int /\ b \in Int /\ b = M * q + r
  BY <1>1, <1>2, <1>3
<1> HIDE DEF q, r, b
<1>5. b % M = r
  BY ZenonT(30), <1>4, ModUnique
<1> QED
  BY Zenon, <1>5 DEF r, b

(* A number below M is its own remainder. *)
LEMMA ModSmall ==
  ASSUME NEW M \in Nat \ {0}, NEW a \in 0..(M - 1)
  PROVE  a % M = a
<1>1. a = M * 0 + a
  OBVIOUS
<1> QED
  BY <1>1, ModUnique

(* Advancing a wrapped position wraps the advanced position. *)
LEMMA ModAdd ==
  ASSUME NEW M \in Nat \ {0}, NEW a \in Int, NEW d \in Int
  PROVE  ((a % M) + d) % M = (a + d) % M
<1>1. a % M \in 0..(M - 1) /\ a \div M \in Int /\ a = M * (a \div M) + (a % M)
  BY DivMod
<1> DEFINE k == a \div M
<1>2. k \in Int /\ (a % M) + d \in Int
  BY <1>1
<1>3. a + d = ((a % M) + d) + M * k
  BY <1>1
<1> DEFINE r == (a % M) + d
<1>4. r \in Int /\ a + d = r + M * k
  BY Zenon, <1>2, <1>3
<1> HIDE DEF k, r
<1>5. (r + M * k) % M = r % M
  BY Zenon, <1>2, <1>4, ModShift
<1> QED
  BY Zenon, <1>4, <1>5 DEF r

(* The difference of two wrapped positions less than M apart is exact. *)
LEMMA SubExact ==
  ASSUME NEW M \in Nat \ {0}, NEW a \in Int, NEW b \in Int,
         0 <= a - b, a - b < M
  PROVE  ((a % M) - (b % M)) % M = a - b
<1>1. a % M \in 0..(M - 1) /\ a \div M \in Int /\ a = M * (a \div M) + (a % M)
  BY DivMod
<1>2. b % M \in 0..(M - 1) /\ b \div M \in Int /\ b = M * (b \div M) + (b % M)
  BY DivMod
<1> DEFINE k == (b \div M) - (a \div M)
<1>3. k \in Int /\ a - b \in 0..(M - 1) /\ (a % M) - (b % M) \in Int
  BY <1>1, <1>2
<1>4. M * k = M * (b \div M) - M * (a \div M)
  BY <1>1, <1>2
<1> HIDE DEF k
<1>5. (a % M) - (b % M) = M * k + (a - b)
  <2> DEFINE ra == a % M  rb == b % M
             xa == M * (a \div M)  xb == M * (b \div M)  xk == M * k
  <2>1. /\ ra \in Int /\ rb \in Int /\ xa \in Int /\ xb \in Int
        /\ a = xa + ra /\ b = xb + rb /\ xk = xb - xa
    BY <1>1, <1>2, <1>4
  <2> HIDE DEF ra, rb, xa, xb, xk
  <2>2. ra - rb = xk + (a - b)
    BY <2>1
  <2> QED
    BY <2>2 DEF ra, rb, xk
<1> QED
  BY <1>3, <1>5, ModUnique

(* A divisor of the position modulus sees through the wrap. *)
LEMMA DividesFactor ==
  ASSUME NEW S \in Nat \ {0}, NEW M \in Nat \ {0}, M % S = 0
  PROVE  M \div S \in Int /\ M = S * (M \div S)
  BY DivMod

(* The offset of a wrapped position is the offset of the position. *)
LEMMA ModMod ==
  ASSUME NEW S \in Nat \ {0}, NEW M \in Nat \ {0}, M % S = 0, NEW a \in Int
  PROVE  (a % M) % S = a % S
<1>1. a % M \in 0..(M - 1) /\ a \div M \in Int /\ a = M * (a \div M) + (a % M)
  BY DivMod
<1>2. M \div S \in Int /\ M = S * (M \div S)
  BY DividesFactor
<1> DEFINE k == (M \div S) * (a \div M)
<1>3. k \in Int /\ a % M \in Int
  BY <1>1, <1>2
<1>4. M * (a \div M) = S * k
  BY <1>1, <1>2
<1>5. a = (a % M) + S * k
  BY <1>1, <1>4
<1> DEFINE r == a % M
<1>6. r \in Int /\ a = r + S * k
  BY Zenon, <1>3, <1>5
<1> HIDE DEF k, r
<1>7. (r + S * k) % S = r % S
  BY Zenon, <1>3, <1>6, ModShift
<1> QED
  BY Zenon, <1>6, <1>7 DEF r

(* So is the distance from it to an offset of the data area. *)
LEMMA DistWrap ==
  ASSUME NEW S \in Nat \ {0}, NEW M \in Nat \ {0}, M % S = 0,
         NEW o \in Int, NEW t \in Int
  PROVE  (o - (t % M)) % S = (o - t) % S
<1>1. t % M \in 0..(M - 1) /\ t \div M \in Int /\ t = M * (t \div M) + (t % M)
  BY DivMod
<1>2. M \div S \in Int /\ M = S * (M \div S)
  BY DividesFactor
<1> DEFINE k == (M \div S) * (t \div M)
<1>3. k \in Int /\ o - t \in Int
  BY <1>1, <1>2
<1>4. M * (t \div M) = S * k
  BY <1>1, <1>2
<1>5. o - (t % M) = (o - t) + S * k
  BY <1>1, <1>4
<1> DEFINE r == o - t
<1>6. r \in Int /\ o - (t % M) = r + S * k
  BY Zenon, <1>3, <1>5
<1> HIDE DEF k, r
<1>7. (r + S * k) % S = r % S
  BY Zenon, <1>3, <1>6, ModShift
<1> QED
  BY Zenon, <1>6, <1>7 DEF r

(* Distance zero means the offset of the position itself, and only that. *)
LEMMA DistZero ==
  ASSUME NEW S \in Nat \ {0}, NEW s \in Int, NEW o \in 0..(S - 1)
  PROVE  (o - s) % S = 0 <=> o = s % S
<1>1. s % S \in 0..(S - 1) /\ s \div S \in Int /\ s = S * (s \div S) + (s % S)
  BY DivMod
<1>2. ASSUME o = s % S PROVE (o - s) % S = 0
  <2> DEFINE k == -(s \div S)
  <2>1. k \in Int /\ o - s \in Int /\ o - s = S * k + 0
    BY <1>1, <1>2
  <2> HIDE DEF k
  <2> QED
    BY <2>1, ModUnique
<1>3. ASSUME (o - s) % S = 0 PROVE o = s % S
  <2>1. (o - s) \div S \in Int /\ o - s = S * ((o - s) \div S) + ((o - s) % S)
    BY DivMod
  <2> DEFINE k == -((o - s) \div S)
  <2>2. k \in Int
    BY <2>1
  <2>3. o - s = S * ((o - s) \div S)
    BY <2>1, <1>3
  <2>4. s = S * k + o
    BY <2>1, <2>3
  <2> HIDE DEF k
  <2> QED
    BY <2>2, <2>4, ModUnique
<1> QED
  BY <1>2, <1>3

(* Two stretches of positions that together span at most S bytes share no  *)
(* byte of the data area.                                                  *)
LEMMA Disjoint ==
  ASSUME NEW S \in Nat \ {0}, NEW o \in Int,
         NEW s1 \in Int, NEW t1 \in Nat, NEW s2 \in Int, NEW t2 \in Nat,
         s1 + t1 <= s2, s2 + t2 <= s1 + S,
         (o - s1) % S < t1, (o - s2) % S < t2
  PROVE  FALSE
<1>0. o - s1 \in Int /\ o - s2 \in Int
  OBVIOUS
<1>1. /\ (o - s1) % S \in 0..(S - 1) /\ (o - s1) \div S \in Int
      /\ o - s1 = S * ((o - s1) \div S) + ((o - s1) % S)
  BY Zenon, <1>0, DivMod
<1>2. /\ (o - s2) % S \in 0..(S - 1) /\ (o - s2) \div S \in Int
      /\ o - s2 = S * ((o - s2) \div S) + ((o - s2) % S)
  BY Zenon, <1>0, DivMod
<1> DEFINE q == ((o - s1) \div S) - ((o - s2) \div S)
           a == s1 + ((o - s1) % S)
           b == s2 + ((o - s2) % S)
<1>3. q \in Int /\ a \in Int /\ b \in Int
  BY <1>1, <1>2
<1>4. b - a = S * q
  <2>1. S * q = S * ((o - s1) \div S) - S * ((o - s2) \div S)
    BY <1>1, <1>2
  <2> QED
    BY <2>1, <1>1, <1>2
<1>5. 0 < b - a /\ b - a < S
  BY <1>1, <1>2
<1> HIDE DEF q, a, b
<1>6. CASE q >= 1
  <2>1. S * q >= S
    BY <1>3, <1>6
  <2> QED
    BY <2>1, <1>3, <1>4, <1>5
<1>7. CASE q <= 0
  <2>1. S * q <= 0
    BY <1>3, <1>7
  <2> QED
    BY <2>1, <1>3, <1>4, <1>5
<1> QED
  BY <1>3, <1>6, <1>7

------------------------------------------------------------------------------
(* The ring *)

(* The constants are usable as moduli. *)
LEMMA ConstFacts ==
  /\ Size \in Nat \ {0}
  /\ PosMod \in Nat \ {0}
  /\ PosMod % Size = 0
  /\ Size < PosMod
  BY SizeAssumption, PosModAssumption DEF BPF_RINGBUF_HDR_SZ

(* A record takes at least its header, and libbpf's roundup_len computes   *)
(* what the kernel took.                                                   *)
LEMMA TotalFacts ==
  ASSUME NEW len \in Nat
  PROVE  /\ KernelTotal(len) \in Nat
         /\ KernelTotal(len) >= 8
         /\ roundup_len(len) = KernelTotal(len)
  BY DEF KernelTotal, roundup_len, BPF_RINGBUF_HDR_SZ

(* Record boundaries are naturals that grow along the log. *)
LEMMA EndFacts ==
  ASSUME TypeOK, LogContiguous
  PROVE  /\ Len(log) \in Nat
         /\ \A i \in 1..Len(log) :
              /\ log[i] \in Record
              /\ log[i].start \in Nat /\ log[i].len \in Nat
              /\ KernelTotal(log[i].len) \in Nat
              /\ KernelTotal(log[i].len) >= 8
         /\ \A i \in 0..Len(log) : End(i) \in Nat
         /\ \A i, j \in 0..Len(log) : i < j => End(i) < End(j)
         /\ \A i \in 1..Len(log) :
              End(i) = log[i].start + KernelTotal(log[i].len)
<1>1. Len(log) \in Nat /\ \A i \in 1..Len(log) : log[i] \in Record
  BY DEF TypeOK
<1>2. \A i \in 1..Len(log) :
         /\ log[i].start \in Nat /\ log[i].len \in Nat
         /\ KernelTotal(log[i].len) \in Nat /\ KernelTotal(log[i].len) >= 8
  BY Zenon, <1>1, TotalFacts DEF Record
<1>3. \A i \in 1..Len(log) : End(i) = log[i].start + KernelTotal(log[i].len)
  BY <1>1 DEF End
<1>4. \A i \in 0..Len(log) : End(i) \in Nat
  BY <1>1, <1>2, <1>3 DEF End
<1>5. ASSUME NEW i \in 0..Len(log), NEW j \in 0..Len(log), i < j
      PROVE  End(i) < End(j)
  <2>1. End(j) = log[j].start + KernelTotal(log[j].len) /\ j \in 1..Len(log)
    BY <1>1, <1>3, <1>5
  <2>2. CASE i = 0
    BY <2>1, <2>2, <1>2 DEF End
  <2>3. CASE i # 0
    <3>1. i \in 1..Len(log) /\ End(i) <= log[j].start
      BY <1>1, <1>5, <2>1, <2>3 DEF LogContiguous
    <3> QED
      BY <3>1, <2>1, <1>2, <1>4
  <2> QED
    BY <2>2, <2>3
<1> QED
  BY <1>1, <1>2, <1>3, <1>4, <1>5

(* Between two boundaries at most a ring apart, wrapped subtraction gives  *)
(* their distance.                                                         *)
LEMMA SubEnd ==
  ASSUME NEW a \in Nat, NEW b \in Nat, b <= a, a - b <= Size
  PROVE  Sub(a % PosMod, b % PosMod) = a - b
<1>1. 0 <= a - b /\ a - b < PosMod /\ a \in Int /\ b \in Int
  BY ConstFacts
<1>2. ((a % PosMod) - (b % PosMod)) % PosMod = a - b
  BY Zenon, <1>1, ConstFacts, SubExact
<1> QED
  BY <1>2 DEF Sub

(* The word the inner loop reads is the header of the next record. *)
LEMMA CurHdrFact ==
  ASSUME RingInv, pc = "loop", Pending
  PROVE  /\ rd \in 0..(Len(log) - 1)
         /\ CurHdr = HdrOf(rd + 1)
         /\ End(rd) = log[rd + 1].start
         /\ \E p \in (rd + 1)..Len(log) :
              p >= backlog /\ prod_pos = End(p) % PosMod
<1> USE DEF RingInv
<1>1. TypeOK /\ LogContiguous
  OBVIOUS
<1>2. rd \in Nat /\ Len(log) \in Nat /\ rd <= Len(log) /\ released = rd
  BY EndFacts DEF TypeOK, ConsumerInv
<1>3. PICK p \in rd..Len(log) : p >= backlog /\ prod_pos = End(p) % PosMod
  BY DEF PositionsInv
<1>4. cons_pos = End(rd) % PosMod
  BY DEF PositionsInv
<1>5. p # rd
  <2>1. SUFFICES ASSUME p = rd PROVE FALSE
    OBVIOUS
  <2>2. End(rd) \in Nat
    BY <1>1, <1>2, EndFacts
  <2>3. Sub(prod_pos, cons_pos) = 0
    BY <2>1, <2>2, <1>3, <1>4, SubEnd, ConstFacts
  <2> QED
    BY <2>3 DEF Pending
<1>6. p \in (rd + 1)..Len(log) /\ rd \in 0..(Len(log) - 1)
  BY <1>2, <1>3, <1>5
<1>7. End(rd) = log[rd + 1].start
  BY <1>2, <1>6 DEF LogContiguous
<1>8. cons_pos % Size = log[rd + 1].start % Size
  <2>1. End(rd) \in Int
    BY <1>1, <1>2, EndFacts
  <2> QED
    BY ZenonT(30), <2>1, <1>4, <1>7, ConstFacts, ModMod
<1>9. CurHdr = HdrOf(rd + 1)
  <2> DEFINE s == log[rd + 1].start
             o == s % Size
  <2>1. s \in Int /\ KernelTotal(log[rd + 1].len) >= 8
        /\ KernelTotal(log[rd + 1].len) \in Nat
    BY <1>1, <1>2, <1>6, EndFacts
  <2>2. o \in 0..(Size - 1)
    BY Zenon, <2>1, ConstFacts, DivMod
  <2>3. Dist(o, s) = 0
    <3> HIDE DEF s
    <3> QED
      BY Zenon, <2>1, <2>2, ConstFacts, DistZero DEF Dist
  <2>4. mem[o] = HdrOf(rd + 1)
    BY <2>1, <2>2, <2>3, <1>2, <1>6 DEF MemoryInv
  <2> QED
    BY <2>4, <1>8 DEF CurHdr
<1> QED
  BY <1>3, <1>6, <1>7, <1>9

(* The invariant holds initially. *)
LEMMA InitInv == Init => RingInv
<1> SUFFICES ASSUME Init PROVE RingInv
  OBVIOUS
<1>1. Len(log) = 0 /\ End(0) = 0 /\ Tail_ = 0
  BY DEF Init, End, Tail_
<1>2. 0 % PosMod = 0
  BY ConstFacts, ModSmall
<1>3. TypeOK
  <2>1. mem \in [0..(Size - 1) -> Cell]
    BY DEF Init, Cell, DataCell
  <2>2. got_new_data \in BOOLEAN
    BY Zenon DEF Init
  <2>3. log \in Seq(Record) /\ delivered \in Seq(Nat)
    BY DEF Init
  <2> QED
    BY <2>1, <2>2, <2>3, <1>1, ConstFacts DEF Init, TypeOK
<1>4. LogContiguous /\ MemoryInv
  BY <1>1 DEF Init, LogContiguous, MemoryInv
<1>5. PositionsInv
  BY <1>1, <1>2, ConstFacts DEF Init, PositionsInv
<1>6. ConsumerInv /\ DrainsBacklog
  BY <1>1, BoundsAssumption DEF Init, ConsumerInv, DrainsBacklog
<1>7. InOrderExactlyOnce
  BY DEF Init, InOrderExactlyOnce
<1> QED
  BY <1>3, <1>4, <1>5, <1>6, <1>7 DEF RingInv

(* Steps of the consumer leave the log and the data area alone. *)
LEMMA SameLog ==
  ASSUME UNCHANGED <<log, mem>>
  PROVE  /\ \A i : End(i)' = End(i)
         /\ Tail_' = Tail_
         /\ LogContiguous => LogContiguous'
         /\ \A r \in Nat : /\ released' = r /\ released \in Nat
                           /\ released <= r /\ Len(log) \in Nat
                           /\ MemoryInv
                           => MemoryInv'
<1>1. \A i : End(i)' = End(i)
  BY DEF End
<1>2. \A i : HdrOf(i)' = HdrOf(i)
  BY DEF HdrOf
<1>3. Tail_' = Tail_
  BY <1>1 DEF Tail_
<1>4. LogContiguous => LogContiguous'
  BY <1>1 DEF LogContiguous
<1>5. ASSUME NEW r \in Nat, released' = r, released \in Nat, released <= r,
             Len(log) \in Nat, MemoryInv
      PROVE  MemoryInv'
  <2>1. SUFFICES ASSUME NEW i \in (r + 1)..Len(log),
                        NEW o \in 0..(Size - 1),
                        Dist(o, log[i].start) < KernelTotal(log[i].len)
                 PROVE  mem[o] = IF Dist(o, log[i].start) = 0
                                   THEN HdrOf(i) ELSE DataCell(i)
    BY <1>2, <1>5 DEF MemoryInv
  <2>2. i \in (released + 1)..Len(log)
    BY <1>5
  <2> QED
    BY <2>1, <2>2, <1>5 DEF MemoryInv
<1> QED
  BY <1>1, <1>3, <1>4, <1>5

(* Beginning a call, reading producer_pos, bailing out on a busy record    *)
(* and leaving the loop.                                                   *)
LEMMA StartInv == RingInv /\ Start => RingInv'
<1> SUFFICES ASSUME RingInv, Start PROVE RingInv'
  OBVIOUS
<1> USE DEF RingInv, Start, kernelVars
<1>1. TypeOK' /\ Len(log) \in Nat /\ released \in Nat
  BY DEF TypeOK, ResolvedPrefix
<1>2. LogContiguous' /\ MemoryInv'
  BY <1>1, SameLog
<1>3. PositionsInv'
  BY SameLog DEF PositionsInv, ConsumerInv
<1>4. ConsumerInv'
  BY <1>1, BoundsAssumption DEF ConsumerInv, ResolvedPrefix, TypeOK
<1>5. InOrderExactlyOnce' /\ DrainsBacklog'
  BY DEF InOrderExactlyOnce, DrainsBacklog
<1> QED
  BY <1>1, <1>2, <1>3, <1>4, <1>5

LEMMA LoadProdInv == RingInv /\ LoadProd => RingInv'
<1> SUFFICES ASSUME RingInv, LoadProd PROVE RingInv'
  OBVIOUS
<1> USE DEF RingInv, LoadProd, kernelVars
<1>0. got_new_data' \in BOOLEAN
  BY Zenon
<1>1. TypeOK' /\ Len(log) \in Nat /\ released \in Nat /\ rd \in 0..Len(log)
  BY <1>0 DEF TypeOK
<1>2. LogContiguous' /\ MemoryInv'
  BY <1>1, SameLog
<1>3. PositionsInv'
  <2>1. Len(log) \in rd..Len(log) /\ Len(log) >= backlog
    BY <1>1 DEF ConsumerInv
  <2>2. prod_pos' = End(Len(log)) % PosMod
    BY DEF PositionsInv, Tail_
  <2> QED
    BY <2>1, <2>2, SameLog DEF PositionsInv
<1>4. ConsumerInv'
  BY DEF ConsumerInv
<1>5. InOrderExactlyOnce' /\ DrainsBacklog'
  BY DEF InOrderExactlyOnce, DrainsBacklog
<1> QED
  BY <1>1, <1>2, <1>3, <1>4, <1>5

LEMMA LoadHdrBusyInv == RingInv /\ LoadHdrBusy => RingInv'
<1> SUFFICES ASSUME RingInv, LoadHdrBusy PROVE RingInv'
  OBVIOUS
<1> USE DEF RingInv, LoadHdrBusy, kernelVars
<1>1. TypeOK' /\ Len(log) \in Nat /\ released \in Nat /\ rd \in 0..Len(log)
  BY DEF TypeOK
<1>2. LogContiguous' /\ MemoryInv'
  BY <1>1, SameLog
<1>3. PositionsInv'
  BY SameLog DEF PositionsInv
<1>4. ConsumerInv'
  BY DEF ConsumerInv
<1>5. DrainsBacklog'
  <2>1. rd \in 0..(Len(log) - 1) /\ CurHdr = HdrOf(rd + 1)
    BY CurHdrFact
  <2>2. log[rd + 1].st = "busy"
    BY Zenon, <2>1 DEF HdrOf
  <2>3. backlog <= rd
    BY <2>1, <2>2, <1>1 DEF ConsumerInv
  <2> QED
    BY <2>3 DEF DrainsBacklog, ConsumerInv
<1>6. InOrderExactlyOnce'
  BY DEF InOrderExactlyOnce
<1> QED
  BY <1>1, <1>2, <1>3, <1>4, <1>5, <1>6

LEMMA LoopEndInv == RingInv /\ LoopEnd => RingInv'
<1> SUFFICES ASSUME RingInv, LoopEnd PROVE RingInv'
  OBVIOUS
<1> USE DEF RingInv, LoopEnd, kernelVars
<1>1. TypeOK' /\ Len(log) \in Nat /\ released \in Nat /\ rd \in 0..Len(log)
  BY DEF TypeOK
<1>2. LogContiguous' /\ MemoryInv'
  BY <1>1, SameLog
<1>3. PositionsInv'
  BY SameLog DEF PositionsInv
<1>4. ConsumerInv'
  BY DEF ConsumerInv
<1>5. DrainsBacklog'
  <2>1. PICK p \in rd..Len(log) : p >= backlog /\ prod_pos = End(p) % PosMod
    BY DEF PositionsInv
  <2>2. cons_pos = End(rd) % PosMod /\ released = rd
    BY DEF PositionsInv, ConsumerInv
  <2>3. p = rd
    <3>1. SUFFICES ASSUME rd < p PROVE FALSE
      BY <1>1, <2>1
    <3>2. /\ End(rd) \in Nat /\ End(p) \in Nat /\ End(Len(log)) \in Nat
          /\ End(rd) < End(p) /\ End(p) <= End(Len(log))
      BY <1>1, <2>1, <3>1, EndFacts
    <3>3. End(Len(log)) - End(rd) <= Size
      BY <2>2 DEF PositionsInv, Tail_
    <3>4. Sub(prod_pos, cons_pos) = End(p) - End(rd)
      BY SMTT(30), <3>2, <3>3, ConstFacts, <2>1, <2>2, SubEnd
    <3> QED
      BY <3>2, <3>4 DEF Pending
  <2> QED
    BY <2>1, <2>2, <2>3 DEF DrainsBacklog
<1>6. InOrderExactlyOnce'
  BY DEF InOrderExactlyOnce
<1> QED
  BY <1>1, <1>2, <1>3, <1>4, <1>5, <1>6

(* Moving past the next record. *)
LEMMA LoadHdrInv == RingInv /\ LoadHdr => RingInv'
<1> SUFFICES ASSUME RingInv, LoadHdr PROVE RingInv'
  OBVIOUS
<1> USE DEF RingInv, LoadHdr, kernelVars
<1>1. /\ rd \in 0..(Len(log) - 1) /\ CurHdr = HdrOf(rd + 1)
      /\ End(rd) = log[rd + 1].start
  BY CurHdrFact
<1>2. Len(log) \in Nat /\ released \in Nat /\ released = rd /\ rd \in Nat
  BY DEF TypeOK, ConsumerInv
<1>3. /\ CurHdr.rec = rd + 1 /\ CurHdr.len = log[rd + 1].len
      /\ CurHdr.discard = (log[rd + 1].st = "discarded")
      /\ CurHdr.busy = (log[rd + 1].st = "busy")
  BY <1>1 DEF HdrOf
<1>4. /\ log[rd + 1].len \in Nat
      /\ log[rd + 1].st \in {"busy", "committed", "discarded"}
      /\ roundup_len(log[rd + 1].len) = KernelTotal(log[rd + 1].len)
      /\ KernelTotal(log[rd + 1].len) \in Nat
      /\ End(rd) \in Nat
      /\ End(rd + 1) = End(rd) + KernelTotal(log[rd + 1].len)
  <2>1. log[rd + 1] \in Record /\ rd + 1 \in 1..Len(log)
    BY <1>1, <1>2, EndFacts
  <2>2. log[rd + 1].len \in Nat
        /\ log[rd + 1].st \in {"busy", "committed", "discarded"}
    BY <2>1 DEF Record
  <2> QED
    BY Zenon, <2>1, <2>2, <1>1, <1>2, EndFacts, TotalFacts
<1>5. cons_pos' = End(rd + 1) % PosMod
  <2>1. cons_pos = End(rd) % PosMod
    BY DEF PositionsInv
  <2>2. cons_pos' = ((End(rd) % PosMod) + KernelTotal(log[rd + 1].len)) % PosMod
    BY <2>1, <1>3, <1>4
  <2>3. End(rd) \in Int /\ KernelTotal(log[rd + 1].len) \in Int
    BY <1>4
  <2>4. cons_pos' = (End(rd) + KernelTotal(log[rd + 1].len)) % PosMod
    BY Zenon, <2>2, <2>3, ConstFacts, ModAdd
  <2> QED
    BY <2>4, <1>4
<1>6. TypeOK'
  <2>1. cons_pos' \in 0..(PosMod - 1)
    <3>1. End(rd + 1) \in Int
      BY <1>4
    <3> QED
      BY Zenon, <3>1, <1>5, ConstFacts, DivMod
  <2>2. delivered' \in Seq(Nat)
    <3>1. rd + 1 \in Nat /\ delivered \in Seq(Nat)
      BY <1>2 DEF TypeOK
    <3>2. delivered' = delivered \/ delivered' = Append(delivered, rd + 1)
      BY <1>3
    <3> QED
      BY <3>1, <3>2
  <2>3. got_new_data' \in BOOLEAN
    OBVIOUS
  <2>4. rd' \in 0..Len(log) /\ released \in 0..rd'
    BY <1>1, <1>2
  <2>5. pc' \in {"sample_cb", "store"}
    OBVIOUS
  <2> QED
    BY <2>1, <2>2, <2>3, <2>4, <2>5 DEF TypeOK
<1>7. LogContiguous' /\ MemoryInv'
  BY <1>2, SameLog
<1>8. PositionsInv'
  <2>1. PICK p \in (rd + 1)..Len(log) :
          p >= backlog /\ prod_pos = End(p) % PosMod
    BY CurHdrFact
  <2> QED
    BY <2>1, <1>5, SameLog DEF PositionsInv
<1>9. log[rd + 1].st # "busy"
  BY Zenon, <1>3
<1>10. ConsumerInv'
  <2>1. \A i \in 1..(rd + 1) : log[i].st # "busy"
    BY <1>2, <1>9 DEF ConsumerInv
  <2> QED
    BY <2>1, <1>2 DEF ConsumerInv, TypeOK
<1>11. InOrderExactlyOnce'
  <2> DEFINE S == {delivered[a] : a \in 1..Len(delivered)}
  <2>1. delivered \in Seq(Nat) /\ Len(delivered) \in Nat
    BY DEF TypeOK
  <2>2. /\ \A a, b \in 1..Len(delivered) : a < b => delivered[a] < delivered[b]
        /\ S = {i \in 1..rd : log[i].st = "committed"}
    BY DEF InOrderExactlyOnce
  <2>3. CASE log[rd + 1].st = "discarded"
    <3>1. UNCHANGED <<delivered, log>> /\ rd' = rd + 1
      BY Zenon, <2>3, <1>3
    <3>2. {i \in 1..(rd + 1) : log[i].st = "committed"}
            = {i \in 1..rd : log[i].st = "committed"}
      BY <2>3, <1>2
    <3> QED
      BY <3>1, <3>2, <2>2 DEF InOrderExactlyOnce
  <2>4. CASE log[rd + 1].st = "committed"
    <3>1. delivered' = Append(delivered, rd + 1) /\ rd' = rd + 1 /\ log' = log
      BY <2>4, <1>3
    <3>2. /\ Len(delivered') = Len(delivered) + 1
          /\ \A a \in 1..Len(delivered) : delivered'[a] = delivered[a]
          /\ delivered'[Len(delivered) + 1] = rd + 1
      BY <3>1, <2>1, <1>2
    <3>3. \A a \in 1..Len(delivered) : delivered[a] \in 1..rd
      BY <2>2
    <3>4. \A a, b \in 1..Len(delivered') : a < b => delivered'[a] < delivered'[b]
      <4>1. SUFFICES ASSUME NEW a \in 1..Len(delivered'),
                            NEW b \in 1..Len(delivered'), a < b
                     PROVE  delivered'[a] < delivered'[b]
        OBVIOUS
      <4>2. a \in 1..Len(delivered)
        BY <4>1, <3>2, <2>1
      <4>3. CASE b \in 1..Len(delivered)
        BY <4>1, <4>2, <4>3, <3>2, <2>2
      <4>4. CASE b = Len(delivered) + 1
        BY <4>2, <4>4, <3>2, <3>3, <1>2
      <4> QED
        BY <4>3, <4>4, <3>2, <2>1
    <3>5. {delivered'[a] : a \in 1..Len(delivered')} = S \cup {rd + 1}
      <4>1. ASSUME NEW a \in 1..Len(delivered')
            PROVE  delivered'[a] \in S \cup {rd + 1}
        <5>1. a \in 1..Len(delivered) \/ a = Len(delivered) + 1
          BY <3>2, <2>1
        <5> QED
          BY <5>1, <3>2
      <4>2. ASSUME NEW a \in 1..Len(delivered)
            PROVE  delivered[a] \in {delivered'[c] : c \in 1..Len(delivered')}
        <5>1. a \in 1..Len(delivered') /\ delivered'[a] = delivered[a]
          BY <3>2, <2>1
        <5> QED
          BY <5>1
      <4>3. rd + 1 \in {delivered'[c] : c \in 1..Len(delivered')}
        <5>1. Len(delivered) + 1 \in 1..Len(delivered')
          BY <3>2, <2>1
        <5> QED
          BY <5>1, <3>2
      <4> QED
        BY Zenon, <4>1, <4>2, <4>3
    <3>6. {i \in 1..(rd + 1) : log[i].st = "committed"}
            = {i \in 1..rd : log[i].st = "committed"} \cup {rd + 1}
      BY <2>4, <1>2
    <3> QED
      BY <3>1, <3>4, <3>5, <3>6, <2>2 DEF InOrderExactlyOnce
  <2> QED
    BY <2>3, <2>4, <1>4, <1>9
<1>12. DrainsBacklog'
  BY DEF DrainsBacklog
<1> QED
  BY <1>6, <1>7, <1>8, <1>10, <1>11, <1>12

(* The callback returns. *)
LEMMA CallbackInv == RingInv /\ (CallbackOk \/ CallbackErr) => RingInv'
<1> SUFFICES ASSUME RingInv, CallbackOk \/ CallbackErr PROVE RingInv'
  OBVIOUS
<1> USE DEF RingInv, CallbackOk, CallbackErr, kernelVars
<1>1. Len(log) \in Nat /\ released \in Nat /\ n \in Nat /\ cnt \in Nat
  BY BoundsAssumption DEF TypeOK
<1>2. TypeOK'
  <2>1. pc' \in {"store", "store_err"} /\ cnt' \in Nat
    BY <1>1
  <2> QED
    BY SMTT(30), <2>1 DEF TypeOK
<1>3. LogContiguous' /\ MemoryInv'
  BY <1>1, SameLog
<1>4. PositionsInv'
  BY SameLog DEF PositionsInv
<1>5. ConsumerInv'
  BY <1>1 DEF ConsumerInv
<1>6. InOrderExactlyOnce' /\ DrainsBacklog'
  BY DEF InOrderExactlyOnce, DrainsBacklog
<1> QED
  BY <1>2, <1>3, <1>4, <1>5, <1>6

(* The record is released. *)
LEMMA StoreInv == RingInv /\ (Store \/ StoreErr) => RingInv'
<1> SUFFICES ASSUME RingInv, Store \/ StoreErr PROVE RingInv'
  OBVIOUS
<1> USE DEF RingInv, Store, StoreErr, kernelVars
<1>1. /\ Len(log) \in Nat /\ rd \in 0..Len(log) /\ released \in Nat
      /\ n \in Nat /\ cnt \in Nat /\ released = rd - 1
  BY BoundsAssumption DEF TypeOK, ConsumerInv
<1>2. TypeOK'
  <2>1. pc' \in {"idle", "loop"}
    OBVIOUS
  <2> QED
    BY SMTT(30), <2>1, <1>1 DEF TypeOK
<1>3. LogContiguous' /\ MemoryInv'
  <2>1. rd \in Nat /\ released' = rd /\ released <= rd
    BY <1>1
  <2> QED
    BY <1>1, <2>1, SameLog
<1>4. PositionsInv'
  <2>1. /\ End(released) \in Nat /\ End(rd) \in Nat /\ Tail_ \in Nat
        /\ End(released) < End(rd)
    BY <1>1, EndFacts DEF Tail_
  <2>2. Tail_ - End(rd) <= Size
    BY <2>1, ConstFacts DEF PositionsInv
  <2> QED
    BY <2>2, SameLog DEF PositionsInv
<1>5. ConsumerInv'
  BY <1>1 DEF ConsumerInv
<1>6. InOrderExactlyOnce'
  BY DEF InOrderExactlyOnce
<1>7. DrainsBacklog'
  BY <1>1 DEF DrainsBacklog
<1> QED
  BY <1>2, <1>3, <1>4, <1>5, <1>6, <1>7

(* Two records in the ring share no byte of the data area. *)
LEMMA RecordsDisjoint ==
  ASSUME TypeOK, LogContiguous, PositionsInv,
         NEW i \in (released + 1)..Len(log), NEW j \in (released + 1)..Len(log),
         i < j, NEW o \in 0..(Size - 1),
         Dist(o, log[i].start) < KernelTotal(log[i].len),
         Dist(o, log[j].start) < KernelTotal(log[j].len)
  PROVE  FALSE
<1>1. Len(log) \in Nat /\ released \in 0..Len(log)
  BY DEF TypeOK
<1>2. i \in 1..Len(log) /\ j \in 1..Len(log) /\ i - 1 \in released..Len(log)
      /\ i - 1 \in 0..Len(log)
  BY <1>1
<1>3. /\ log[i].start \in Nat /\ KernelTotal(log[i].len) \in Nat
      /\ log[j].start \in Nat /\ KernelTotal(log[j].len) \in Nat
      /\ End(i) = log[i].start + KernelTotal(log[i].len)
      /\ End(j) = log[j].start + KernelTotal(log[j].len)
  BY SMTT(30), <1>2, EndFacts
<1>4. log[i].start + KernelTotal(log[i].len) <= log[j].start
  BY <1>2, <1>3 DEF LogContiguous
<1>5. End(released) <= log[i].start /\ End(released) \in Nat
  <2>1. log[i].start = End(i - 1)
    BY <1>2 DEF LogContiguous
  <2>2. /\ End(released) \in Nat /\ End(i - 1) \in Nat
        /\ released < i - 1 => End(released) < End(i - 1)
    BY Zenon, <1>1, <1>2, EndFacts
  <2> QED
    BY <1>1, <1>2, <2>1, <2>2
<1>6. End(j) <= Tail_ /\ Tail_ \in Nat /\ End(j) \in Nat
  <2>1. j \in 0..Len(log) /\ Len(log) \in 0..Len(log)
    BY <1>1, <1>2
  <2>2. /\ End(j) \in Nat /\ End(Len(log)) \in Nat
        /\ j < Len(log) => End(j) < End(Len(log))
    BY SMTT(30), <2>1, EndFacts
  <2> QED
    BY <1>1, <1>2, <2>2 DEF Tail_
<1>7. log[j].start + KernelTotal(log[j].len) <= log[i].start + Size
  <2>1. Tail_ - End(released) <= Size
    BY DEF PositionsInv
  <2> QED
    BY SMTT(30), <2>1, <1>3, <1>5, <1>6, ConstFacts
<1>8. o \in Int /\ log[i].start \in Int /\ log[j].start \in Int
  BY <1>3
<1> QED
  BY Zenon, <1>3, <1>4, <1>7, <1>8, ConstFacts, Disjoint DEF Dist

(* A producer resolves a record. *)
LEMMA KernelCommitInv == RingInv /\ KernelCommit => RingInv'
<1> SUFFICES ASSUME RingInv, KernelCommit PROVE RingInv'
  OBVIOUS
<1> USE DEF RingInv
<1>1. PICK i \in 1..Len(log), disc \in BOOLEAN :
        /\ log[i].st = "busy"
        /\ mem' = [mem EXCEPT ![log[i].start % Size] =
                     [@ EXCEPT !.busy = FALSE, !.discard = disc]]
        /\ log' = [log EXCEPT ![i] =
                     [@ EXCEPT !.st = IF disc THEN "discarded" ELSE "committed"]]
  BY Zenon DEF KernelCommit
<1>2. UNCHANGED <<consumer_pos, producer_pos, pc, cons_pos, prod_pos,
                  got_new_data, cnt, n, ret, rd, released, delivered, backlog>>
  BY DEF KernelCommit, localVars
<1>3. /\ log \in Seq(Record) /\ Len(log) \in Nat
      /\ rd \in 0..Len(log) /\ released \in 0..rd /\ i \in Nat
      /\ \A j \in 1..Len(log) : log[j] \in Record
  BY DEF TypeOK
<1> DEFINE newst == IF disc THEN "discarded" ELSE "committed"
<1>4. /\ Len(log') = Len(log)
      /\ \A j \in 1..Len(log) : j # i => log'[j] = log[j]
      /\ log'[i] = [log[i] EXCEPT !.st = newst]
  BY <1>1, <1>3
<1>5. \A j \in 1..Len(log) :
        log'[j].start = log[j].start /\ log'[j].len = log[j].len
  <2>1. log'[i].start = log[i].start /\ log'[i].len = log[i].len
    BY <1>3, <1>4 DEF Record
  <2> QED
    BY Zenon, <2>1, <1>4
<1>6. log'[i].st = newst /\ log' \in Seq(Record)
  <2>1. log'[i].st = newst /\ log'[i] \in Record
    BY Zenon, <1>3, <1>4 DEF Record
  <2> QED
    BY <2>1, <1>1, <1>3, <1>4
<1>7. (\A j \in 0..Len(log) : End(j)' = End(j)) /\ Tail_' = Tail_
  <2>1. \A j \in 0..Len(log) : End(j)' = End(j)
    BY <1>3, <1>5 DEF End
  <2> QED
    BY <2>1, <1>3, <1>4 DEF Tail_
<1>8. \A j \in 1..rd : j # i /\ log'[j] = log[j]
  BY <1>1, <1>3, <1>4 DEF ConsumerInv
<1>9. i \in (released + 1)..Len(log)
  BY <1>1, <1>3, <1>8
<1> DEFINE c == log[i].start % Size
<1>10. /\ log[i].start \in Int
       /\ c \in 0..(Size - 1) /\ Dist(c, log[i].start) = 0
       /\ KernelTotal(log[i].len) \in Nat /\ KernelTotal(log[i].len) >= 8
  <2>1. log[i].start \in Int /\ KernelTotal(log[i].len) \in Nat
        /\ KernelTotal(log[i].len) >= 8
    BY <1>3, EndFacts
  <2>2. c \in 0..(Size - 1)
    BY Zenon, <2>1, ConstFacts, DivMod
  <2> QED
    BY Zenon, <2>1, <2>2, ConstFacts, DistZero DEF Dist
<1>11. mem[c] = HdrOf(i)
  BY <1>9, <1>10 DEF MemoryInv
<1>12. TypeOK'
  <2>1. mem \in [0..(Size - 1) -> Cell] /\ mem[c] \in Cell
    BY <1>10 DEF TypeOK
  <2>2. [mem[c] EXCEPT !.busy = FALSE, !.discard = disc] \in Cell
    BY Zenon, <2>1 DEF Cell
  <2>3. mem' \in [0..(Size - 1) -> Cell]
    BY Zenon, <2>1, <2>2, <1>1
  <2> QED
    BY <2>3, <1>2, <1>4, <1>6 DEF TypeOK
<1>13. LogContiguous'
  <2>1. ASSUME NEW j \in 1..Len(log) PROVE log'[j].start = End(j - 1)'
    <3>1. j - 1 \in 0..Len(log)
      BY <1>3
    <3> QED
      BY <3>1, <1>5, <1>7 DEF LogContiguous
  <2>2. ASSUME NEW j \in 1..Len(log), NEW k \in 1..Len(log), j < k
        PROVE  End(j)' <= log'[k].start
    <3>1. j \in 0..Len(log)
      BY <1>3
    <3> QED
      BY <3>1, <2>2, <1>5, <1>7 DEF LogContiguous
  <2> QED
    BY <2>1, <2>2, <1>4 DEF LogContiguous
<1>14. PositionsInv'
  <2>1. released \in 0..Len(log) /\ rd \in 0..Len(log)
        /\ \A p \in rd..Len(log) : p \in 0..Len(log)
    BY <1>3
  <2> QED
    BY <2>1, <1>2, <1>4, <1>7 DEF PositionsInv
<1>15. MemoryInv'
  <2>1. SUFFICES ASSUME NEW j \in (released + 1)..Len(log),
                        NEW o \in 0..(Size - 1),
                        Dist(o, log[j].start) < KernelTotal(log[j].len)
                 PROVE  mem'[o] = IF Dist(o, log[j].start) = 0
                                    THEN HdrOf(j)' ELSE DataCell(j)
    <3>1. \A j \in (released + 1)..Len(log) : j \in 1..Len(log)
      BY <1>3
    <3> QED
      BY <3>1, <1>2, <1>4, <1>5 DEF MemoryInv
  <2>2. j \in 1..Len(log)
    BY <1>3
  <2>3. mem[o] = IF Dist(o, log[j].start) = 0 THEN HdrOf(j) ELSE DataCell(j)
    BY <2>1 DEF MemoryInv
  <2>4. CASE j = i /\ o = c
    <3>1. HdrOf(i)' = [rec |-> i, hdr |-> TRUE, len |-> log[i].len,
                       busy |-> FALSE, discard |-> disc]
      <4>1. log'[i].len = log[i].len
        BY <1>5
      <4>2. (log'[i].st = "busy") = FALSE
        BY <1>6
      <4>3. (log'[i].st = "discarded") = disc
        BY <1>6
      <4> QED
        BY Zenon, <4>1, <4>2, <4>3 DEF HdrOf
    <3>2. mem'[c] = [HdrOf(i) EXCEPT !.busy = FALSE, !.discard = disc]
      BY <1>1, <1>10, <1>11 DEF TypeOK
    <3>3. mem'[c] = [rec |-> i, hdr |-> TRUE, len |-> log[i].len,
                     busy |-> FALSE, discard |-> disc]
      BY Zenon, <3>2 DEF HdrOf
    <3> QED
      BY Zenon, <3>1, <3>3, <2>4, <1>10
  <2>5. CASE j = i /\ o # c
    <3>1. Dist(o, log[i].start) # 0
      BY Zenon, <2>5, <1>10, ConstFacts, DistZero DEF Dist
    <3>2. mem'[o] = mem[o]
      BY <2>5, <1>1, <1>10 DEF TypeOK
    <3> QED
      BY <3>1, <3>2, <2>3, <2>5
  <2>6. CASE j # i
    <3>1. o # c
      <4>1. SUFFICES ASSUME o = c PROVE FALSE
        OBVIOUS
      <4>2. Dist(o, log[i].start) < KernelTotal(log[i].len)
        BY <4>1, <1>10
      <4>3. i < j \/ j < i
        BY <2>6, <2>2, <1>3
      <4> QED
        BY <4>2, <4>3, <2>1, <1>9, RecordsDisjoint
    <3>2. mem'[o] = mem[o]
      BY <3>1, <1>1, <1>10 DEF TypeOK
    <3>3. HdrOf(j)' = HdrOf(j)
      BY Zenon, <2>2, <2>6, <1>4 DEF HdrOf
    <3> QED
      BY <3>2, <3>3, <2>3
  <2> QED
    BY <2>4, <2>5, <2>6
<1>16. ConsumerInv'
  <2>1. \A j \in 1..backlog : log'[j].st # "busy"
    BY <1>1, <1>3, <1>4 DEF ConsumerInv
  <2> QED
    BY <2>1, <1>2, <1>4, <1>8 DEF ConsumerInv
<1>17. InOrderExactlyOnce'
  <2>1. {j \in 1..rd : log'[j].st = "committed"}
          = {j \in 1..rd : log[j].st = "committed"}
    BY <1>8
  <2> QED
    BY <2>1, <1>2 DEF InOrderExactlyOnce
<1>18. DrainsBacklog'
  BY <1>2 DEF DrainsBacklog
<1> QED
  BY <1>12, <1>13, <1>14, <1>15, <1>16, <1>17, <1>18

(* A producer reserves space: it overwrites released bytes only. *)
LEMMA KernelReserveInv == RingInv /\ KernelReserve => RingInv'
<1> SUFFICES ASSUME RingInv, KernelReserve PROVE RingInv'
  OBVIOUS
<1> USE DEF RingInv
<1>0. PICK L \in Nat : L = Len(log)
  BY DEF TypeOK
<1>1. PICK len \in Lens :
        /\ Sub(producer_pos, consumer_pos) + KernelTotal(len) <= Size
        /\ mem' = [o \in 0..(Size - 1) |->
                     IF Dist(o, producer_pos) = 0 THEN HdrCell(L + 1, len)
                     ELSE IF Dist(o, producer_pos) < KernelTotal(len)
                       THEN DataCell(L + 1)
                     ELSE mem[o]]
        /\ producer_pos' = (producer_pos + KernelTotal(len)) % PosMod
        /\ log' = Append(log, [start |-> Tail_, len |-> len, st |-> "busy"])
  BY <1>0 DEF KernelReserve
<1>2. UNCHANGED <<consumer_pos, pc, cons_pos, prod_pos, got_new_data, cnt, n,
                  ret, rd, released, delivered, backlog>>
  BY DEF KernelReserve, localVars
<1>3. /\ log \in Seq(Record) /\ L \in Nat
      /\ rd \in 0..L /\ released \in 0..rd /\ released \in 0..L
      /\ len \in Nat /\ KernelTotal(len) \in Nat /\ KernelTotal(len) >= 8
  <2>1. len \in Nat
    BY BoundsAssumption
  <2> QED
    BY <2>1, <1>0, TotalFacts DEF TypeOK
<1>4. /\ Tail_ \in Nat /\ End(released) \in Nat /\ End(released) <= Tail_
      /\ producer_pos = Tail_ % PosMod /\ consumer_pos = End(released) % PosMod
      /\ Tail_ - End(released) <= Size
  <2>1. L \in 0..L
    BY <1>3
  <2>2. /\ End(L) \in Nat /\ End(released) \in Nat
        /\ released < L => End(released) < End(L)
    BY <2>1, <1>0, <1>3, EndFacts
  <2> QED
    BY <2>2, <1>0, <1>3 DEF Tail_, PositionsInv
<1>5. Tail_ + KernelTotal(len) <= End(released) + Size
  <2>1. Sub(producer_pos, consumer_pos) = Tail_ - End(released)
    BY <1>4, SubEnd
  <2> QED
    BY SMTT(30), <2>1, <1>1, <1>3, <1>4, ConstFacts
<1> DEFINE new == [start |-> Tail_, len |-> len, st |-> "busy"]
<1>6. new \in Record
  BY <1>3, <1>4 DEF Record
<1>7. /\ Len(log') = L + 1 /\ log' \in Seq(Record)
      /\ \A j \in 1..L : log'[j] = log[j]
      /\ log'[L + 1] = new
  <2> HIDE DEF new
  <2> QED
    BY <1>0, <1>1, <1>3, <1>6 DEF new
<1>8. (\A j \in 0..L : End(j)' = End(j))
      /\ End(L + 1)' = Tail_ + KernelTotal(len)
      /\ Tail_' = Tail_ + KernelTotal(len)
  <2>1. \A j \in 0..L : End(j)' = End(j)
    BY <1>3, <1>7 DEF End
  <2>2. End(L + 1)' = Tail_ + KernelTotal(len)
    BY <1>3, <1>7 DEF End
  <2> QED
    BY <2>1, <2>2, <1>7 DEF Tail_
<1>9. \A o \in 0..(Size - 1) : Dist(o, producer_pos) = Dist(o, Tail_)
  <2>1. SUFFICES ASSUME NEW o \in 0..(Size - 1)
                 PROVE  Dist(o, producer_pos) = Dist(o, Tail_)
    OBVIOUS
  <2>2. o \in Int /\ Tail_ \in Int
    BY <1>4
  <2> QED
    BY <2>2, <1>4, ConstFacts, DistWrap DEF Dist
<1>10. TypeOK'
  <2>1. mem \in [0..(Size - 1) -> Cell]
    BY DEF TypeOK
  <2>2. HdrCell(L + 1, len) \in Cell /\ DataCell(L + 1) \in Cell
    BY <1>3 DEF HdrCell, DataCell, Cell
  <2>3. mem' \in [0..(Size - 1) -> Cell]
    BY <2>1, <2>2, <1>1
  <2>4. producer_pos' \in 0..(PosMod - 1)
    <3>1. producer_pos + KernelTotal(len) \in Int
      BY <1>3 DEF TypeOK
    <3> QED
      BY Zenon, <3>1, <1>1, ConstFacts, DivMod
  <2>5. rd' \in 0..Len(log') /\ released' \in 0..rd'
    BY <1>2, <1>3, <1>7
  <2> QED
    BY <2>3, <2>4, <2>5, <1>2, <1>7 DEF TypeOK
<1>11. LogContiguous'
  <2>1. ASSUME NEW j \in 1..(L + 1) PROVE log'[j].start = End(j - 1)'
    <3>1. CASE j \in 1..L
      <4>1. j - 1 \in 0..L
        BY <1>3
      <4> QED
        BY <4>1, <3>1, <1>0, <1>7, <1>8 DEF LogContiguous
    <3>2. CASE j = L + 1
      <4>1. j - 1 = L /\ L \in 0..L
        BY <3>2, <1>3
      <4> QED
        BY <4>1, <3>2, <1>0, <1>7, <1>8 DEF Tail_
    <3> QED
      BY <3>1, <3>2, <1>3
  <2>2. ASSUME NEW j \in 1..(L + 1), NEW k \in 1..(L + 1), j < k
        PROVE  End(j)' <= log'[k].start
    <3>1. j \in 0..L /\ j \in 1..L /\ L \in 0..L
      BY <2>2, <1>3
    <3>2. CASE k \in 1..L
      BY SMTT(30), <2>2, <3>1, <3>2, <1>0, <1>7, <1>8 DEF LogContiguous
    <3>3. CASE k = L + 1
      <4>1. /\ End(j) \in Nat /\ End(L) \in Nat
            /\ j < L => End(j) < End(L)
        BY <3>1, <1>0, EndFacts
      <4>2. End(j) <= Tail_
        BY SMTT(30), <4>1, <3>1, <1>0, <1>3 DEF Tail_
      <4> QED
        BY <4>2, <3>1, <3>3, <1>7, <1>8
    <3> QED
      BY <3>2, <3>3, <1>3
  <2> QED
    BY <2>1, <2>2, <1>7 DEF LogContiguous
<1>12. PositionsInv'
  <2>1. consumer_pos' = End(released)' % PosMod
    BY <1>2, <1>3, <1>4, <1>8
  <2>2. producer_pos' = Tail_' % PosMod
    <3>1. Tail_ \in Int /\ KernelTotal(len) \in Int
      BY <1>3, <1>4
    <3>2. producer_pos' = ((Tail_ % PosMod) + KernelTotal(len)) % PosMod
      BY <1>1, <1>4
    <3>3. producer_pos' = (Tail_ + KernelTotal(len)) % PosMod
      BY Zenon, <3>1, <3>2, ConstFacts, ModAdd
    <3> QED
      BY <3>3, <1>8
  <2>3. Tail_' - End(released)' <= Size
    BY SMTT(30), <1>2, <1>3, <1>4, <1>5, <1>8, ConstFacts
  <2>4. pc' # "idle" => cons_pos' = End(rd)' % PosMod
    BY <1>2, <1>3, <1>8 DEF PositionsInv
  <2>5. ASSUME pc \in {"loop", "sample_cb", "store", "store_err"}
        PROVE  \E p \in rd..(L + 1) :
                 p >= backlog /\ prod_pos = End(p)' % PosMod
    <3>1. PICK p \in rd..L : p >= backlog /\ prod_pos = End(p) % PosMod
      BY <2>5, <1>0 DEF PositionsInv
    <3>2. p \in rd..(L + 1) /\ p \in 0..L
      BY <1>3
    <3> QED
      BY <3>1, <3>2, <1>8
  <2> QED
    BY <2>1, <2>2, <2>3, <2>4, <2>5, <1>2, <1>7 DEF PositionsInv
<1>13. MemoryInv'
  <2>1. SUFFICES ASSUME NEW j \in (released + 1)..(L + 1),
                        NEW o \in 0..(Size - 1),
                        Dist(o, log'[j].start) < KernelTotal(log'[j].len)
                 PROVE  mem'[o] = IF Dist(o, log'[j].start) = 0
                                    THEN HdrOf(j)' ELSE DataCell(j)
    BY SMTT(30), <1>2, <1>7 DEF MemoryInv
  <2>2. CASE j = L + 1
    <3>1. HdrOf(j)' = HdrCell(L + 1, len)
      <4>1. log'[j].len = len /\ (log'[j].st = "busy") = TRUE
            /\ (log'[j].st = "discarded") = FALSE
        BY <2>2, <1>7
      <4> QED
        BY ZenonT(30), <2>2, <4>1 DEF HdrOf, HdrCell
    <3>2. log'[j].start = Tail_ /\ log'[j].len = len
      BY <2>2, <1>7
    <3>3. Dist(o, producer_pos) = Dist(o, Tail_)
      BY <1>9
    <3> QED
      BY SMTT(30), <2>1, <2>2, <3>1, <3>2, <3>3, <1>1
  <2>3. CASE j \in (released + 1)..L
    <3>1. j \in 1..L /\ log'[j] = log[j]
      BY <2>3, <1>3, <1>7
    <3>2. HdrOf(j)' = HdrOf(j)
      BY <3>1 DEF HdrOf
    <3>3. mem[o] = IF Dist(o, log[j].start) = 0 THEN HdrOf(j) ELSE DataCell(j)
      BY <2>1, <2>3, <3>1, <1>0 DEF MemoryInv
    <3>4. /\ log[j].start \in Nat /\ KernelTotal(log[j].len) \in Nat
          /\ End(j) = log[j].start + KernelTotal(log[j].len)
          /\ End(j) <= Tail_
          /\ End(released) <= log[j].start
      <4>1. /\ j \in 0..L /\ L \in 0..L /\ j - 1 \in 0..L
            /\ (j < L \/ j = L) /\ released <= j - 1
        BY <2>3, <3>1, <1>3
      <4>2. log[j].start = End(j - 1)
        BY <3>1, <1>0 DEF LogContiguous
      <4>3. /\ End(j) \in Nat /\ End(L) \in Nat /\ End(j - 1) \in Nat
            /\ j < L => End(j) < End(L)
            /\ released < j - 1 => End(released) < End(j - 1)
        BY SMTT(30), <4>1, <1>0, <1>3, EndFacts
      <4>4. End(released) <= End(j - 1)
        <5>1. CASE released = j - 1
          BY <5>1, <4>3
        <5>2. CASE released < j - 1
          BY <5>2, <4>3, <1>4
        <5> QED
          BY <5>1, <5>2, <4>1, <1>3
      <4>5. End(j) <= Tail_
        BY SMTT(30), <4>1, <4>3, <3>1, <1>0, <1>3 DEF Tail_
      <4> QED
        BY <4>2, <4>4, <4>5, <3>1, <1>0, EndFacts
    <3>5. ~(Dist(o, Tail_) < KernelTotal(len))
      <4>1. SUFFICES ASSUME Dist(o, Tail_) < KernelTotal(len) PROVE FALSE
        OBVIOUS
      <4>2. /\ log[j].start + KernelTotal(log[j].len) <= Tail_
            /\ Tail_ + KernelTotal(len) <= log[j].start + Size
        <5> DEFINE s == log[j].start  t == KernelTotal(log[j].len)
                   e == End(released)
        <5>1. /\ s \in Nat /\ t \in Nat /\ e \in Nat /\ s + t <= Tail_
              /\ e <= s /\ Tail_ + KernelTotal(len) <= e + Size
          BY <3>4, <1>4, <1>5
        <5> HIDE DEF s, t, e
        <5>2. Tail_ + KernelTotal(len) <= s + Size
          BY SMTT(30), <5>1, <1>3, <1>4, ConstFacts
        <5> QED
          BY <5>1, <5>2 DEF s, t
      <4>3. o \in Int /\ log[j].start \in Int /\ Tail_ \in Int
        BY <3>4, <1>4
      <4>4. (o - log[j].start) % Size < KernelTotal(log[j].len)
            /\ (o - Tail_) % Size < KernelTotal(len)
        BY <2>1, <3>1, <4>1 DEF Dist
      <4> QED
        BY Zenon, <4>2, <4>3, <4>4, <3>4, <1>3, ConstFacts, Disjoint
    <3>6. mem'[o] = mem[o]
      BY SMTT(30), <3>5, <1>1, <1>3, <1>9
    <3> QED
      BY <3>1, <3>2, <3>3, <3>6
  <2> QED
    BY SMTT(30), <2>2, <2>3, <1>3
<1>14. ConsumerInv'
  <2>1. \A j \in 1..rd : j \in 1..L
    BY <1>3
  <2>2. \A j \in 1..backlog : j \in 1..L
    BY <1>0 DEF ConsumerInv
  <2>3. backlog \in 0..(L + 1)
    BY SMTT(30), <1>0 DEF ConsumerInv
  <2> QED
    BY <2>1, <2>2, <2>3, <1>2, <1>7 DEF ConsumerInv
<1>15. InOrderExactlyOnce'
  <2>1. \A j \in 1..rd : log'[j] = log[j]
    BY <1>3, <1>7
  <2>2. {j \in 1..rd : log'[j].st = "committed"}
          = {j \in 1..rd : log[j].st = "committed"}
    BY <2>1
  <2> QED
    BY <2>2, <1>2 DEF InOrderExactlyOnce
<1>16. DrainsBacklog'
  BY <1>2 DEF DrainsBacklog
<1> QED
  BY <1>10, <1>11, <1>12, <1>13, <1>14, <1>15, <1>16

(* The ring invariant holds in every reachable state, for all constants.   *)
THEOREM RingInvariant == Spec => []RingInv
<1>1. RingInv /\ [Next]_vars => RingInv'
  <2> SUFFICES ASSUME RingInv, [Next]_vars PROVE RingInv'
    OBVIOUS
  <2>1. CASE KernelReserve
    BY <2>1, KernelReserveInv
  <2>2. CASE KernelCommit
    BY <2>2, KernelCommitInv
  <2>3. CASE Start
    BY <2>3, StartInv
  <2>4. CASE LoadProd
    BY <2>4, LoadProdInv
  <2>5. CASE LoadHdrBusy
    BY <2>5, LoadHdrBusyInv
  <2>6. CASE LoadHdr
    BY <2>6, LoadHdrInv
  <2>7. CASE CallbackOk \/ CallbackErr
    BY <2>7, CallbackInv
  <2>8. CASE Store \/ StoreErr
    BY <2>8, StoreInv
  <2>9. CASE LoopEnd
    BY <2>9, LoopEndInv
  <2>10. CASE UNCHANGED vars
    <3>1. UNCHANGED <<log, mem, consumer_pos, producer_pos, pc, cons_pos,
                      prod_pos, got_new_data, cnt, n, ret, rd, released,
                      delivered, backlog>>
      BY <2>10 DEF vars
    <3>2. Len(log) \in Nat /\ released \in Nat
      BY DEF RingInv, TypeOK
    <3>3. TypeOK' /\ LogContiguous' /\ MemoryInv'
      BY SMTT(30), <3>1, <3>2, SameLog DEF RingInv, TypeOK
    <3>4. PositionsInv' /\ ConsumerInv' /\ InOrderExactlyOnce' /\ DrainsBacklog'
      BY <3>1, SameLog
      DEF RingInv, PositionsInv, ConsumerInv, InOrderExactlyOnce, DrainsBacklog
    <3> QED
      BY <3>3, <3>4 DEF RingInv
  <2> QED
    BY <2>1, <2>2, <2>3, <2>4, <2>5, <2>6, <2>7, <2>8, <2>9, <2>10
    DEF Next, Kernel, Consumer
<1> QED
  BY <1>1, InitInv, PTL DEF Spec

(* Type correctness of the ring and of the consumer's locals. *)
THEOREM TypeCorrect == Spec => []TypeOK
<1>1. RingInv => TypeOK
  BY DEF RingInv
<1> QED
  BY <1>1, RingInvariant, PTL

(* ringbuf_process_ring hands every committed record to the callback       *)
(* exactly once, in reservation order, for every ring size and wrap.       *)
THEOREM Delivery == Spec => []InOrderExactlyOnce
<1>1. RingInv => InOrderExactlyOnce
  BY DEF RingInv
<1> QED
  BY <1>1, RingInvariant, PTL

(* A call that is not cut short by its limit or an error consumes the      *)
(* whole backlog it found.                                                 *)
THEOREM Draining == Spec => []DrainsBacklog
<1>1. RingInv => DrainsBacklog
  BY SMTT(30) DEF RingInv
<1> QED
  BY <1>1, RingInvariant, PTL

(* The inner loop reads length words at record boundaries only. *)
THEOREM Decoding == Spec => []DecodesHeader
<1>1. RingInv => DecodesHeader
  <2> SUFFICES ASSUME RingInv, pc = "loop", Pending
               PROVE  /\ rd < Len(log)
                      /\ CurHdr.hdr /\ CurHdr.rec = rd + 1
                      /\ CurHdr.len = log[rd + 1].len
    BY DEF DecodesHeader
  <2>1. rd \in 0..(Len(log) - 1) /\ CurHdr = HdrOf(rd + 1)
    BY CurHdrFact
  <2>2. Len(log) \in Nat
    BY DEF RingInv, TypeOK
  <2>3. rd < Len(log)
    BY SMTT(30), <2>1, <2>2
  <2> QED
    BY <2>1, <2>3 DEF HdrOf
<1> QED
  BY <1>1, RingInvariant, PTL

(* No byte of a sample changes while its callback runs. *)
THEOREM SampleStable == Spec => []NoTornSample
<1>1. RingInv => NoTornSample
  <2> SUFFICES ASSUME RingInv, pc \in {"sample_cb", "store", "store_err"},
                      NEW o \in 0..(Size - 1),
                      Dist(o, log[rd].start) < KernelTotal(log[rd].len)
               PROVE  /\ mem[o].rec = rd
                      /\ mem[o].hdr <=> Dist(o, log[rd].start) = 0
    BY DEF NoTornSample, Intact
  <2>1. rd \in (released + 1)..Len(log)
    BY DEF RingInv, TypeOK, ConsumerInv
  <2>2. mem[o] = IF Dist(o, log[rd].start) = 0 THEN HdrOf(rd) ELSE DataCell(rd)
    BY SMTT(30), <2>1 DEF RingInv, MemoryInv
  <2>3. CASE Dist(o, log[rd].start) = 0
    BY <2>2, <2>3 DEF HdrOf
  <2>4. CASE Dist(o, log[rd].start) # 0
    BY <2>2, <2>4 DEF DataCell
  <2> QED
    BY <2>3, <2>4
<1> QED
  BY <1>1, RingInvariant, PTL

(* The two shared positions always delimit the unreleased records. *)
THEOREM Positions == Spec => []PositionsAgree
<1>1. RingInv => PositionsAgree
  <2> SUFFICES ASSUME RingInv PROVE PositionsAgree
    OBVIOUS
  <2>1. Len(log) \in Nat /\ released \in 0..Len(log) /\ Len(log) \in 0..Len(log)
    BY DEF RingInv, TypeOK
  <2>2. /\ Tail_ \in Nat /\ End(released) \in Nat
        /\ released < Len(log) => End(released) < Tail_
    BY <2>1, EndFacts DEF RingInv, Tail_
  <2>3. End(released) <= Tail_
    BY <2>1, <2>2 DEF Tail_
  <2>4. Tail_ - End(released) <= Size
    BY DEF RingInv, PositionsInv
  <2>5. Sub(producer_pos, consumer_pos) = Tail_ - End(released)
    BY <2>2, <2>3, <2>4, SubEnd DEF RingInv, PositionsInv
  <2> QED
    BY <2>4, <2>5 DEF PositionsAgree
<1> QED
  BY <1>1, RingInvariant, PTL

(* A call never hands more than its limit to the callback. *)
THEOREM Limit == Spec => []NeverMoreThanN
<1>1. RingInv => NeverMoreThanN
  BY DEF RingInv, ConsumerInv, NeverMoreThanN
<1> QED
  BY <1>1, RingInvariant, PTL

(* Record statuses of the log, the queue's recs under the refinement. *)
Recs == [i \in 1..Len(log) |-> log[i].st]

(* The statuses form a sequence as long as the log. *)
LEMMA RecsFacts ==
  ASSUME TypeOK
  PROVE  /\ Recs \in Seq({"busy", "committed", "discarded"})
         /\ Len(Recs) = Len(log)
         /\ \A i \in 1..Len(log) : Recs[i] = log[i].st
<1>1. /\ Len(log) \in Nat
      /\ \A i \in 1..Len(log) : log[i].st \in {"busy", "committed", "discarded"}
  <2>1. Len(log) \in Nat /\ \A i \in 1..Len(log) : log[i] \in Record
    BY DEF TypeOK
  <2> QED
    BY <2>1 DEF Record
<1> QED
  BY <1>1 DEF Recs

(* The consumer and the kernel together implement the queue of records:    *)
(* every step of the ring is a step of the queue or leaves it unchanged.   *)
THEOREM Refinement == Spec => QueueSpec
<1> DEFINE qvars == <<Recs, rd, released, delivered>>
<1>1. Init => Queue!QueueInit
  <2> SUFFICES ASSUME Init PROVE Recs = <<>> /\ rd = 0 /\ released = 0
                                 /\ delivered = <<>>
    BY DEF Queue!QueueInit, Recs
  <2>1. Len(log) = 0
    BY DEF Init
  <2>2. Recs = [i \in 1..0 |-> log[i].st]
    BY <2>1 DEF Recs
  <2>3. Recs = <<>>
    BY <2>2
  <2> QED
    BY <2>3 DEF Init
<1>2. RingInv /\ [Next]_vars => [Queue!QueueNext]_(Queue!queueVars)
  <2> SUFFICES ASSUME RingInv, [Next]_vars
               PROVE  Queue!QueueNext \/ UNCHANGED qvars
    BY DEF Queue!queueVars, Recs
  <2>1. TypeOK /\ Len(log) \in Nat
    BY SMTT(30) DEF RingInv, TypeOK
  <2>2. CASE KernelReserve
    <3>1. PICK L \in Nat : L = Len(log)
      BY <2>1
    <3>2. PICK r : log' = Append(log, r) /\ r.st = "busy"
      BY <2>2 DEF KernelReserve
    <3>3. log' \in Seq(Record) /\ log \in Seq(Record)
      BY <2>2, KernelReserveInv DEF RingInv, TypeOK
    <3>4. /\ Len(log') = L + 1 /\ log'[L + 1].st = "busy"
          /\ \A i \in 1..L : log'[i] = log[i]
      BY <3>1, <3>2, <3>3
    <3>5. Recs' = Append(Recs, "busy")
      <4> DEFINE St == {"busy", "committed", "discarded"}
                 t == Append(Recs, "busy")
      <4>1. Recs \in Seq(St) /\ Len(Recs) = L /\ \A i \in 1..L : Recs[i] = log[i].st
        BY <2>1, <3>1, RecsFacts
      <4>2. "busy" \in St
        OBVIOUS
      <4>3. /\ t \in Seq(St) /\ Len(t) = L + 1 /\ t[L + 1] = "busy"
            /\ \A i \in 1..L : t[i] = Recs[i]
        <5> HIDE DEF St
        <5> QED
          BY <4>1, <4>2, AppendProperties
      <4>4. Recs' \in Seq(St) /\ Len(Recs') = L + 1
            /\ \A i \in 1..(L + 1) : Recs'[i] = log'[i].st
        <5>1. Recs' = [i \in 1..(L + 1) |-> log'[i].st]
          BY <3>4 DEF Recs
        <5>2. \A i \in 1..(L + 1) : log'[i] \in Record
          BY <3>3, <3>4, ElementOfSeq
        <5>3. \A i \in 1..(L + 1) : log'[i].st \in St
          BY <5>2 DEF Record
        <5> HIDE DEF St
        <5>4. Recs' \in Seq(St) /\ Len(Recs') = L + 1
          BY <5>1, <5>3
        <5> QED
          BY <5>1, <5>4
      <4>5. \A i \in 1..Len(Recs') : Recs'[i] = t[i]
        <5>1. SUFFICES ASSUME NEW i \in 1..(L + 1) PROVE Recs'[i] = t[i]
          BY Zenon, <4>4
        <5>2. i \in 1..L \/ i = L + 1
          BY <3>1
        <5> QED
          BY <5>2, <4>1, <4>3, <4>4, <3>4
      <4> HIDE DEF t, St
      <4>6. Recs' = t
        BY <4>3, <4>4, <4>5, SeqEqual
      <4> QED
        BY <4>6 DEF t
    <3> QED
      BY <3>5, <2>2
      DEF KernelReserve, Queue!QueueNext, Queue!QueueReserve, Recs
  <2>3. CASE KernelCommit
    <3>1. PICK i \in 1..Len(log), disc \in BOOLEAN :
            /\ log[i].st = "busy"
            /\ log' = [log EXCEPT ![i] =
                 [@ EXCEPT !.st = IF disc THEN "discarded" ELSE "committed"]]
      BY Zenon, <2>3 DEF KernelCommit
    <3> DEFINE newst == IF disc THEN "discarded" ELSE "committed"
    <3>2. log \in Seq(Record) /\ \A j \in 1..Len(log) : log[j] \in Record
      BY <2>1 DEF TypeOK
    <3>3. /\ Len(log') = Len(log)
          /\ \A j \in 1..Len(log) : j # i => log'[j] = log[j]
          /\ log'[i].st = newst
      BY <3>1, <3>2 DEF Record
    <3>4. Recs' = [Recs EXCEPT ![i] = newst]
      BY Zenon, <3>3 DEF Recs
    <3>5. newst \in {"committed", "discarded"} /\ Recs[i] = "busy"
          /\ i \in 1..Len(Recs)
      BY <3>1, <2>1, RecsFacts
    <3>6. newst \in Queue!Status \ {"busy"}
      BY <3>5 DEF Queue!Status
    <3> QED
      BY Zenon, <3>4, <3>5, <3>6, <2>3
      DEF KernelCommit, Queue!QueueNext, Queue!QueueResolve, Recs
  <2>4. ASSUME UNCHANGED <<log, rd, released, delivered>>
        PROVE  UNCHANGED qvars
    BY <2>4 DEF Recs
  <2>5. CASE LoadHdr
    <3>1. UNCHANGED <<log, released>>
      BY <2>5 DEF LoadHdr, kernelVars
    <3>2. UNCHANGED <<Recs, released>>
      BY <3>1 DEF Recs
    <3>3. rd \in 0..(Len(log) - 1) /\ CurHdr = HdrOf(rd + 1) /\ released = rd
      BY <2>5, CurHdrFact DEF LoadHdr, RingInv, ConsumerInv
    <3>4. /\ rd + 1 \in 1..Len(log) /\ Recs[rd + 1] = log[rd + 1].st
          /\ rd < Len(Recs)
          /\ log[rd + 1].st \in {"busy", "committed", "discarded"}
      <4>1. rd + 1 \in 1..Len(log)
        BY <3>3, <2>1
      <4>2. log[rd + 1] \in Record
        BY SMTT(30), <4>1, <2>1 DEF TypeOK
      <4> QED
        BY <4>1, <4>2, <3>3, <2>1, RecsFacts DEF Record
    <3>5. /\ CurHdr.rec = rd + 1
          /\ CurHdr.busy = (log[rd + 1].st = "busy")
          /\ CurHdr.discard = (log[rd + 1].st = "discarded")
      BY SMTT(30), <3>3 DEF HdrOf
    <3>6. Recs[rd + 1] # "busy" /\ rd' = rd + 1
      BY Zenon, <2>5, <3>4, <3>5 DEF LoadHdr
    <3>7. delivered' = IF Recs[rd + 1] = "committed"
                         THEN Append(delivered, rd + 1) ELSE delivered
      <4>1. CASE log[rd + 1].st = "committed"
        BY <4>1, <2>5, <3>4, <3>5 DEF LoadHdr
      <4>2. CASE log[rd + 1].st = "discarded"
        BY Zenon, <4>2, <2>5, <3>4, <3>5 DEF LoadHdr
      <4> QED
        BY <4>1, <4>2, <3>4, <3>6
    <3> QED
      BY <3>2, <3>3, <3>4, <3>6, <3>7 DEF Queue!QueueNext, Queue!QueueTake, Recs
  <2>6. CASE Store \/ StoreErr
    <3>1. UNCHANGED <<log, rd, delivered>> /\ released' = rd
      BY <2>6 DEF Store, StoreErr, kernelVars
    <3>2. UNCHANGED Recs
      BY <3>1 DEF Recs
    <3>3. released < rd
      BY SMTT(30), <2>6, <2>1 DEF Store, StoreErr, RingInv, ConsumerInv, TypeOK
    <3> QED
      BY <3>1, <3>2, <3>3 DEF Queue!QueueNext, Queue!QueueRelease, Recs
  <2>7. CASE Start \/ LoadProd \/ LoadHdrBusy \/ LoopEnd \/ CallbackOk
               \/ CallbackErr \/ UNCHANGED vars
    BY <2>4, <2>7 DEF Start, LoadProd, LoadHdrBusy, LoopEnd, CallbackOk,
                      CallbackErr, kernelVars, vars
  <2> QED
    BY SMTT(30), <2>2, <2>3, <2>5, <2>6, <2>7 DEF Next, Kernel, Consumer
<1> QED
  BY <1>1, <1>2, RingInvariant, PTL DEF Spec, QueueSpec, Queue!QueueSpec
=============================================================================

------------------------------- MODULE HashMap -------------------------------
(***************************************************************************)
(* hashmap.c: chained buckets, capacities that are powers of two, growth   *)
(* when more than three quarters full, and allocation that may fail.       *)
(***************************************************************************)
EXTENDS Integers, Sequences, SequencesExt, FiniteSets

CONSTANTS
  Keys, Values, NoValue,
  HashBits,      \* bits of a hash value
  Hash,          \* key -> hash value
  Strategies,    \* the strategies in use
  MaxSize        \* bound on the number of entries

HASHMAP_MIN_CAP_BITS == 2

ASSUME HashAssumption ==
  /\ HashBits \in Nat /\ MaxSize \in Nat
  /\ \A k \in Keys : Hash[k] \in 0 .. (2^HashBits - 1)
  /\ Strategies \subseteq {"ADD", "SET", "UPDATE", "APPEND"}
  /\ NoValue \notin Values

VARIABLES
  cap_bits,
  buckets,   \* 0 .. cap - 1 -> chain, a sequence of [key, value]
  sz,
  answer,    \* of the last call: result and old value
  inserted   \* history: key -> its values, the latest insertion first

vars == <<cap_bits, buckets, sz, answer, inserted>>

cap == IF cap_bits = 0 THEN 0 ELSE 2^cap_bits

\* hash_bits(): the upper bits of the hash
hash_bits(h, bits) == h \div 2^(HashBits - bits)

\* hashmap__for_each_entry(): all entries in the order of the iteration
Entries == FlattenSeq([b \in 1 .. cap |-> buckets[b - 1]])

Chain(k) == IF cap = 0 THEN <<>> ELSE buckets[hash_bits(Hash[k], cap_bits)]

\* hashmap_find_entry(): the first entry of the chain with the key, 0 if none
FindEntry(k) ==
  LET hits == {i \in DOMAIN Chain(k) : Chain(k)[i].key = k}
  IN IF hits = {} THEN 0 ELSE CHOOSE i \in hits : \A j \in hits : i <= j

\* hashmap_find()
Find(k) == IF FindEntry(k) = 0 THEN NoValue ELSE Chain(k)[FindEntry(k)].value

\* History: the latest of the insertions of k that may be the one found.
Latest(k) == SelectInSeq(inserted[k], LAMBDA v : v = Find(k))

Answer(result, old) == answer' = [result |-> result, old |-> old]

\* hashmap_needs_to_grow()
NeedsToGrow == cap = 0 \/ ((sz + 1) * 4) \div 3 > cap

GrownBits ==
  IF cap_bits + 1 < HASHMAP_MIN_CAP_BITS THEN HASHMAP_MIN_CAP_BITS ELSE cap_bits + 1

\* Mutant: the link to the rest of a chain is read after it is overwritten.
Rehashed_Unsafe(bits) ==
  LET firsts == FlattenSeq([b \in 1 .. cap |->
                  SubSeq(buckets[b - 1], 1, IF buckets[b - 1] = <<>> THEN 0 ELSE 1)])
  IN [b \in 0 .. (2^bits - 1) |->
        Reverse(SelectSeq(firsts, LAMBDA e : hash_bits(Hash[e.key], bits) = b))]

\* hashmap_grow(): each entry in turn goes to the head of its new chain.
Rehashed(bits) ==
  [b \in 0 .. (2^bits - 1) |->
     Reverse(SelectSeq(Entries, LAMBDA e : hash_bits(Hash[e.key], bits) = b))]

\* The entry found is given the new value.
Replace(k, v) ==
  /\ buckets' = [buckets EXCEPT ![hash_bits(Hash[k], cap_bits)][FindEntry(k)].value = v]
  /\ inserted' = [inserted EXCEPT ![k][Latest(k)] = v]
  /\ UNCHANGED <<cap_bits, sz>>

\* A new entry goes to the head of the chain for the capacity bits, in
\* the table tbl.
Push(k, v, bits, tbl) ==
  /\ buckets' = [tbl EXCEPT ![hash_bits(Hash[k], bits)] =
                   <<[key |-> k, value |-> v]>> \o @]
  /\ cap_bits' = bits
  /\ sz' = sz + 1
  /\ inserted' = [inserted EXCEPT ![k] = <<v>> \o @]

\* hashmap_insert() with a key that is there.
InsertExisting(k, v, strategy) ==
  /\ strategy # "APPEND" /\ FindEntry(k) # 0
  /\ \/ strategy \in {"SET", "UPDATE"} /\ Replace(k, v) /\ Answer("ok", Find(k))
     \/ /\ strategy = "ADD" /\ Answer("EEXIST", Find(k))
        /\ UNCHANGED <<cap_bits, buckets, sz, inserted>>

\* hashmap_insert() of a new entry, after growing when needed.
InsertNew(k, v, strategy) ==
  /\ strategy = "APPEND" \/ FindEntry(k) = 0
  /\ strategy # "UPDATE" /\ sz < MaxSize
  /\ IF NeedsToGrow THEN Push(k, v, GrownBits, Rehashed(GrownBits))
                    ELSE Push(k, v, cap_bits, buckets)
  /\ Answer("ok", NoValue)

\* hashmap_insert() fails: nothing to update, no memory for the buckets, or,
\* perhaps after the map has grown, none for the entry.
InsertFails(k, strategy) ==
  /\ strategy = "APPEND" \/ FindEntry(k) = 0
  /\ \/ /\ strategy = "UPDATE" /\ Answer("ENOENT", NoValue)
        /\ UNCHANGED <<cap_bits, buckets>>
     \/ /\ strategy # "UPDATE" /\ Answer("ENOMEM", NoValue)
        /\ UNCHANGED <<cap_bits, buckets>>
     \/ /\ strategy # "UPDATE" /\ NeedsToGrow /\ Answer("ENOMEM", NoValue)
        /\ cap_bits' = GrownBits
        /\ buckets' = Rehashed(GrownBits)
  /\ UNCHANGED <<sz, inserted>>

\* hashmap_delete()
Delete(k) ==
  /\ FindEntry(k) # 0
  /\ buckets' = [buckets EXCEPT ![hash_bits(Hash[k], cap_bits)] =
                   RemoveAt(@, FindEntry(k))]
  /\ sz' = sz - 1
  /\ inserted' = [inserted EXCEPT ![k] = RemoveAt(@, Latest(k))]
  /\ Answer("ok", Find(k))
  /\ UNCHANGED cap_bits

DeleteMissing(k) ==
  /\ FindEntry(k) = 0
  /\ Answer("ENOENT", NoValue)
  /\ UNCHANGED <<cap_bits, buckets, sz, inserted>>

\* hashmap__clear()
Clear ==
  /\ cap_bits' = 0 /\ sz' = 0
  /\ buckets' = [b \in {} |-> <<>>]
  /\ inserted' = [k \in Keys |-> <<>>]
  /\ Answer("ok", NoValue)

\* hashmap__init()
Init ==
  /\ cap_bits = 0 /\ sz = 0
  /\ buckets = [b \in {} |-> <<>>]
  /\ answer = [result |-> "ok", old |-> NoValue]
  /\ inserted = [k \in Keys |-> <<>>]

Insert(k, v, strategy) ==
  \/ InsertExisting(k, v, strategy) \/ InsertNew(k, v, strategy)
  \/ InsertFails(k, strategy)

Next ==
  \/ \E k \in Keys, v \in Values, s \in Strategies : Insert(k, v, s)
  \/ \E k \in Keys : Delete(k) \/ DeleteMissing(k)
  \/ Clear

Spec == Init /\ [][Next]_vars

------------------------------------------------------------------------------
(* Properties *)

TypeOK ==
  /\ cap_bits \in {0} \cup HASHMAP_MIN_CAP_BITS .. HashBits
  /\ DOMAIN buckets = 0 .. (cap - 1)
  /\ \A b \in DOMAIN buckets : \A i \in DOMAIN buckets[b] :
       buckets[b][i].key \in Keys /\ buckets[b][i].value \in Values
  /\ sz \in 0 .. MaxSize

\* hashmap.h on HASHMAP_APPEND: "If hashmap__find() is still used, it will
\* return last inserted key/value entry (first in a bucket chain)."
FindsLastInserted ==
  \A k \in Keys : inserted[k] # <<>> => Find(k) = inserted[k][1]

\* The hash map is a map, and with APPEND a multimap: what it holds and what
\* its calls answer are what KeyValueMap promises.
Count(k, v) == Cardinality({i \in DOMAIN Chain(k) : Chain(k)[i] = [key |-> k, value |-> v]})
KV == INSTANCE KeyValueMap WITH
        content <- [k \in Keys |-> [v \in Values |-> Count(k, v)]]
KVSpec == KV!KVSpec
==============================================================================

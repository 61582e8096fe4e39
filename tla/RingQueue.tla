------------------------------ MODULE RingQueue ------------------------------
(***************************************************************************)
(* What a BPF ring buffer promises its user-space consumer, without        *)
(* positions, memory or wrap-around: a log of records in reservation       *)
(* order, each resolved once (committed or discarded) by its producer, and *)
(* a single consumer that looks at them strictly in that order, is handed  *)
(* exactly the committed ones, and gives the space of a record back only   *)
(* after it has been dealt with.                                           *)
(***************************************************************************)
EXTENDS Integers, Sequences

VARIABLES
  recs,       \* recs[i]: the state of the i-th reserved record
  taken,      \* how many records the consumer has looked at
  released,   \* how many records' space was given back to the producers
  delivered   \* indices of the records handed to the sample callback

queueVars == <<recs, taken, released, delivered>>

Status == {"busy", "committed", "discarded"}

QueueTypeOK ==
  /\ recs \in Seq(Status)
  /\ taken \in 0..Len(recs)
  /\ released \in 0..taken
  /\ delivered \in Seq(1..Len(recs))

QueueInit ==
  /\ recs = <<>>
  /\ taken = 0
  /\ released = 0
  /\ delivered = <<>>

QueueReserve ==
  /\ recs' = Append(recs, "busy")
  /\ UNCHANGED <<taken, released, delivered>>

QueueResolve ==
  /\ \E i \in 1..Len(recs), st \in Status \ {"busy"} :
       /\ recs[i] = "busy"
       /\ recs' = [recs EXCEPT ![i] = st]
  /\ UNCHANGED <<taken, released, delivered>>

\* The consumer moves past the next record, which must be resolved, while it
\* holds no other record; a committed one is handed to the callback.
QueueTake ==
  /\ released = taken
  /\ taken < Len(recs)
  /\ recs[taken + 1] # "busy"
  /\ taken' = taken + 1
  /\ delivered' = IF recs[taken + 1] = "committed"
                    THEN Append(delivered, taken + 1) ELSE delivered
  /\ UNCHANGED <<recs, released>>

QueueRelease ==
  /\ released < taken
  /\ released' = taken
  /\ UNCHANGED <<recs, taken, delivered>>

QueueNext == QueueReserve \/ QueueResolve \/ QueueTake \/ QueueRelease

QueueSpec == QueueInit /\ [][QueueNext]_queueVars
=============================================================================

----------------------------- MODULE KeyValueMap -----------------------------
(***************************************************************************)
(* What the users of hashmap.c rely on: for each key a bag of values, which *)
(* has at most one member unless APPEND is used, and what each call        *)
(* answers.  Which of several values of a key a call finds is left open.   *)
(***************************************************************************)
EXTENDS Naturals

CONSTANTS Keys, Values, NoValue

VARIABLES
  content,   \* key -> value -> how many entries
  answer     \* of the last call: result and the old value handed out

kvVars == <<content, answer>>

\* A value some entry of the key has, or NoValue if it has no entry.
MayFind(k, v) ==
  IF v = NoValue THEN \A w \in Values : content[k][w] = 0 ELSE content[k][v] > 0

Has(k) == ~MayFind(k, NoValue)

Answer(result, old) == answer' = [result |-> result, old |-> old]

KVInit ==
  /\ content = [k \in Keys |-> [v \in Values |-> 0]]
  /\ answer = [result |-> "ok", old |-> NoValue]

\* The key exists: SET and UPDATE replace a value, ADD refuses.
KVExisting(k, v, strategy) ==
  \E old \in Values :
    /\ MayFind(k, old)
    /\ \/ /\ strategy \in {"SET", "UPDATE"}
          /\ content' = [content EXCEPT ![k] =
                           [[@ EXCEPT ![old] = @ - 1] EXCEPT ![v] = @ + 1]]
          /\ Answer("ok", old)
       \/ /\ strategy = "ADD" /\ Answer("EEXIST", old)
          /\ UNCHANGED content

\* An entry is added, or memory runs out.
KVNew(k, v, strategy) ==
  /\ strategy = "APPEND" \/ (~Has(k) /\ strategy # "UPDATE")
  /\ \/ content' = [content EXCEPT ![k][v] = @ + 1] /\ Answer("ok", NoValue)
     \/ Answer("ENOMEM", NoValue) /\ UNCHANGED content

KVNothingToUpdate(k) ==
  ~Has(k) /\ Answer("ENOENT", NoValue) /\ UNCHANGED content

KVDelete(k) ==
  \E old \in Values :
    /\ MayFind(k, old)
    /\ content' = [content EXCEPT ![k][old] = @ - 1]
    /\ Answer("ok", old)

KVClear ==
  /\ content' = [k \in Keys |-> [v \in Values |-> 0]]
  /\ Answer("ok", NoValue)

KVNext ==
  \/ \E k \in Keys, v \in Values, s \in {"ADD", "SET", "UPDATE", "APPEND"} :
       KVExisting(k, v, s) \/ KVNew(k, v, s)
  \/ \E k \in Keys : KVNothingToUpdate(k) \/ KVDelete(k)
  \/ KVClear

KVSpec == KVInit /\ [][KVNext]_kvVars
==============================================================================

----------------------------- MODULE HashTable -----------------------------
(***************************************************************************)
(* The open-addressing hash table of source/private/hash/table.c: linear   *)
(* probing, no deletion, and doubling once the load passes MAX_LOAD.  The  *)
(* keyword table of the scanner and every scope of the interpreter are     *)
(* such tables.  Locals that are dead are reset, so that they tell no two  *)
(* states apart.                                                           *)
(*                                                                         *)
(* Every loop of the C code is a program-counter state here and every      *)
(* iteration a step, so that "the probe loop ends" and "the rehash loop    *)
(* loses nothing" are statements about the model and not assumptions of    *)
(* it.  The hash function is chosen when the table is created, as the      *)
(* pointer handed to hash_table_new is; any function from keys to Nat will *)
(* do, FNV-1a being one of them.                                           *)
(***************************************************************************)
EXTENDS Integers, FiniteSets

CONSTANTS
  Keys,              \* key strings, compared by content
  Values,            \* what a void* value may point to
  HashFunctions,     \* the functions hash_table_new may be given
  INITIAL_CAPACITY,  \* 8 in the code
  NULL,              \* the null pointer
  MaxInserts,        \* bound: insertions per table
  AllowRedefinition  \* may a key that is present be inserted again?

ASSUME HashFunctionsAssumption == HashFunctions \subseteq [Keys -> Nat]
ASSUME CapacityAssumption == INITIAL_CAPACITY \in Nat /\ INITIAL_CAPACITY > 4
ASSUME NullAssumption == NULL \notin Keys /\ NULL \notin Values /\ NULL \notin Nat
ASSUME BoundAssumption == MaxInserts \in Nat
ASSUME RedefinitionAssumption == AllowRedefinition \in BOOLEAN

VARIABLES
  data,     \* table->data, a function on 0 .. size-1
  len,      \* table->len
  cap,      \* table->cap
  function, \* table->function
  newdata,  \* the array rehash is filling
  oldcap,   \* the capacity it is growing from
  i,        \* the loop counter of rehash
  pc,       \* which loop is running
  op,       \* the call in progress, or the lookup that has just answered
  key,      \* its key argument
  value,    \* its value argument
  slot,     \* the variable `hash` of the probe loops
  result,   \* what the last lookup returned: a bucket index or NULL
  latest    \* history: the value most recently given to each key

tableVars == <<data, len, cap, function>>
callVars == <<op, key, value>>
rehashVars == <<newdata, oldcap, i>>
vars == <<data, len, cap, function, newdata, oldcap, i, pc, op, key, value,
          slot, result, latest>>

-----------------------------------------------------------------------------
(* struct hash_bucket; a bucket is free while its key is NULL.             *)
Bucket == [key : Keys \cup {NULL}, value : Values \cup {NULL}]
Free == [key |-> NULL, value |-> NULL]
Slots(n) == 0 .. n - 1
NoBuckets == [j \in Slots(0) |-> Free]
Occupied(buckets, n) == {j \in Slots(n) : buckets[j].key # NULL}

(* Variants below named Faulty... are the mistakes the properties must     *)
(* reject; no specification uses them.                                     *)

FaultyNextSlot(j) == j + 1

(* hash %= cap, and the step hash = (hash + 1) % cap of the probe loops.   *)
Home(k) == function[k] % cap
NextSlot(j) == (j + 1) % cap

(* The load computed in integers, which is 0 until the table is full. *)
FaultyNeedsRehash == len = 0 \/ len >= cap

(* len / cap > MAX_LOAD with MAX_LOAD = 0.75, and the first insertion.     *)
NeedsRehash == len = 0 \/ 4 * len > 3 * cap
GrownCapacity == IF cap = 0 THEN INITIAL_CAPACITY ELSE 2 * cap

-----------------------------------------------------------------------------
(* hash_table_new                                                          *)
Init ==
  /\ data = NoBuckets
  /\ len = 0
  /\ cap = 0
  /\ function \in HashFunctions
  /\ newdata = NoBuckets
  /\ oldcap = 0
  /\ i = 0
  /\ pc = "idle"
  /\ op = "none"
  /\ key = NULL
  /\ value = NULL
  /\ slot = 0
  /\ result = NULL
  /\ latest = [k \in Keys |-> NULL]

(* hash_table_insert: the load test, then rehash or straight to the        *)
(* insertion.  Growing sets cap before the buckets move, so from here on   *)
(* Home and NextSlot are those of the new array.                           *)
Insert(k, v) ==
  /\ pc = "idle"
  /\ len < MaxInserts
  /\ AllowRedefinition \/ latest[k] = NULL
  /\ op' = "insert"
  /\ key' = k
  /\ value' = v
  /\ \/ /\ NeedsRehash
        /\ oldcap' = cap
        /\ cap' = GrownCapacity
        /\ newdata' = [j \in Slots(GrownCapacity) |-> Free]
        /\ i' = 0
        /\ pc' = "rehash"
        /\ UNCHANGED slot
     \/ /\ ~NeedsRehash
        /\ slot' = Home(k)
        /\ pc' = "place"
        /\ UNCHANGED <<cap, rehashVars>>
  /\ result' = NULL
  /\ UNCHANGED <<data, len, function, latest>>

(* One iteration of the copying loop of rehash over a free bucket.         *)
RehashSkip ==
  /\ pc = "rehash"
  /\ i < oldcap
  /\ data[i].key = NULL
  /\ i' = i + 1
  /\ UNCHANGED <<tableVars, newdata, oldcap, pc, callVars, slot, result, latest>>

(* A bucket moved to the place it had. *)
FaultyRehashMove ==
  /\ pc = "rehash"
  /\ i < oldcap
  /\ data[i].key # NULL
  /\ slot' = i
  /\ pc' = "move"
  /\ UNCHANGED <<tableVars, rehashVars, callVars, result, latest>>

(* One iteration over an occupied bucket enters insert_raw on newdata ...  *)
RehashMove ==
  /\ pc = "rehash"
  /\ i < oldcap
  /\ data[i].key # NULL
  /\ slot' = Home(data[i].key)
  /\ pc' = "move"
  /\ UNCHANGED <<tableVars, rehashVars, callVars, result, latest>>

(* ... whose probe loop passes occupied buckets ...                        *)
MoveProbe ==
  /\ pc = "move"
  /\ newdata[slot].key # NULL
  /\ slot' = NextSlot(slot)
  /\ UNCHANGED <<tableVars, rehashVars, pc, callVars, result, latest>>

(* The wrong value, that of the insertion in progress. *)
FaultyMoveStore ==
  /\ pc = "move"
  /\ newdata[slot].key = NULL
  /\ newdata' = [newdata EXCEPT ![slot] = [key |-> data[i].key, value |-> value]]
  /\ i' = i + 1
  /\ slot' = 0
  /\ pc' = "rehash"
  /\ UNCHANGED <<tableVars, oldcap, callVars, result, latest>>

(* ... and fills the first free one.                                       *)
MoveStore ==
  /\ pc = "move"
  /\ newdata[slot].key = NULL
  /\ newdata' = [newdata EXCEPT ![slot] = data[i]]
  /\ i' = i + 1
  /\ slot' = 0
  /\ pc' = "rehash"
  /\ UNCHANGED <<tableVars, oldcap, callVars, result, latest>>

(* A loop that ends one bucket early. *)
FaultyRehashEnd ==
  /\ pc = "rehash"
  /\ i + 1 >= oldcap
  /\ data' = newdata
  /\ newdata' = NoBuckets
  /\ oldcap' = 0
  /\ i' = 0
  /\ slot' = Home(key)
  /\ pc' = "place"
  /\ UNCHANGED <<len, cap, function, callVars, result, latest>>

(* The end of rehash: the table takes the new array, and the insertion     *)
(* that asked for the rehash enters insert_raw.                            *)
RehashEnd ==
  /\ pc = "rehash"
  /\ i >= oldcap
  /\ data' = newdata
  /\ newdata' = NoBuckets
  /\ oldcap' = 0
  /\ i' = 0
  /\ slot' = Home(key)
  /\ pc' = "place"
  /\ UNCHANGED <<len, cap, function, callVars, result, latest>>

(* insert_raw on the table: probe, then store and count.                   *)
PlaceProbe ==
  /\ pc = "place"
  /\ data[slot].key # NULL
  /\ slot' = NextSlot(slot)
  /\ UNCHANGED <<tableVars, rehashVars, pc, callVars, result, latest>>

(* A bucket that is not counted. *)
FaultyPlaceStore ==
  /\ pc = "place"
  /\ data[slot].key = NULL
  /\ data' = [data EXCEPT ![slot] = [key |-> key, value |-> value]]
  /\ pc' = "idle"
  /\ latest' = [latest EXCEPT ![key] = value]
  /\ op' = "none"
  /\ key' = NULL
  /\ value' = NULL
  /\ slot' = 0
  /\ UNCHANGED <<len, cap, function, rehashVars, result>>

PlaceStore ==
  /\ pc = "place"
  /\ data[slot].key = NULL
  /\ data' = [data EXCEPT ![slot] = [key |-> key, value |-> value]]
  /\ len' = len + 1
  /\ pc' = "idle"
  /\ latest' = [latest EXCEPT ![key] = value]
  /\ op' = "none"
  /\ key' = NULL
  /\ value' = NULL
  /\ slot' = 0
  /\ UNCHANGED <<cap, function, rehashVars, result>>

(* hash_table_try_get, called by hash_table_contains and environment_get   *)
(* to read (o = "get") and by environment_assign to store through the      *)
(* pointer it returns (o = "assign").                                      *)
TryGet(o, k, v) ==
  /\ pc = "idle"
  /\ op' = o
  /\ key' = k
  /\ result' = NULL
  /\ \/ /\ len = 0
        /\ value' = NULL
        /\ UNCHANGED <<pc, slot>>
     \/ /\ len # 0
        /\ value' = v
        /\ slot' = Home(k)
        /\ pc' = "get"
  /\ UNCHANGED <<tableVars, rehashVars, latest>>

GetProbe ==
  /\ pc = "get"
  /\ data[slot].key \notin {NULL, key}
  /\ slot' = NextSlot(slot)
  /\ UNCHANGED <<tableVars, rehashVars, pc, callVars, result, latest>>

GetMiss ==
  /\ pc = "get"
  /\ data[slot].key = NULL
  /\ pc' = "idle"
  /\ value' = NULL
  /\ slot' = 0
  /\ UNCHANGED <<tableVars, rehashVars, op, key, result, latest>>

(* An assignment that stores into a copy of the bucket. *)
FaultyGetHit ==
  /\ pc = "get"
  /\ data[slot].key = key
  /\ result' = slot
  /\ pc' = "idle"
  /\ latest' = IF op = "assign" THEN [latest EXCEPT ![key] = value] ELSE latest
  /\ value' = NULL
  /\ slot' = 0
  /\ UNCHANGED <<data, len, cap, function, rehashVars, op, key>>

GetHit ==
  /\ pc = "get"
  /\ data[slot].key = key
  /\ result' = slot
  /\ pc' = "idle"
  /\ \/ /\ op = "assign"
        /\ data' = [data EXCEPT ![slot] = [key |-> key, value |-> value]]
        /\ latest' = [latest EXCEPT ![key] = value]
     \/ /\ op = "get"
        /\ UNCHANGED <<data, latest>>
  /\ value' = NULL
  /\ slot' = 0
  /\ UNCHANGED <<len, cap, function, rehashVars, op, key>>

Call ==
  \E k \in Keys :
    \/ \E v \in Values : Insert(k, v) \/ TryGet("assign", k, v)
    \/ TryGet("get", k, NULL)

Run ==
  \/ RehashSkip \/ RehashMove \/ MoveProbe \/ MoveStore \/ RehashEnd
  \/ PlaceProbe \/ PlaceStore
  \/ GetProbe \/ GetMiss \/ GetHit

Next == Call \/ Run

(* A call that has begun runs to its end: the thread executing it is never *)
(* suspended for ever.  Nobody is obliged to make a call.                  *)
Spec == Init /\ [][Next]_vars /\ WF_vars(Run)
-----------------------------------------------------------------------------
(* Invariants.                                                             *)

Rehashing == pc \in {"rehash", "move"}
DataCap == IF Rehashing THEN oldcap ELSE cap

(* The variables have the shapes the C declarations give them, the arrays  *)
(* the lengths the code allocates, and every cursor lies inside the array  *)
(* it indexes: no probe or copy loop of table.c reads out of bounds.       *)
TypeOK ==
  /\ len \in Nat
  /\ cap \in Nat
  /\ oldcap \in Nat
  /\ i \in 0 .. oldcap
  /\ data \in [Slots(DataCap) -> Bucket]
  /\ newdata \in [Slots(IF Rehashing THEN cap ELSE 0) -> Bucket]
  /\ function \in HashFunctions
  /\ pc \in {"idle", "rehash", "move", "place", "get"}
  /\ op \in {"none", "insert", "get", "assign"}
  /\ key \in Keys \cup {NULL}
  /\ value \in Values \cup {NULL}
  /\ slot \in Nat
  /\ pc \in {"move", "place", "get"} => slot < cap
  /\ pc = "move" => i < oldcap
  /\ pc # "idle" => op # "none" /\ key \in Keys
  /\ pc # "idle" /\ op \in {"insert", "assign"} => value \in Values
  /\ pc \in {"rehash", "move", "place"} => op = "insert"
  /\ pc = "get" => op \in {"get", "assign"}
  /\ result \in Nat \cup {NULL}
  /\ latest \in [Keys -> Values \cup {NULL}]

(* Going round the table upwards from h, slot s comes before slot j.       *)
Between(h, s, j) == IF h <= j THEN h <= s /\ s < j ELSE h <= s \/ s < j

(* No bucket on the way from a key's home slot to the bucket that holds it *)
(* is free: what linear probing needs to find the key again.               *)
Probeable(buckets) ==
  \A j, s \in Slots(cap) :
    /\ buckets[j].key # NULL
    /\ Between(Home(buckets[j].key), s, j)
    => buckets[s].key # NULL

(* The array lookups will use next is probeable at every step, the middle  *)
(* of a rehash included: there it is the new array, under the new          *)
(* capacity.                                                               *)
ProbeChains == Probeable(IF Rehashing THEN newdata ELSE data)

(* The three probe loops of table.c have no exit but a free bucket or a    *)
(* match, so they end only because every array they run on keeps a free    *)
(* bucket: the load test of hash_table_insert, taken before the count goes *)
(* up, must leave room for the one bucket more.                            *)
VacantBucket ==
  /\ pc = "move" => \E j \in Slots(cap) : newdata[j].key = NULL
  /\ pc \in {"place", "get"} => \E j \in Slots(cap) : data[j].key = NULL

(* A lookup answers NULL exactly for the keys never inserted, whatever the *)
(* collisions and however many rehashes there were in between; otherwise   *)
(* it points to a bucket that holds the key.                               *)
LookupFindsKey ==
  pc = "idle" /\ op \in {"get", "assign"} =>
    IF latest[key] = NULL
    THEN result = NULL
    ELSE result \in Slots(cap) /\ data[result].key = key

(* The first n buckets of an array that hold k; the n-th of a set of       *)
(* buckets on the way from slot h; and their values in that order.         *)
Holding(buckets, n, k) == {j \in Slots(n) : buckets[j].key = k}
Nth(S, h, n) == CHOOSE j \in S : Cardinality({s \in S : Between(h, s, j)}) = n - 1
Listed(buckets, S, h) == [n \in 1 .. Cardinality(S) |-> buckets[Nth(S, h, n)].value]

(* The bucket a lookup of k started now would reach.                       *)
FirstOf(k) ==
  CHOOSE j \in Slots(cap) :
    /\ data[j].key = k
    /\ \A s \in Slots(cap) : Between(Home(k), s, j) => data[s].key # k

(* Between calls, every key that was given a value shows the last one it   *)
(* was given.  It holds as long as no key is inserted twice.               *)
LatestVisible ==
  pc = "idle" => \A k \in Keys : latest[k] # NULL => data[FirstOf(k)].value = latest[k]

(* The table implements the store of module Bindings, redefinitions        *)
(* included: seen from outside, a rehash is one step that rotates lists of *)
(* bindings, and every other change touches one binding of one key.        *)
Store == INSTANCE Bindings WITH
  bound <- [k \in Keys |-> Listed(data, Holding(data, DataCap, k), function[k] % DataCap)],
  answer <- IF pc = "idle" /\ op \in {"get", "assign"}
            THEN <<key, IF result = NULL THEN NULL ELSE data[result].value>>
            ELSE NULL
ImplementsBindings == Store!Spec

(* Every call of table.c returns.                                          *)
CallsReturn == pc # "idle" ~> pc = "idle"
-----------------------------------------------------------------------------
(* The strengthening that makes the invariants above inductive.            *)

(* The buckets of the old array the copying loop has still to visit.       *)
Pending == {j \in Slots(oldcap) : i <= j /\ data[j].key # NULL}

(* table->len counts the buckets in use; during a rehash they are split    *)
(* between the new array and the part of the old one still to be copied.   *)
CountInv ==
  /\ ~Rehashing => Cardinality(Occupied(data, cap)) = len
  /\ Rehashing => Cardinality(Occupied(newdata, cap)) + Cardinality(Pending) = len

(* The load test, as it stands between calls and while a bucket is added.  *)
LoadInv ==
  /\ cap = 0 => len = 0 /\ pc = "idle"
  /\ cap # 0 => cap >= INITIAL_CAPACITY
  /\ pc \in {"idle", "get"} => (len = 0 => cap = 0) /\ 4 * len <= 3 * cap + 4
  /\ pc \in {"rehash", "move", "place"} => 4 * len <= 3 * cap

(* The keys in the table are the keys that were given a value, and the     *)
(* copying loop has copied exactly the buckets it has passed.              *)
KeysInv ==
  /\ \A j \in Slots(DataCap) : data[j].key # NULL => latest[data[j].key] # NULL
  /\ \A k \in Keys : latest[k] # NULL => \E j \in Slots(DataCap) : data[j].key = k
  /\ Rehashing =>
       /\ \A j \in Slots(i) : data[j].key # NULL => \E s \in Slots(cap) : newdata[s] = data[j]
       /\ \A s \in Slots(cap) : newdata[s].key # NULL => \E j \in Slots(i) : newdata[s] = data[j]

(* What the probe loops have passed so far.                                *)
CursorInv ==
  /\ pc = "move" =>
       /\ data[i].key # NULL
       /\ \A s \in Slots(cap) : Between(Home(data[i].key), s, slot) => newdata[s].key # NULL
  /\ pc = "place" =>
       \A s \in Slots(cap) : Between(Home(key), s, slot) => data[s].key # NULL
  /\ pc = "get" =>
       /\ result = NULL
       /\ \A s \in Slots(cap) : Between(Home(key), s, slot) => data[s].key \notin {NULL, key}

(* The copying loop meets the buckets of a key in index order, and the     *)
(* probe for each ends behind those it has copied before: on the way from  *)
(* the key's new home they are met in the order they had in the old array. *)
CopyInv ==
  Rehashing =>
    \A k \in Keys :
      Listed(newdata, Holding(newdata, cap, k), Home(k)) = Listed(data, Holding(data, i, k), 0)

(* Without redefinition a key has one bucket, holding its latest value.    *)
Unique(buckets, n) ==
  \A j, s \in Slots(n) : buckets[j].key # NULL /\ buckets[j].key = buckets[s].key => j = s
FreshInv ==
  ~AllowRedefinition =>
    /\ Unique(data, DataCap)
    /\ \A j \in Slots(DataCap) : data[j].key # NULL => data[j].value = latest[data[j].key]
    /\ Rehashing => Unique(newdata, cap)
    /\ pc \in {"rehash", "move", "place"} => latest[key] = NULL

(* The inductive invariant of the table: the load test leaves a free       *)
(* bucket, the chains lead to every key, and no key is lost or invented.   *)
TableInv ==
  /\ TypeOK
  /\ LoadInv
  /\ CountInv
  /\ ProbeChains
  /\ KeysInv
  /\ CursorInv
  /\ LookupFindsKey
  /\ CopyInv
  /\ FreshInv
=============================================================================

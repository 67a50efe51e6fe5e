-------------------------- MODULE HashTableProofs --------------------------
(***************************************************************************)
(* TLAPS proofs of the invariants of module HashTable, for every set of    *)
(* keys and values, every hash function, and any number of insertions and  *)
(* rehashes.                                                               *)
(***************************************************************************)
EXTENDS HashTable, FiniteSetTheorems, TLAPS

(* hash % cap lies inside the array. *)
LEMMA ModRange ==
  ASSUME NEW a \in Nat, NEW b \in Nat, b > 0
  PROVE  a % b \in 0 .. b - 1
OBVIOUS

(* The probe step moves up by one and wraps at the end of the array. *)
LEMMA ProbeStep ==
  ASSUME NEW a \in Nat, NEW b \in Nat, a < b
  PROVE  (a + 1) % b = IF a + 1 = b THEN 0 ELSE a + 1
OBVIOUS

(* The home slot of a key is a slot of the current array. *)
LEMMA HomeInRange ==
  ASSUME function \in HashFunctions, cap \in Nat, cap > 0, NEW k \in Keys
  PROVE  Home(k) \in Nat /\ Home(k) < cap
<1>1. function[k] \in Nat
  BY HashFunctionsAssumption
<1>. QED
  BY <1>1, ModRange DEF Home

(* So is the slot after any slot of it. *)
LEMMA NextSlotInRange ==
  ASSUME cap \in Nat, NEW j \in Nat, j < cap
  PROVE  /\ NextSlot(j) \in Nat
         /\ NextSlot(j) < cap
         /\ NextSlot(j) = IF j + 1 = cap THEN 0 ELSE j + 1
BY ProbeStep DEF NextSlot

-----------------------------------------------------------------------------
(* Type correctness needs the load invariant with it: a home slot exists   *)
(* only because an array a loop runs on is never empty.                    *)
TypeInv == TypeOK /\ LoadInv

LEMMA InitTypeInv ==
  Init => TypeInv
<1>. SUFFICES ASSUME Init PROVE TypeInv
  OBVIOUS
<1>1. data \in [Slots(0) -> Bucket]
  BY DEF Init, NoBuckets, Slots, Bucket, Free
<1>2. TypeOK
  BY <1>1 DEF Init, TypeOK, Rehashing, DataCap, Slots
<1>3. LoadInv
  BY CapacityAssumption DEF Init, LoadInv
<1>. QED
  BY <1>2, <1>3 DEF TypeInv

LEMMA NextTypeInv ==
  TypeInv /\ [Next]_vars => TypeInv'
<1>. SUFFICES ASSUME TypeInv, [Next]_vars PROVE TypeInv'
  OBVIOUS
<1>. USE CapacityAssumption, NullAssumption DEF TypeInv
<1>1. ASSUME NEW k \in Keys, NEW v \in Values, Insert(k, v)
      PROVE  TypeInv'
  <2>. USE <1>1 DEF Insert
  <2>1. CASE NeedsRehash
    <3>1. GrownCapacity \in Nat /\ GrownCapacity >= INITIAL_CAPACITY
      BY <2>1 DEF TypeOK, LoadInv, GrownCapacity
    <3>2. [j \in Slots(GrownCapacity) |-> Free] \in [Slots(GrownCapacity) -> Bucket]
      BY DEF Bucket, Free
    <3>3. TypeOK'
      BY <2>1, <3>1, <3>2 DEF TypeOK, Rehashing, DataCap
    <3>4. LoadInv'
      BY <2>1, <3>1 DEF TypeOK, LoadInv, NeedsRehash, GrownCapacity
    <3>. QED
      BY <3>3, <3>4
  <2>2. CASE ~NeedsRehash
    <3>1. cap > 0
      BY <2>2 DEF NeedsRehash, TypeOK, LoadInv
    <3>2. Home(k) \in Nat /\ Home(k) < cap
      BY <3>1, HomeInRange DEF TypeOK
    <3>3. TypeOK'
      BY <2>2, <3>2 DEF TypeOK, Rehashing, DataCap, rehashVars
    <3>4. LoadInv'
      BY <2>2, <3>1 DEF TypeOK, LoadInv, NeedsRehash
    <3>. QED
      BY <3>3, <3>4
  <2>. QED
    BY <2>1, <2>2
<1>2. CASE RehashSkip
  <2>1. TypeOK'
    BY <1>2 DEF RehashSkip, TypeOK, Rehashing, DataCap, tableVars, callVars
  <2>2. LoadInv'
    BY <1>2 DEF RehashSkip, LoadInv, tableVars, callVars
  <2>. QED
    BY <2>1, <2>2
<1>3. CASE RehashMove
  <2>1. cap > 0 /\ data[i].key \in Keys
    BY <1>3 DEF RehashMove, TypeOK, LoadInv, Rehashing, DataCap, Slots, Bucket
  <2>2. Home(data[i].key) \in Nat /\ Home(data[i].key) < cap
    BY <2>1, HomeInRange DEF TypeOK
  <2>3. TypeOK'
    BY <1>3, <2>2 DEF RehashMove, TypeOK, Rehashing, DataCap, tableVars, rehashVars, callVars
  <2>4. LoadInv'
    BY <1>3 DEF RehashMove, LoadInv, tableVars
  <2>. QED
    BY <2>3, <2>4
<1>4. CASE MoveProbe
  <2>1. NextSlot(slot) \in Nat /\ NextSlot(slot) < cap
    BY <1>4, NextSlotInRange DEF MoveProbe, TypeOK
  <2>2. TypeOK'
    BY <1>4, <2>1 DEF MoveProbe, TypeOK, Rehashing, DataCap, tableVars, rehashVars, callVars
  <2>3. LoadInv'
    BY <1>4 DEF MoveProbe, LoadInv, tableVars
  <2>. QED
    BY <2>2, <2>3
<1>5. CASE MoveStore
  <2>1. data[i] \in Bucket
    BY <1>5 DEF MoveStore, TypeOK, Rehashing, DataCap, Slots
  <2>2. newdata' \in [Slots(cap) -> Bucket]
    BY <1>5, <2>1 DEF MoveStore, TypeOK, Rehashing, Slots
  <2>3. TypeOK'
    BY <1>5, <2>2 DEF MoveStore, TypeOK, Rehashing, DataCap, tableVars, callVars
  <2>4. LoadInv'
    BY <1>5 DEF MoveStore, LoadInv, tableVars
  <2>. QED
    BY <2>3, <2>4
<1>6. CASE RehashEnd
  <2>1. cap > 0
    BY <1>6 DEF RehashEnd, TypeOK, LoadInv
  <2>2. Home(key) \in Nat /\ Home(key) < cap
    BY <1>6, <2>1, HomeInRange DEF RehashEnd, TypeOK
  <2>3. newdata' \in [Slots(0) -> Bucket]
    BY <1>6 DEF RehashEnd, NoBuckets, Slots, Bucket, Free
  <2>4. TypeOK'
    BY <1>6, <2>2, <2>3 DEF RehashEnd, TypeOK, Rehashing, DataCap, callVars
  <2>5. LoadInv'
    BY <1>6 DEF RehashEnd, LoadInv
  <2>. QED
    BY <2>4, <2>5
<1>7. CASE PlaceProbe
  <2>1. NextSlot(slot) \in Nat /\ NextSlot(slot) < cap
    BY <1>7, NextSlotInRange DEF PlaceProbe, TypeOK
  <2>2. TypeOK'
    BY <1>7, <2>1 DEF PlaceProbe, TypeOK, Rehashing, DataCap, tableVars, rehashVars, callVars
  <2>3. LoadInv'
    BY <1>7 DEF PlaceProbe, LoadInv, tableVars
  <2>. QED
    BY <2>2, <2>3
<1>8. CASE PlaceStore
  <2>1. data' \in [Slots(cap) -> Bucket]
    BY <1>8 DEF PlaceStore, TypeOK, Rehashing, DataCap, Bucket
  <2>2. latest' \in [Keys -> Values \cup {NULL}]
    BY <1>8 DEF PlaceStore, TypeOK
  <2>3. TypeOK'
    BY <1>8, <2>1, <2>2 DEF PlaceStore, TypeOK, Rehashing, DataCap, rehashVars
  <2>4. LoadInv'
    BY <1>8 DEF PlaceStore, LoadInv, TypeOK
  <2>. QED
    BY <2>3, <2>4
<1>9. ASSUME NEW o \in {"get", "assign"}, NEW k \in Keys,
             NEW v \in Values \cup {NULL}, o = "assign" => v \in Values, TryGet(o, k, v)
      PROVE  TypeInv'
  <2>1. len # 0 => Home(k) \in Nat /\ Home(k) < cap
    BY <1>9, HomeInRange DEF TryGet, TypeOK, LoadInv
  <2>2. TypeOK'
    BY <1>9, <2>1 DEF TryGet, TypeOK, Rehashing, DataCap, tableVars, rehashVars
  <2>3. LoadInv'
    BY <1>9 DEF TryGet, LoadInv, TypeOK, tableVars
  <2>. QED
    BY <2>2, <2>3
<1>10. CASE GetProbe
  <2>1. NextSlot(slot) \in Nat /\ NextSlot(slot) < cap
    BY <1>10, NextSlotInRange DEF GetProbe, TypeOK
  <2>2. TypeOK'
    BY <1>10, <2>1 DEF GetProbe, TypeOK, Rehashing, DataCap, tableVars, rehashVars, callVars
  <2>3. LoadInv'
    BY <1>10 DEF GetProbe, LoadInv, tableVars
  <2>. QED
    BY <2>2, <2>3
<1>11. CASE GetMiss
  <2>1. TypeOK'
    BY <1>11 DEF GetMiss, TypeOK, Rehashing, DataCap, tableVars, rehashVars
  <2>2. LoadInv'
    BY <1>11 DEF GetMiss, LoadInv, tableVars
  <2>. QED
    BY <2>1, <2>2
<1>12. CASE GetHit
  <2>1. data' \in [Slots(cap) -> Bucket]
    BY <1>12 DEF GetHit, TypeOK, Rehashing, DataCap, Slots, Bucket
  <2>2. latest' \in [Keys -> Values \cup {NULL}]
    BY <1>12 DEF GetHit, TypeOK
  <2>3. TypeOK'
    BY <1>12, <2>1, <2>2 DEF GetHit, TypeOK, Rehashing, DataCap, rehashVars
  <2>4. LoadInv'
    BY <1>12 DEF GetHit, LoadInv, TypeOK
  <2>. QED
    BY <2>3, <2>4
<1>13. CASE UNCHANGED vars
  BY <1>13 DEF vars, TypeOK, LoadInv, Rehashing, DataCap
<1>. QED
  BY <1>1, <1>2, <1>3, <1>4, <1>5, <1>6, <1>7, <1>8, <1>9, <1>10, <1>11, <1>12, <1>13
     DEF Next, Call, Run

(* No loop of table.c ever indexes outside the array it runs on, whatever  *)
(* the keys, the hash function and the number of calls.                    *)
THEOREM TableTypeCorrect == Spec => []TypeOK
<1>1. TypeInv => TypeOK
  BY DEF TypeInv
<1>. QED
  BY <1>1, InitTypeInv, NextTypeInv, PTL DEF Spec
-----------------------------------------------------------------------------
(* Counting.                                                               *)

(* The buckets in use are finitely many, and if they are fewer than the    *)
(* buckets there are, some bucket is free.                                 *)
LEMMA OccupiedFacts ==
  ASSUME NEW n \in Nat, NEW buckets
  PROVE  /\ IsFiniteSet(Occupied(buckets, n))
         /\ Cardinality(Occupied(buckets, n)) \in Nat
         /\ Cardinality(Occupied(buckets, n)) < n =>
              \E j \in Slots(n) : buckets[j].key = NULL
<1>1. IsFiniteSet(Slots(n)) /\ Cardinality(Slots(n)) = n
  BY FS_Interval DEF Slots
<1>2. Occupied(buckets, n) \in SUBSET Slots(n)
  BY DEF Occupied
<1>3. IsFiniteSet(Occupied(buckets, n)) /\ Cardinality(Occupied(buckets, n)) \in Nat
  BY <1>1, <1>2, FS_Subset, FS_CardinalityType
<1>4. ASSUME \A j \in Slots(n) : buckets[j].key # NULL
      PROVE  Cardinality(Occupied(buckets, n)) = n
  BY <1>1, <1>4 DEF Occupied
<1>. QED
  BY <1>3, <1>4

(* Filling a free bucket adds one to the count. *)
LEMMA FillCounts ==
  ASSUME NEW n \in Nat, NEW buckets \in [Slots(n) -> Bucket], NEW s \in Slots(n),
         buckets[s].key = NULL, NEW b \in Bucket, b.key # NULL
  PROVE  Cardinality(Occupied([buckets EXCEPT ![s] = b], n))
           = Cardinality(Occupied(buckets, n)) + 1
<1>1. Occupied([buckets EXCEPT ![s] = b], n) = Occupied(buckets, n) \cup {s}
  BY DEF Occupied
<1>2. s \notin Occupied(buckets, n)
  BY DEF Occupied
<1>. QED
  BY <1>1, <1>2, OccupiedFacts, FS_AddElement

(* So are the buckets still to be copied. *)
LEMMA PendingFinite ==
  ASSUME oldcap \in Nat
  PROVE  IsFiniteSet(Pending) /\ Cardinality(Pending) \in Nat
<1>1. IsFiniteSet(Slots(oldcap))
  BY FS_Interval DEF Slots
<1>2. Pending \in SUBSET Slots(oldcap)
  BY DEF Pending
<1>. QED
  BY <1>1, <1>2, FS_Subset, FS_CardinalityType

LEMMA InitCountInv ==
  Init => CountInv
<1>. SUFFICES ASSUME Init PROVE CountInv
  OBVIOUS
<1>1. Occupied(data, cap) = {}
  BY DEF Init, Occupied, Slots
<1>. QED
  BY <1>1, FS_EmptySet DEF Init, CountInv, Rehashing

LEMMA NextCountInv ==
  TypeInv /\ CountInv /\ [Next]_vars => CountInv'
<1>. SUFFICES ASSUME TypeInv, CountInv, [Next]_vars PROVE CountInv'
  OBVIOUS
<1>. USE NullAssumption DEF TypeInv, CountInv
<1>1. ASSUME NEW k \in Keys, NEW v \in Values, Insert(k, v)
      PROVE  CountInv'
  <2>. USE <1>1 DEF Insert
  <2>1. CASE NeedsRehash
    <3>1. Occupied(newdata, cap)' = {}
      BY <2>1 DEF Occupied, Free
    <3>2. Pending' = Occupied(data, cap)
      BY <2>1 DEF Pending, Occupied, Slots, TypeOK
    <3>3. Cardinality(Occupied(data, cap)) = len
      BY DEF Rehashing
    <3>4. Cardinality({}) = 0 /\ len \in Nat
      BY FS_EmptySet DEF TypeOK
    <3>. QED
      BY <2>1, <3>1, <3>2, <3>3, <3>4 DEF Rehashing
  <2>2. CASE ~NeedsRehash
    BY <2>2 DEF Rehashing, Occupied, rehashVars
  <2>. QED
    BY <2>1, <2>2
<1>2. CASE RehashSkip
  <2>1. Pending' = Pending
    BY <1>2 DEF RehashSkip, Pending, TypeOK, Slots, tableVars
  <2>2. Occupied(newdata, cap)' = Occupied(newdata, cap)
    BY <1>2 DEF RehashSkip, Occupied, tableVars
  <2>. QED
    BY <1>2, <2>1, <2>2 DEF RehashSkip, Rehashing, tableVars
<1>3. CASE RehashMove
  BY <1>3 DEF RehashMove, Rehashing, Pending, Occupied, tableVars, rehashVars
<1>4. CASE MoveProbe
  BY <1>4 DEF MoveProbe, Rehashing, Pending, Occupied, tableVars, rehashVars
<1>5. CASE MoveStore
  <2>. USE DEF MoveStore
  <2>1. CASE data[i].key = NULL
    <3>1. Pending' = Pending
      BY <1>5, <2>1 DEF Pending, TypeOK, Slots, tableVars
    <3>2. Occupied(newdata, cap)' = Occupied(newdata, cap)
      BY <1>5, <2>1 DEF Occupied, TypeOK, Rehashing, tableVars
    <3>. QED
      BY <1>5, <3>1, <3>2 DEF Rehashing, tableVars
  <2>2. CASE data[i].key # NULL
    <3>1. Cardinality(Occupied(newdata, cap)') = Cardinality(Occupied(newdata, cap)) + 1
      <4>1. data[i] \in Bucket /\ slot \in Slots(cap)
        BY <1>5 DEF TypeOK, Rehashing, DataCap, Slots
      <4>2. newdata \in [Slots(cap) -> Bucket] /\ cap \in Nat
        BY <1>5 DEF TypeOK, Rehashing
      <4>3. Occupied(newdata, cap)' = Occupied([newdata EXCEPT ![slot] = data[i]], cap)
        BY <1>5 DEF Occupied, tableVars
      <4>. QED
        BY <1>5, <2>2, <4>1, <4>2, <4>3, FillCounts
    <3>2. Cardinality(Pending') = Cardinality(Pending) - 1
      <4>1. Pending' = Pending \ {i} /\ i \in Pending
        BY <1>5, <2>2 DEF Pending, TypeOK, Slots, tableVars
      <4>2. IsFiniteSet(Pending)
        BY PendingFinite DEF TypeOK
      <4>. QED
        BY <4>1, <4>2, FS_RemoveElement
    <3>3. Cardinality(Occupied(newdata, cap)) \in Nat
      BY OccupiedFacts DEF TypeOK
    <3>4. Cardinality(Pending) \in Nat
      BY PendingFinite DEF TypeOK
    <3>. QED
      BY <1>5, <3>1, <3>2, <3>3, <3>4 DEF Rehashing, tableVars
  <2>. QED
    BY <2>1, <2>2
<1>6. CASE RehashEnd
  <2>1. Pending = {}
    BY <1>6 DEF RehashEnd, Pending, TypeOK, Slots
  <2>2. Occupied(data, cap)' = Occupied(newdata, cap)
    BY <1>6 DEF RehashEnd, Occupied
  <2>3. Cardinality(Occupied(newdata, cap)) \in Nat /\ Cardinality({}) = 0
    BY OccupiedFacts, FS_EmptySet DEF TypeOK
  <2>. QED
    BY <1>6, <2>1, <2>2, <2>3 DEF RehashEnd, Rehashing
<1>7. CASE PlaceProbe
  BY <1>7 DEF PlaceProbe, Rehashing, Occupied, tableVars
<1>8. CASE PlaceStore
  <2>1. [key |-> key, value |-> value] \in Bucket /\ key # NULL /\ slot \in Slots(cap)
    BY <1>8 DEF PlaceStore, TypeOK, Bucket, Slots
  <2>2. data \in [Slots(cap) -> Bucket] /\ cap \in Nat
    BY <1>8 DEF PlaceStore, TypeOK, Rehashing, DataCap
  <2>3. Occupied(data, cap)' = Occupied([data EXCEPT ![slot] = [key |-> key, value |-> value]], cap)
    BY <1>8 DEF PlaceStore, Occupied
  <2>4. Cardinality(Occupied(data, cap)') = Cardinality(Occupied(data, cap)) + 1
    BY <1>8, <2>1, <2>2, <2>3, FillCounts DEF PlaceStore
  <2>. QED
    BY <1>8, <2>4 DEF PlaceStore, Rehashing
<1>9. ASSUME NEW o, NEW k, NEW v, TryGet(o, k, v)
      PROVE  CountInv'
  BY <1>9 DEF TryGet, Rehashing, Occupied, tableVars
<1>10. CASE GetProbe
  BY <1>10 DEF GetProbe, Rehashing, Occupied, tableVars
<1>11. CASE GetMiss
  BY <1>11 DEF GetMiss, Rehashing, Occupied, tableVars
<1>12. CASE GetHit
  <2>1. Occupied(data, cap)' = Occupied(data, cap)
    BY <1>12 DEF GetHit, Occupied, TypeOK, Rehashing, DataCap
  <2>. QED
    BY <1>12, <2>1 DEF GetHit, Rehashing
<1>13. CASE UNCHANGED vars
  BY <1>13 DEF vars, Rehashing, Occupied, Pending
<1>. QED
  BY <1>1, <1>2, <1>3, <1>4, <1>5, <1>6, <1>7, <1>8, <1>9, <1>10, <1>11, <1>12, <1>13
     DEF Next, Call, Run

(* Whatever the load, a probe loop of table.c meets a free bucket: the     *)
(* test of hash_table_insert and the doubling keep the count below the     *)
(* capacity by more than the one bucket an insertion takes.                *)
THEOREM ProbeLoopsHaveAnExit == Spec => []VacantBucket
<1>1. TypeInv /\ CountInv => VacantBucket
  <2>. SUFFICES ASSUME TypeInv, CountInv PROVE VacantBucket
    OBVIOUS
  <2>. USE CapacityAssumption DEF TypeInv, TypeOK, LoadInv
  <2>1. CASE pc = "move"
    <3>1. Cardinality(Occupied(newdata, cap)) < cap
      BY <2>1, PendingFinite, OccupiedFacts DEF CountInv, Rehashing
    <3>. QED
      BY <2>1, <3>1, OccupiedFacts DEF VacantBucket
  <2>2. CASE pc \in {"place", "get"}
    <3>1. Cardinality(Occupied(data, cap)) < cap
      BY <2>2 DEF CountInv, Rehashing
    <3>. QED
      BY <2>2, <3>1, OccupiedFacts DEF VacantBucket
  <2>. QED
    BY <2>1, <2>2 DEF VacantBucket
<1>. QED
  BY <1>1, InitTypeInv, NextTypeInv, InitCountInv, NextCountInv, PTL DEF Spec
-----------------------------------------------------------------------------
(* Going round the table.                                                  *)

(* Moving the cursor one slot on adds the slot it leaves to the way. *)
LEMMA WayGrows ==
  ASSUME cap \in Nat, NEW h \in Slots(cap), NEW s \in Slots(cap), NEW j \in Slots(cap),
         Between(h, s, NextSlot(j))
  PROVE  Between(h, s, j) \/ s = j
<1>1. NextSlot(j) = IF j + 1 = cap THEN 0 ELSE j + 1
  BY NextSlotInRange DEF Slots
<1>. QED
  BY <1>1 DEF Between, Slots

(* Of two slots, one comes first. *)
LEMMA WayTotal ==
  ASSUME cap \in Nat, NEW h \in Slots(cap), NEW s \in Slots(cap), NEW j \in Slots(cap), s # j
  PROVE  Between(h, s, j) \/ Between(h, j, s)
BY DEF Between, Slots

(* The way from a slot to itself is empty. *)
LEMMA WayEmpty ==
  ASSUME NEW h \in Nat, NEW s \in Nat
  PROVE  ~Between(h, s, h)
BY DEF Between

(* The home of a key, as a slot of the array. *)
LEMMA HomeSlot ==
  ASSUME TypeInv, cap # 0, NEW k \in Keys
  PROVE  Home(k) \in Slots(cap)
<1>1. cap \in Nat /\ cap > 0 /\ function \in HashFunctions
  BY DEF TypeInv, TypeOK
<1>. QED
  BY <1>1, HomeInRange DEF Slots

(* A bucket filled at the end of its key's way keeps the chains whole. *)
LEMMA FillKeepsChains ==
  ASSUME NEW buckets \in [Slots(cap) -> Bucket], NEW s \in Slots(cap), NEW b \in Bucket,
         b.key # NULL, Probeable(buckets),
         \A t \in Slots(cap) : Between(Home(b.key), t, s) => buckets[t].key # NULL
  PROVE  Probeable([buckets EXCEPT ![s] = b])
BY DEF Probeable

(* Chains and cursors: the way a probe loop has come holds no free bucket, *)
(* so the bucket it fills extends a chain.                                 *)
ChainInv == ProbeChains /\ CursorInv

LEMMA InitChainInv ==
  Init => ChainInv
BY DEF Init, ChainInv, ProbeChains, CursorInv, Probeable, Slots, Rehashing

LEMMA NextChainInv ==
  TypeInv /\ ChainInv /\ [Next]_vars => ChainInv'
<1>. SUFFICES ASSUME TypeInv, ChainInv, [Next]_vars PROVE ChainInv'
  OBVIOUS
<1>. USE NullAssumption DEF ChainInv
<1>0. TypeInv'
  BY NextTypeInv
<1>1. ASSUME NEW k \in Keys, NEW v \in Values, Insert(k, v)
      PROVE  ChainInv'
  <2>. USE <1>1 DEF Insert
  <2>1. CASE NeedsRehash
    BY <2>1 DEF ProbeChains, CursorInv, Probeable, Rehashing, Free
  <2>2. CASE ~NeedsRehash
    <3>1. ProbeChains'
      BY <2>2 DEF ProbeChains, Probeable, Rehashing, Home
    <3>2. Home(k) \in Slots(cap)
      BY <2>2, HomeSlot DEF NeedsRehash, TypeInv, TypeOK, LoadInv
    <3>3. \A s \in Slots(cap) : ~Between(Home(k), s, slot')
      BY <2>2, <3>2, WayEmpty DEF Slots
    <3>4. CursorInv'
      BY <2>2, <3>3 DEF CursorInv, Home
    <3>. QED
      BY <3>1, <3>4
  <2>. QED
    BY <2>1, <2>2
<1>2. CASE RehashSkip
  BY <1>2 DEF RehashSkip, ProbeChains, CursorInv, Probeable, Rehashing, Home, tableVars
<1>3. CASE RehashMove
  <2>1. ProbeChains'
    BY <1>3 DEF RehashMove, ProbeChains, Probeable, Rehashing, Home, tableVars, rehashVars
  <2>2. data[i].key \in Keys /\ cap # 0
    BY <1>3 DEF RehashMove, TypeInv, TypeOK, LoadInv, Rehashing, DataCap, Slots, Bucket
  <2>3. \A s \in Slots(cap) : ~Between(Home(data[i].key), s, slot')
    BY <1>3, <2>2, HomeSlot, WayEmpty DEF RehashMove, Slots
  <2>4. CursorInv'
    BY <1>3, <2>3 DEF RehashMove, CursorInv, Home, tableVars, rehashVars
  <2>. QED
    BY <2>1, <2>4
<1>4. CASE MoveProbe
  <2>1. ProbeChains'
    BY <1>4 DEF MoveProbe, ProbeChains, Probeable, Rehashing, Home, tableVars, rehashVars
  <2>2. data[i].key \in Keys /\ cap # 0 /\ cap \in Nat /\ slot \in Slots(cap)
    BY <1>4 DEF MoveProbe, CursorInv, TypeInv, TypeOK, LoadInv, Rehashing, DataCap, Slots, Bucket
  <2>3. Home(data[i].key) \in Slots(cap)
    BY <2>2, HomeSlot
  <2>4. \A s \in Slots(cap) : Between(Home(data[i].key), s, slot')
                                => Between(Home(data[i].key), s, slot) \/ s = slot
    BY <1>4, <2>2, <2>3, WayGrows DEF MoveProbe
  <2>5. CursorInv'
    BY <1>4, <2>4 DEF MoveProbe, CursorInv, Home, tableVars, rehashVars
  <2>. QED
    BY <2>1, <2>5
<1>5. CASE MoveStore
  <2>1. data[i] \in Bucket /\ slot \in Slots(cap) /\ newdata \in [Slots(cap) -> Bucket]
    BY <1>5 DEF MoveStore, TypeInv, TypeOK, Rehashing, DataCap, Slots
  <2>2. Probeable([newdata EXCEPT ![slot] = data[i]])
    BY <1>5, <2>1, FillKeepsChains DEF MoveStore, ProbeChains, CursorInv, Rehashing
  <2>3. ProbeChains'
    BY <1>5, <2>2 DEF MoveStore, ProbeChains, Probeable, Rehashing, Home, tableVars
  <2>. QED
    BY <1>5, <2>3 DEF MoveStore, CursorInv
<1>6. CASE RehashEnd
  <2>1. ProbeChains'
    BY <1>6 DEF RehashEnd, ProbeChains, Probeable, Rehashing, Home
  <2>2. Home(key) \in Slots(cap)
    BY <1>6, HomeSlot DEF RehashEnd, TypeInv, TypeOK, LoadInv
  <2>3. \A s \in Slots(cap) : ~Between(Home(key), s, slot')
    BY <1>6, <2>2, WayEmpty DEF RehashEnd, Slots
  <2>4. CursorInv'
    BY <1>6, <2>3 DEF RehashEnd, CursorInv, Home, callVars
  <2>. QED
    BY <2>1, <2>4
<1>7. CASE PlaceProbe
  <2>1. ProbeChains'
    BY <1>7 DEF PlaceProbe, ProbeChains, Probeable, Rehashing, Home, tableVars
  <2>2. key \in Keys /\ cap # 0 /\ cap \in Nat /\ slot \in Slots(cap)
    BY <1>7 DEF PlaceProbe, TypeInv, TypeOK, LoadInv, Slots
  <2>3. \A s \in Slots(cap) : Between(Home(key), s, slot') => Between(Home(key), s, slot) \/ s = slot
    BY <1>7, <2>2, HomeSlot, WayGrows DEF PlaceProbe
  <2>4. CursorInv'
    BY <1>7, <2>3 DEF PlaceProbe, CursorInv, Home, tableVars, callVars
  <2>. QED
    BY <2>1, <2>4
<1>8. CASE PlaceStore
  <2> DEFINE b == [key |-> key, value |-> value]
  <2>1. b \in Bucket /\ b.key = key /\ key # NULL
    BY <1>8 DEF PlaceStore, TypeInv, TypeOK, Bucket
  <2>2. slot \in Slots(cap) /\ data \in [Slots(cap) -> Bucket]
    BY <1>8 DEF PlaceStore, TypeInv, TypeOK, Rehashing, DataCap, Slots
  <2>3. Probeable(data)
    BY <1>8 DEF PlaceStore, ProbeChains, Rehashing
  <2>4. \A t \in Slots(cap) : Between(Home(b.key), t, slot) => data[t].key # NULL
    BY <1>8, <2>1 DEF PlaceStore, CursorInv
  <2>5. Probeable([data EXCEPT ![slot] = b])
    <3>. HIDE DEF b
    <3>. QED
      BY <2>1, <2>2, <2>3, <2>4, FillKeepsChains
  <2>6. ProbeChains'
    BY <1>8, <2>5 DEF PlaceStore, ProbeChains, Probeable, Rehashing, Home
  <2>. QED
    BY <1>8, <2>6 DEF PlaceStore, CursorInv
<1>9. ASSUME NEW o, NEW k \in Keys, NEW v, TryGet(o, k, v)
      PROVE  ChainInv'
  <2>1. ProbeChains'
    BY <1>9 DEF TryGet, ProbeChains, Probeable, Rehashing, Home, tableVars
  <2>2. CASE len = 0
    BY <1>9, <2>1, <2>2 DEF TryGet, CursorInv
  <2>3. CASE len # 0
    <3>1. Home(k) \in Slots(cap)
      BY <1>9, <2>3, HomeSlot DEF TryGet, TypeInv, TypeOK, LoadInv
    <3>2. \A s \in Slots(cap) : ~Between(Home(k), s, slot')
      BY <1>9, <2>3, <3>1, WayEmpty DEF TryGet, Slots
    <3>. QED
      BY <1>9, <2>1, <2>3, <3>2 DEF TryGet, CursorInv, Home, tableVars
  <2>. QED
    BY <2>2, <2>3
<1>10. CASE GetProbe
  <2>1. ProbeChains'
    BY <1>10 DEF GetProbe, ProbeChains, Probeable, Rehashing, Home, tableVars
  <2>2. key \in Keys /\ cap # 0 /\ cap \in Nat /\ slot \in Slots(cap)
    BY <1>10 DEF GetProbe, TypeInv, TypeOK, LoadInv, Slots
  <2>3. \A s \in Slots(cap) : Between(Home(key), s, slot') => Between(Home(key), s, slot) \/ s = slot
    BY <1>10, <2>2, HomeSlot, WayGrows DEF GetProbe
  <2>4. CursorInv'
    BY <1>10, <2>3 DEF GetProbe, CursorInv, Home, tableVars, callVars
  <2>. QED
    BY <2>1, <2>4
<1>11. CASE GetMiss
  BY <1>11 DEF GetMiss, ProbeChains, Probeable, CursorInv, Rehashing, Home, tableVars
<1>12. CASE GetHit
  <2>1. \A s \in Slots(cap) : data'[s].key = data[s].key
    BY <1>12 DEF GetHit, TypeInv, TypeOK, Rehashing, DataCap
  <2>2. ProbeChains'
    BY <1>12, <2>1 DEF GetHit, ProbeChains, Probeable, Rehashing, Home
  <2>. QED
    BY <1>12, <2>2 DEF GetHit, CursorInv
<1>13. CASE UNCHANGED vars
  BY <1>13 DEF vars, ProbeChains, Probeable, CursorInv, Rehashing, Home
<1>. QED
  BY <1>1, <1>2, <1>3, <1>4, <1>5, <1>6, <1>7, <1>8, <1>9, <1>10, <1>11, <1>12, <1>13
     DEF Next, Call, Run

(* No sequence of insertions, lookups and rehashes breaks a probe chain.   *)
THEOREM ChainsStayWhole == Spec => []ProbeChains
<1>1. ChainInv => ProbeChains
  BY DEF ChainInv
<1>. QED
  BY <1>1, InitTypeInv, NextTypeInv, InitChainInv, NextChainInv, PTL DEF Spec
-----------------------------------------------------------------------------
(* No key is lost or invented.                                             *)

LEMMA InitKeysInv ==
  Init => KeysInv
BY DEF Init, KeysInv, Slots, Rehashing, DataCap

LEMMA NextKeysInv ==
  TypeInv /\ ChainInv /\ KeysInv /\ [Next]_vars => KeysInv'
<1>. SUFFICES ASSUME TypeInv, ChainInv, KeysInv, [Next]_vars PROVE KeysInv'
  OBVIOUS
<1>. USE NullAssumption DEF TypeInv
<1>1. ASSUME NEW k \in Keys, NEW v \in Values, Insert(k, v)
      PROVE  KeysInv'
  <2>. USE <1>1 DEF Insert, KeysInv, Rehashing, DataCap
  <2>1. CASE NeedsRehash
    <3>1. Slots(i') = {}
      BY <2>1 DEF Slots
    <3>2. \A s \in Slots(cap') : newdata'[s].key = NULL
      BY <2>1 DEF Free
    <3>. QED
      BY <2>1, <3>1, <3>2
  <2>2. CASE ~NeedsRehash
    BY <2>2
  <2>. QED
    BY <2>1, <2>2
<1>2. CASE RehashSkip
  BY <1>2 DEF RehashSkip, KeysInv, Rehashing, DataCap, Slots, TypeOK, tableVars
<1>3. CASE RehashMove
  BY <1>3 DEF RehashMove, KeysInv, Rehashing, DataCap, tableVars, rehashVars
<1>4. CASE MoveProbe
  BY <1>4 DEF MoveProbe, KeysInv, Rehashing, DataCap, tableVars, rehashVars
<1>5. CASE MoveStore
  <2>. USE DEF MoveStore
  <2>1. slot \in Slots(cap) /\ newdata \in [Slots(cap) -> Bucket] /\ i \in Nat
    BY <1>5 DEF TypeOK, Rehashing, Slots
  <2>2. \A j \in Slots(i) : data[j].key # NULL => \E s \in Slots(cap) : newdata[s] = data[j]
    BY <1>5 DEF KeysInv, Rehashing
  <2>3. \A s \in Slots(cap) : newdata[s].key # NULL => \E j \in Slots(i) : newdata[s] = data[j]
    BY <1>5 DEF KeysInv, Rehashing
  <2>4. \A s \in Slots(cap) : newdata'[s] = IF s = slot THEN data[i] ELSE newdata[s]
    BY <1>5, <2>1
  <2>5. \A j : j \in Slots(i') <=> j \in Slots(i) \/ j = i
    BY <1>5, <2>1 DEF Slots
  <2>6. \A j \in Slots(i') : data[j].key # NULL => \E s \in Slots(cap) : newdata'[s] = data[j]
    <3>. SUFFICES ASSUME NEW j \in Slots(i'), data[j].key # NULL
                  PROVE  \E s \in Slots(cap) : newdata'[s] = data[j]
      OBVIOUS
    <3>1. CASE j = i
      BY <2>1, <2>4, <3>1
    <3>2. CASE j \in Slots(i)
      <4>1. PICK s \in Slots(cap) : newdata[s] = data[j]
        BY <2>2, <3>2
      <4>2. s # slot
        BY <1>5, <4>1
      <4>. QED
        BY <2>4, <4>1, <4>2
    <3>. QED
      BY <2>5, <3>1, <3>2
  <2>7. \A s \in Slots(cap) : newdata'[s].key # NULL => \E j \in Slots(i') : newdata'[s] = data[j]
    BY <2>3, <2>4, <2>5
  <2>. QED
    BY <1>5, <2>6, <2>7 DEF KeysInv, Rehashing, DataCap, tableVars
<1>6. CASE RehashEnd
  <2>. USE DEF RehashEnd
  <2>1. i = oldcap
    BY <1>6 DEF TypeOK
  <2>2. \A s \in Slots(cap) : newdata[s].key # NULL => latest[newdata[s].key] # NULL
    BY <1>6, <2>1 DEF KeysInv, Rehashing, DataCap
  <2>3. \A k \in Keys : latest[k] # NULL => \E s \in Slots(cap) : newdata[s].key = k
    <3>. SUFFICES ASSUME NEW k \in Keys, latest[k] # NULL
                  PROVE  \E s \in Slots(cap) : newdata[s].key = k
      OBVIOUS
    <3>1. PICK j \in Slots(oldcap) : data[j].key = k
      BY <1>6 DEF KeysInv, Rehashing, DataCap
    <3>2. PICK s \in Slots(cap) : newdata[s] = data[j]
      BY <1>6, <2>1, <3>1 DEF KeysInv, Rehashing
    <3>. QED
      BY <3>1, <3>2
  <2>. QED
    BY <1>6, <2>2, <2>3 DEF KeysInv, Rehashing, DataCap
<1>7. CASE PlaceProbe
  BY <1>7 DEF PlaceProbe, KeysInv, Rehashing, DataCap, tableVars
<1>8. CASE PlaceStore
  <2>. USE DEF PlaceStore
  <2>1. slot \in Slots(cap) /\ data \in [Slots(cap) -> Bucket] /\ key \in Keys /\ value \in Values
    BY <1>8 DEF TypeOK, Rehashing, DataCap, Slots
  <2>2. \A s \in Slots(cap) :
          data'[s] = IF s = slot THEN [key |-> key, value |-> value] ELSE data[s]
    BY <1>8, <2>1
  <2>3. \A k \in Keys : latest'[k] = IF k = key THEN value ELSE latest[k]
    BY <1>8 DEF TypeOK
  <2>4. \A s \in Slots(cap) : data'[s].key # NULL => latest'[data'[s].key] # NULL
    BY <1>8, <2>1, <2>2, <2>3 DEF KeysInv, Rehashing, DataCap, Bucket
  <2>5. \A k \in Keys : latest'[k] # NULL => \E s \in Slots(cap) : data'[s].key = k
    <3>. SUFFICES ASSUME NEW k \in Keys, latest'[k] # NULL
                  PROVE  \E s \in Slots(cap) : data'[s].key = k
      OBVIOUS
    <3>1. CASE k = key
      BY <2>1, <2>2, <3>1
    <3>2. CASE k # key
      <4>1. PICK s \in Slots(cap) : data[s].key = k
        BY <1>8, <2>3, <3>2 DEF KeysInv, Rehashing, DataCap
      <4>. QED
        BY <1>8, <2>2, <4>1
    <3>. QED
      BY <3>1, <3>2
  <2>. QED
    BY <1>8, <2>4, <2>5 DEF KeysInv, Rehashing, DataCap
<1>9. ASSUME NEW o, NEW k \in Keys, NEW v, TryGet(o, k, v)
      PROVE  KeysInv'
  BY <1>9 DEF TryGet, KeysInv, Rehashing, DataCap, tableVars
<1>10. CASE GetProbe
  BY <1>10 DEF GetProbe, KeysInv, Rehashing, DataCap, tableVars
<1>11. CASE GetMiss
  BY <1>11 DEF GetMiss, KeysInv, Rehashing, DataCap, tableVars
<1>12. CASE GetHit
  <2>. USE DEF GetHit
  <2>1. slot \in Slots(cap) /\ data \in [Slots(cap) -> Bucket] /\ key \in Keys
    BY <1>12 DEF TypeOK, Rehashing, DataCap, Slots
  <2>2. \A s \in Slots(cap) : data'[s].key = data[s].key
    BY <1>12, <2>1
  <2>3. \A k \in Keys : latest'[k] # NULL <=> latest[k] # NULL
    <3>1. latest[key] # NULL
      BY <1>12, <2>1 DEF KeysInv, Rehashing, DataCap
    <3>. QED
      BY <1>12, <3>1 DEF TypeOK
  <2>4. \A s \in Slots(cap) : data'[s].key # NULL => data[s].key \in Keys
    BY <2>1, <2>2 DEF Bucket
  <2>. QED
    BY <1>12, <2>2, <2>3, <2>4 DEF KeysInv, Rehashing, DataCap
<1>13. CASE UNCHANGED vars
  BY <1>13 DEF vars, KeysInv, Rehashing, DataCap
<1>. QED
  BY <1>1, <1>2, <1>3, <1>4, <1>5, <1>6, <1>7, <1>8, <1>9, <1>10, <1>11, <1>12, <1>13
     DEF Next, Call, Run

LEMMA NextLookup ==
  TypeInv /\ ChainInv /\ KeysInv /\ LookupFindsKey /\ [Next]_vars => LookupFindsKey'
<1>. SUFFICES ASSUME TypeInv, ChainInv, KeysInv, LookupFindsKey, [Next]_vars
              PROVE  LookupFindsKey'
  OBVIOUS
<1>. USE NullAssumption DEF TypeInv, LookupFindsKey
<1>1. ASSUME NEW k \in Keys, NEW v \in Values, Insert(k, v)
      PROVE  LookupFindsKey'
  BY <1>1 DEF Insert
<1>2. CASE RehashSkip \/ RehashMove \/ MoveProbe \/ MoveStore \/ RehashEnd \/ PlaceProbe \/ GetProbe
  BY <1>2 DEF RehashSkip, RehashMove, MoveProbe, MoveStore, RehashEnd, PlaceProbe, GetProbe
<1>3. CASE PlaceStore
  BY <1>3 DEF PlaceStore
<1>4. ASSUME NEW o, NEW k \in Keys, NEW v, TryGet(o, k, v)
      PROVE  LookupFindsKey'
  (* An empty table has no buckets, so no key was ever given a value. *)
  <2>1. len = 0 => latest[k] = NULL
    BY <1>4 DEF TryGet, KeysInv, LoadInv, TypeOK, Rehashing, DataCap, Slots
  <2>. QED
    BY <1>4, <2>1 DEF TryGet, tableVars
<1>5. CASE GetMiss
  (* A bucket of the key would be on the way passed, or the free bucket    *)
  (* found would break its chain.                                          *)
  <2>1. slot \in Slots(cap) /\ cap \in Nat /\ cap # 0 /\ key \in Keys
    BY <1>5 DEF GetMiss, TypeOK, LoadInv, Slots
  <2>2. Home(key) \in Slots(cap)
    BY <2>1, HomeSlot
  <2>3. ASSUME NEW j \in Slots(cap), data[j].key = key
        PROVE  FALSE
    <3>1. j # slot
      BY <1>5, <2>1, <2>3 DEF GetMiss
    <3>2. ~Between(Home(key), j, slot)
      BY <1>5, <2>3 DEF GetMiss, ChainInv, CursorInv
    <3>3. ~Between(Home(key), slot, j)
      BY <1>5, <2>1, <2>3 DEF GetMiss, ChainInv, ProbeChains, Probeable, Rehashing
    <3>. QED
      BY <2>1, <2>2, <3>1, <3>2, <3>3, WayTotal
  <2>4. latest[key] = NULL
    BY <1>5, <2>1, <2>3 DEF GetMiss, KeysInv, Rehashing, DataCap
  <2>5. result = NULL
    BY <1>5 DEF GetMiss, ChainInv, CursorInv
  <2>. QED
    BY <1>5, <2>4, <2>5 DEF GetMiss
<1>6. CASE GetHit
  <2>1. slot \in Slots(cap) /\ data \in [Slots(cap) -> Bucket] /\ key \in Keys
    BY <1>6 DEF GetHit, TypeOK, Rehashing, DataCap, Slots
  <2>2. latest[key] # NULL
    BY <1>6, <2>1 DEF GetHit, KeysInv, Rehashing, DataCap
  <2>3. latest'[key] # NULL /\ data'[slot].key = key
    BY <1>6, <2>1, <2>2 DEF GetHit, TypeOK
  <2>. QED
    BY <1>6, <2>1, <2>3 DEF GetHit
<1>7. CASE UNCHANGED vars
  BY <1>7 DEF vars
<1>. QED
  BY <1>1, <1>2, <1>3, <1>4, <1>5, <1>6, <1>7 DEF Next, Call, Run

(* A lookup finds every key that was inserted and no other.                *)
THEOREM LookupsAreExact == Spec => []LookupFindsKey
<1>1. Init => LookupFindsKey
  BY DEF Init, LookupFindsKey
<1>. QED
  BY <1>1, InitTypeInv, NextTypeInv, InitChainInv, NextChainInv, InitKeysInv, NextKeysInv,
     NextLookup, PTL DEF Spec
-----------------------------------------------------------------------------
(* Tables whose keys are inserted once.                                    *)

LEMMA InitFreshInv ==
  Init => FreshInv
BY DEF Init, FreshInv, Unique, Slots, Rehashing, DataCap

LEMMA NextFreshInv ==
  TypeInv /\ KeysInv /\ ChainInv /\ FreshInv /\ [Next]_vars => FreshInv'
<1>. SUFFICES ASSUME TypeInv, KeysInv, ChainInv, FreshInv, [Next]_vars, ~AllowRedefinition
              PROVE  FreshInv'
  BY DEF FreshInv
<1>. USE NullAssumption DEF TypeInv
<1>0. /\ Unique(data, DataCap)
      /\ \A j \in Slots(DataCap) : data[j].key # NULL => data[j].value = latest[data[j].key]
      /\ Rehashing => Unique(newdata, cap)
      /\ pc \in {"rehash", "move", "place"} => latest[key] = NULL
  BY DEF FreshInv
<1>1. ASSUME NEW k \in Keys, NEW v \in Values, Insert(k, v)
      PROVE  FreshInv'
  <2>. USE <1>0, <1>1 DEF Insert, FreshInv, Rehashing, DataCap
  <2>1. CASE NeedsRehash
    <3>1. Unique(newdata, cap)'
      BY <2>1 DEF Free, Unique
    <3>2. Unique(data, oldcap)'
      BY <2>1 DEF Unique
    <3>. QED
      BY <2>1, <3>1, <3>2
  <2>2. CASE ~NeedsRehash
    BY <2>2 DEF Unique
  <2>. QED
    BY <2>1, <2>2
<1>2. CASE RehashSkip
  BY <1>0, <1>2 DEF RehashSkip, FreshInv, Unique, Rehashing, DataCap, tableVars, callVars
<1>3. CASE RehashMove
  BY <1>0, <1>3 DEF RehashMove, FreshInv, Unique, Rehashing, DataCap, tableVars, rehashVars, callVars
<1>4. CASE MoveProbe
  BY <1>0, <1>4 DEF MoveProbe, FreshInv, Unique, Rehashing, DataCap, tableVars, rehashVars, callVars
<1>5. CASE MoveStore
  <2>. USE DEF MoveStore
  <2>1. slot \in Slots(cap) /\ newdata \in [Slots(cap) -> Bucket] /\ i \in Slots(oldcap)
    BY <1>5 DEF TypeOK, Rehashing, Slots
  <2>2. \A s \in Slots(cap) : newdata'[s] = IF s = slot THEN data[i] ELSE newdata[s]
    BY <1>5, <2>1
  <2>3. ASSUME NEW s \in Slots(cap), newdata[s].key # NULL, newdata[s].key = data[i].key
        PROVE  FALSE
    <3>1. PICK j \in Slots(i) : newdata[s] = data[j]
      BY <1>5, <2>3 DEF KeysInv, Rehashing
    <3>2. j \in Slots(oldcap) /\ j # i
      BY <2>1, <3>1 DEF Slots, TypeOK
    <3>. QED
      BY <1>0, <1>5, <2>1, <2>3, <3>1, <3>2 DEF Unique, Rehashing, DataCap
  <2>4. Unique(newdata, cap)'
    BY <1>0, <1>5, <2>2, <2>3 DEF Unique, Rehashing, tableVars
  <2>5. Unique(data, DataCap)'
    BY <1>0, <1>5 DEF Unique, Rehashing, DataCap, tableVars
  <2>. QED
    BY <1>0, <1>5, <2>4, <2>5 DEF FreshInv, Rehashing, DataCap, tableVars, callVars
<1>6. CASE RehashEnd
  <2>1. i = oldcap
    BY <1>6 DEF RehashEnd, TypeOK
  <2>2. \A s \in Slots(cap) : newdata[s].key # NULL => newdata[s].value = latest[newdata[s].key]
    BY <1>0, <1>6, <2>1 DEF RehashEnd, KeysInv, Rehashing, DataCap
  <2>. QED
    BY <1>0, <1>6, <2>2 DEF RehashEnd, FreshInv, Unique, Rehashing, DataCap, callVars
<1>7. CASE PlaceProbe
  BY <1>0, <1>7 DEF PlaceProbe, FreshInv, Unique, Rehashing, DataCap, tableVars, callVars
<1>8. CASE PlaceStore
  <2>. USE DEF PlaceStore
  <2>1. slot \in Slots(cap) /\ data \in [Slots(cap) -> Bucket] /\ key \in Keys
    BY <1>8 DEF TypeOK, Rehashing, DataCap, Slots
  <2>2. \A s \in Slots(cap) :
          data'[s] = IF s = slot THEN [key |-> key, value |-> value] ELSE data[s]
    BY <1>8, <2>1
  <2>3. \A k \in Keys : latest'[k] = IF k = key THEN value ELSE latest[k]
    BY <1>8 DEF TypeOK
  <2>4. \A s \in Slots(cap) : data[s].key # key
    BY <1>0, <1>8, <2>1 DEF KeysInv, Rehashing, DataCap
  <2>5. Unique(data, cap)'
    BY <1>0, <1>8, <2>2, <2>4 DEF Unique, Rehashing, DataCap
  <2>6. \A s \in Slots(cap) : data'[s].key # NULL => data'[s].value = latest'[data'[s].key]
    <3>. SUFFICES ASSUME NEW s \in Slots(cap), data'[s].key # NULL
                  PROVE  data'[s].value = latest'[data'[s].key]
      OBVIOUS
    <3>1. CASE s = slot
      BY <2>1, <2>2, <2>3, <3>1
    <3>2. CASE s # slot
      <4>1. data'[s] = data[s] /\ data[s].key \in Keys /\ data[s].key # key
        BY <2>1, <2>2, <2>4, <3>2 DEF Bucket
      <4>2. data[s].value = latest[data[s].key]
        BY <1>0, <1>8, <4>1 DEF Rehashing, DataCap
      <4>. QED
        BY <2>3, <4>1, <4>2
    <3>. QED
      BY <3>1, <3>2
  <2>. QED
    BY <1>8, <2>5, <2>6 DEF FreshInv, Rehashing, DataCap
<1>9. ASSUME NEW o, NEW k \in Keys, NEW v, TryGet(o, k, v)
      PROVE  FreshInv'
  BY <1>0, <1>9 DEF TryGet, FreshInv, Unique, Rehashing, DataCap, tableVars
<1>10. CASE GetProbe
  BY <1>0, <1>10 DEF GetProbe, FreshInv, Unique, Rehashing, DataCap, tableVars
<1>11. CASE GetMiss
  BY <1>0, <1>11 DEF GetMiss, FreshInv, Unique, Rehashing, DataCap, tableVars
<1>12. CASE GetHit
  <2>. USE DEF GetHit
  <2>1. slot \in Slots(cap) /\ data \in [Slots(cap) -> Bucket] /\ key \in Keys
    BY <1>12 DEF TypeOK, Rehashing, DataCap, Slots
  <2>2. CASE op = "get"
    BY <1>0, <1>12, <2>2 DEF FreshInv, Unique, Rehashing, DataCap
  <2>3. CASE op = "assign"
    <3>1. \A s \in Slots(cap) :
            data'[s] = IF s = slot THEN [key |-> key, value |-> value] ELSE data[s]
      BY <1>12, <2>1, <2>3
    <3>2. \A k \in Keys : latest'[k] = IF k = key THEN value ELSE latest[k]
      BY <1>12, <2>3 DEF TypeOK
    <3>3. \A s \in Slots(cap) : data'[s].key = data[s].key
      BY <1>12, <3>1
    <3>4. Unique(data, cap)'
      BY <1>0, <1>12, <3>3 DEF Unique, Rehashing, DataCap
    <3>5. \A s \in Slots(cap) : data'[s].key # NULL => data'[s].value = latest'[data'[s].key]
      <4>. SUFFICES ASSUME NEW s \in Slots(cap), data'[s].key # NULL
                    PROVE  data'[s].value = latest'[data'[s].key]
        OBVIOUS
      <4>1. CASE s = slot
        BY <2>1, <3>1, <3>2, <4>1
      <4>2. CASE s # slot
        <5>1. data'[s] = data[s] /\ data[s].key \in Keys
          BY <2>1, <3>1, <4>2 DEF Bucket
        <5>2. data[s].key # key
          BY <1>0, <1>12, <2>1, <4>2, <5>1 DEF Unique, Rehashing, DataCap
        <5>3. data[s].value = latest[data[s].key]
          BY <1>0, <1>12, <5>1 DEF Rehashing, DataCap
        <5>. QED
          BY <3>2, <5>1, <5>2, <5>3
      <4>. QED
        BY <4>1, <4>2
    <3>. QED
      BY <1>12, <3>4, <3>5 DEF FreshInv, Rehashing, DataCap
  <2>. QED
    BY <1>12, <2>2, <2>3
<1>13. CASE UNCHANGED vars
  BY <1>0, <1>13 DEF vars, FreshInv, Unique, Rehashing, DataCap
<1>. QED
  BY <1>1, <1>2, <1>3, <1>4, <1>5, <1>6, <1>7, <1>8, <1>9, <1>10, <1>11, <1>12, <1>13
     DEF Next, Call, Run

(* In a table whose keys are inserted once, as the keyword table's are, a  *)
(* key always shows the value it was last given, by insertion or through   *)
(* the pointer a lookup returned.                                          *)
THEOREM LatestValueVisible == ~AllowRedefinition => (Spec => []LatestVisible)
<1>. SUFFICES ASSUME ~AllowRedefinition PROVE Spec => []LatestVisible
  OBVIOUS
<1>1. TypeInv /\ KeysInv /\ FreshInv => LatestVisible
  <2>. SUFFICES ASSUME TypeInv, KeysInv, FreshInv, pc = "idle", NEW k \in Keys, latest[k] # NULL
                PROVE  data[FirstOf(k)].value = latest[k]
    BY DEF LatestVisible
  <2>1. PICK j \in Slots(cap) : data[j].key = k
    BY DEF KeysInv, Rehashing, DataCap
  <2>2. k # NULL /\ Unique(data, cap)
    BY NullAssumption DEF FreshInv, Rehashing, DataCap
  <2>3. cap \in Nat /\ cap # 0
    BY <2>1 DEF TypeInv, TypeOK, Slots
  <2>4. Home(k) \in Slots(cap)
    BY <2>3, HomeSlot
  <2>5. \A s \in Slots(cap) : Between(Home(k), s, j) => s # j
    BY <2>3, <2>4 DEF Between, Slots
  <2>6. \A s \in Slots(cap) : Between(Home(k), s, j) => data[s].key # k
    BY <2>1, <2>2, <2>5 DEF Unique
  <2>7. FirstOf(k) \in Slots(cap) /\ data[FirstOf(k)].key = k
    BY <2>1, <2>6 DEF FirstOf
  <2>. QED
    BY <2>2, <2>7 DEF FreshInv, Rehashing, DataCap
<1>. QED
  BY <1>1, InitTypeInv, NextTypeInv, InitChainInv, NextChainInv, InitKeysInv, NextKeysInv,
     InitFreshInv, NextFreshInv, PTL DEF Spec
=============================================================================

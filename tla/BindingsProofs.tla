--------------------------- MODULE BindingsProofs ---------------------------
(***************************************************************************)
(* TLAPS proof that the table of module HashTable implements the store of  *)
(* module Bindings, for every set of keys and values, every hash function, *)
(* and any number of insertions, redefinitions included.                   *)
(***************************************************************************)
EXTENDS HashTableProofs, SequenceTheorems

-----------------------------------------------------------------------------
(* The rank of a bucket: how many of a set come before it on the way from  *)
(* slot h.                                                                 *)
Before(S, h, j) == {s \in S : Between(h, s, j)}
Rank(S, h, j) == Cardinality(Before(S, h, j))

LEMMA BetweenOrder ==
  ASSUME NEW h \in Nat, NEW j \in Nat, NEW s \in Nat, NEW t \in Nat
  PROVE  /\ ~Between(h, j, j)
         /\ Between(h, s, j) \/ Between(h, j, s) \/ j = s
         /\ Between(h, s, j) => ~Between(h, j, s)
         /\ Between(h, t, s) /\ Between(h, s, j) => Between(h, t, j)
BY DEF Between

(* A bucket has fewer buckets before it than there are, and more than any  *)
(* bucket before it.                                                       *)
LEMMA RankFacts ==
  ASSUME NEW S, IsFiniteSet(S), S \subseteq Nat, NEW h \in Nat, NEW j \in S
  PROVE  /\ Rank(S, h, j) \in Nat
         /\ Rank(S, h, j) < Cardinality(S)
         /\ \A s \in S : Between(h, s, j) => Rank(S, h, s) < Rank(S, h, j)
<1>1. ASSUME NEW s \in S
      PROVE  IsFiniteSet(Before(S, h, s)) /\ Rank(S, h, s) \in Nat /\ s \notin Before(S, h, s)
  <2>1. Before(S, h, s) \in SUBSET S
    BY DEF Before
  <2>2. s \notin Before(S, h, s)
    BY BetweenOrder DEF Before
  <2>. QED
    BY <2>1, <2>2, FS_Subset, FS_CardinalityType DEF Rank
<1>2. Cardinality(S) \in Nat
  BY FS_CardinalityType
<1>3. Rank(S, h, j) < Cardinality(S)
  <2>1. Before(S, h, j) \in SUBSET S /\ Before(S, h, j) # S
    BY <1>1 DEF Before
  <2>. QED
    BY <1>1, <1>2, <2>1, FS_Subset DEF Rank
<1>4. ASSUME NEW s \in S, Between(h, s, j)
      PROVE  Rank(S, h, s) < Rank(S, h, j)
  <2>1. Before(S, h, s) \in SUBSET Before(S, h, j)
    BY <1>4, BetweenOrder DEF Before
  <2>2. Before(S, h, s) # Before(S, h, j)
    BY <1>1, <1>4 DEF Before
  <2>. QED
    BY <1>1, <2>1, <2>2, FS_Subset DEF Rank
<1>. QED
  BY <1>1, <1>3, <1>4

(* Every rank is taken by exactly one bucket: the n-th is well defined. *)
LEMMA NthFacts ==
  ASSUME NEW S, IsFiniteSet(S), S \subseteq Nat, NEW h \in Nat
  PROVE  /\ Cardinality(S) \in Nat
         /\ \A n \in 1 .. Cardinality(S) : Nth(S, h, n) \in S /\ Rank(S, h, Nth(S, h, n)) = n - 1
         /\ \A j \in S : /\ Rank(S, h, j) + 1 \in 1 .. Cardinality(S)
                         /\ Nth(S, h, Rank(S, h, j) + 1) = j
<1> DEFINE T == 1 .. Cardinality(S)
           f == [j \in S |-> Rank(S, h, j) + 1]
<1>1. Cardinality(S) \in Nat
  BY FS_CardinalityType
<1>2. \A j \in S : Rank(S, h, j) \in Nat /\ Rank(S, h, j) + 1 \in T
  <2>1. \A j \in S : Rank(S, h, j) \in Nat /\ Rank(S, h, j) < Cardinality(S)
    BY RankFacts
  <2>. QED
    BY <1>1, <2>1
<1>3. \A j, s \in S : Rank(S, h, j) = Rank(S, h, s) => j = s
  <2>. SUFFICES ASSUME NEW j \in S, NEW s \in S, Rank(S, h, j) = Rank(S, h, s), j # s
                PROVE  FALSE
    OBVIOUS
  <2>1. j \in Nat /\ s \in Nat
    OBVIOUS
  <2>2. Between(h, s, j) \/ Between(h, j, s)
    BY <2>1, BetweenOrder
  <2>3. Rank(S, h, s) < Rank(S, h, j) \/ Rank(S, h, j) < Rank(S, h, s)
    BY <2>2, RankFacts
  <2>. QED
    BY <1>2, <2>3
<1>4. f \in Injection(S, T)
  <2>1. f \in [S -> T]
    BY <1>2
  <2>2. \A j, s \in S : f[j] = f[s] => j = s
    BY <1>2, <1>3
  <2>. QED
    BY <2>1, <2>2 DEF Injection, IsInjective
<1>5. IsFiniteSet(T) /\ Cardinality(T) = Cardinality(S)
  BY <1>1, FS_Interval
<1>6. f \in Surjection(S, T)
  BY <1>4, <1>5, FS_Injection
<1>7. \A n \in T : \E j \in S : Rank(S, h, j) = n - 1
  <2>. SUFFICES ASSUME NEW n \in T
                PROVE  \E j \in S : Rank(S, h, j) = n - 1
    OBVIOUS
  <2>1. PICK j \in S : f[j] = n
    BY <1>6 DEF Surjection
  <2>. QED
    BY <1>1, <1>2, <2>1
<1>8. \A n \in T : Nth(S, h, n) \in S /\ Rank(S, h, Nth(S, h, n)) = n - 1
  BY <1>7 DEF Nth, Rank, Before
<1>9. \A j \in S : Nth(S, h, Rank(S, h, j) + 1) = j
  <2>. SUFFICES ASSUME NEW j \in S
                PROVE  Nth(S, h, Rank(S, h, j) + 1) = j
    OBVIOUS
  <2>1. Rank(S, h, Nth(S, h, Rank(S, h, j) + 1)) = Rank(S, h, j)
    BY <1>2, <1>8
  <2>. QED
    BY <1>2, <1>3, <1>8, <2>1
<1>. QED
  BY <1>1, <1>2, <1>8, <1>9

-----------------------------------------------------------------------------
(* Lists of values.                                                        *)

LEMMA ListedFacts ==
  ASSUME NEW S, IsFiniteSet(S), S \subseteq Nat, NEW h \in Nat, NEW b, NEW V,
         \A j \in S : b[j].value \in V
  PROVE  /\ Listed(b, S, h) \in Seq(V)
         /\ Len(Listed(b, S, h)) = Cardinality(S)
         /\ \A n \in 1 .. Cardinality(S) : Listed(b, S, h)[n] = b[Nth(S, h, n)].value
         /\ Listed(b, S, h) = <<>> <=> S = {}
<1>1. Cardinality(S) \in Nat /\ \A n \in 1 .. Cardinality(S) : Nth(S, h, n) \in S
  BY NthFacts
<1>2. Listed(b, S, h) \in [1 .. Cardinality(S) -> V]
  BY <1>1 DEF Listed
<1>3. Listed(b, S, h) \in Seq(V) /\ Len(Listed(b, S, h)) = Cardinality(S)
  BY <1>1, <1>2
<1>4. Listed(b, S, h) = <<>> <=> Cardinality(S) = 0
  BY <1>3
<1>5. Cardinality(S) = 0 <=> S = {}
  BY FS_EmptySet
<1>. QED
  BY <1>3, <1>4, <1>5 DEF Listed

(* A list of values of V that agrees with the buckets of a set, place by   *)
(* place.                                                                  *)
IsListOf(l, b, S, h, V) ==
  /\ IsFiniteSet(S)
  /\ S \subseteq Nat
  /\ h \in Nat
  /\ l \in Seq(V)
  /\ Len(l) = Cardinality(S)
  /\ \A j \in S : b[j].value \in V /\ l[Rank(S, h, j) + 1] = b[j].value

(* Lists are equal when they agree place by place. *)
LEMMA ListedIs ==
  ASSUME NEW S, IsFiniteSet(S), S \subseteq Nat, NEW h \in Nat, NEW b, NEW V,
         \A j \in S : b[j].value \in V,
         NEW l \in Seq(V), Len(l) = Cardinality(S),
         \A j \in S : l[Rank(S, h, j) + 1] = b[j].value
  PROVE  Listed(b, S, h) = l
<1>1. Cardinality(S) \in Nat
  BY NthFacts
<1>2. ASSUME NEW n \in 1 .. Cardinality(S)
      PROVE  Listed(b, S, h)[n] = l[n]
  <2>1. Nth(S, h, n) \in S /\ Rank(S, h, Nth(S, h, n)) = n - 1
    BY NthFacts
  <2>2. l[(n - 1) + 1] = b[Nth(S, h, n)].value
    BY <2>1
  <2>3. (n - 1) + 1 = n
    BY <1>1
  <2>. QED
    BY <2>2, <2>3 DEF Listed
<1>3. Listed(b, S, h) \in Seq(V) /\ Len(Listed(b, S, h)) = Cardinality(S)
  BY ListedFacts
<1>. QED
  BY <1>1, <1>2, <1>3

LEMMA ListedIsListOf ==
  ASSUME NEW l, NEW b, NEW S, NEW h, NEW V, IsListOf(l, b, S, h, V)
  PROVE  Listed(b, S, h) = l
BY ListedIs DEF IsListOf

(* Only the values of the buckets in the set matter. *)
LEMMA ListedSame ==
  ASSUME NEW S, IsFiniteSet(S), S \subseteq Nat, NEW h \in Nat, NEW b, NEW c,
         \A j \in S : b[j].value = c[j].value
  PROVE  Listed(b, S, h) = Listed(c, S, h)
<1>1. \A n \in 1 .. Cardinality(S) : Nth(S, h, n) \in S
  BY NthFacts
<1>. QED
  BY <1>1 DEF Listed

(* A bucket behind all the others is added at the end of the list: T is S  *)
(* and bucket j, behind those of S on the way from h, and array c agrees   *)
(* with b on S.                                                            *)
IsBehind(j, b, c, S, T, h, V) ==
  /\ IsFiniteSet(S)
  /\ S \subseteq Nat
  /\ h \in Nat
  /\ \A s \in S : b[s].value \in V /\ c[s].value = b[s].value
  /\ j \in Nat
  /\ j \notin S
  /\ \A s \in S : Between(h, s, j)
  /\ c[j].value \in V
  /\ \A t : t \in T <=> t \in S \/ t = j

LEMMA ListedAppend ==
  ASSUME NEW j, NEW b, NEW c, NEW S, NEW T, NEW h, NEW V, IsBehind(j, b, c, S, T, h, V)
  PROVE  Listed(c, T, h) = Append(Listed(b, S, h), c[j].value)
<1> DEFINE old == Listed(b, S, h)
           l == Append(old, c[j].value)
<1>0. /\ IsFiniteSet(S) /\ S \subseteq Nat /\ h \in Nat /\ j \in Nat /\ j \notin S
      /\ \A s \in S : b[s].value \in V
      /\ \A s \in S : c[s].value = b[s].value
      /\ \A s \in S : Between(h, s, j)
      /\ T = S \cup {j}
  BY DEF IsBehind
<1>1. /\ IsFiniteSet(T)
      /\ Cardinality(T) = Cardinality(S) + 1
      /\ T \subseteq Nat
  BY <1>0, FS_AddElement, FS_CardinalityType
<1>2. old \in Seq(V) /\ Len(old) = Cardinality(S)
  BY <1>0, ListedFacts
<1>3. \A s \in S : old[Rank(S, h, s) + 1] = b[s].value /\ Rank(S, h, s) + 1 \in 1 .. Cardinality(S)
  BY <1>0, NthFacts DEF Listed
<1>4. \A s \in S : Before(T, h, s) = Before(S, h, s)
  BY <1>0, BetweenOrder DEF Before
<1>5. Before(T, h, j) = S
  BY <1>0, BetweenOrder DEF Before
<1>6. c[j].value \in V /\ \A t \in T : c[t].value \in V /\ (t \in S \/ t = j)
  BY DEF IsBehind
<1>. HIDE DEF old
<1>7. Cardinality(S) \in Nat
  BY <1>0, FS_CardinalityType
<1>8. \A s \in S : l[Rank(S, h, s) + 1] = c[s].value
  BY <1>0, <1>2, <1>3, <1>7
<1>9. l \in Seq(V) /\ Len(l) = Cardinality(T) /\ l[Cardinality(S) + 1] = c[j].value
  BY <1>1, <1>2, <1>6, <1>7
<1>. HIDE DEF l
<1>10. \A t \in T : l[Rank(T, h, t) + 1] = c[t].value
  BY <1>4, <1>5, <1>6, <1>8, <1>9 DEF Rank
<1>11. IsListOf(l, c, T, h, V)
  BY <1>0, <1>1, <1>6, <1>9, <1>10 DEF IsListOf
<1>12. Listed(c, T, h) = l
  BY <1>11, ListedIsListOf
<1>. QED
  BY <1>12 DEF old, l

(* The first bucket, met by a probe before any other. *)
IsFirst(j, b, S, h, V) ==
  /\ IsFiniteSet(S)
  /\ S \subseteq Nat
  /\ h \in Nat
  /\ j \in S
  /\ \A s \in S : b[s].value \in V /\ ~Between(h, s, j)

LEMMA ListedFirst ==
  ASSUME NEW j, NEW b, NEW S, NEW h, NEW V, IsFirst(j, b, S, h, V)
  PROVE  /\ Listed(b, S, h) # <<>>
         /\ Head(Listed(b, S, h)) = b[j].value
<1>. USE DEF IsFirst
<1>1. Before(S, h, j) = {}
  BY DEF Before
<1>2. Rank(S, h, j) = 0
  BY <1>1, FS_EmptySet DEF Rank
<1>3. Nth(S, h, 0 + 1) = j /\ 0 + 1 \in 1 .. Cardinality(S)
  BY <1>2, NthFacts
<1>4. Listed(b, S, h)[1] = b[j].value
  BY <1>3 DEF Listed
<1>5. Listed(b, S, h) \in Seq(V) /\ Listed(b, S, h) # <<>>
  BY ListedFacts
<1>. QED
  BY <1>4, <1>5

(* A store through the pointer to the first bucket. *)
LEMMA ListedReplace ==
  ASSUME NEW S, IsFiniteSet(S), S \subseteq Nat, NEW h \in Nat, NEW b, NEW c, NEW V,
         \A s \in S : b[s].value \in V,
         NEW j \in S, \A s \in S : ~Between(h, s, j),
         c[j].value \in V, \A s \in S \ {j} : c[s].value = b[s].value
  PROVE  Listed(c, S, h) = <<c[j].value>> \o Tail(Listed(b, S, h))
<1> DEFINE old == Listed(b, S, h)
           l == <<c[j].value>> \o Tail(old)
<1>1. Before(S, h, j) = {}
  BY DEF Before
<1>2. Rank(S, h, j) = 0
  BY <1>1, FS_EmptySet DEF Rank
<1>3. old \in Seq(V) /\ Len(old) = Cardinality(S) /\ old # <<>>
  BY ListedFacts
<1>4. \A s \in S : old[Rank(S, h, s) + 1] = b[s].value /\ Rank(S, h, s) + 1 \in 1 .. Cardinality(S)
  BY NthFacts DEF Listed
<1>5. \A s \in S \ {j} : Between(h, j, s)
  BY BetweenOrder
<1>6. \A s \in S : Rank(S, h, s) \in Nat
  BY RankFacts
<1>7. \A s \in S \ {j} : Rank(S, h, s) > 0
  <2>1. \A s \in S \ {j} : Rank(S, h, j) < Rank(S, h, s)
    BY <1>5, RankFacts
  <2>. QED
    BY <1>2, <1>6, <2>1
<1>. HIDE DEF old
<1>8. l \in Seq(V) /\ Len(l) = Cardinality(S) /\ l[1] = c[j].value
  BY <1>3
<1>9. \A n \in 2 .. Cardinality(S) : l[n] = old[n]
  BY <1>3
<1>. HIDE DEF l
<1>10. \A s \in S : l[Rank(S, h, s) + 1] = c[s].value
  <2>. SUFFICES ASSUME NEW s \in S
                PROVE  l[Rank(S, h, s) + 1] = c[s].value
    OBVIOUS
  <2>1. CASE s = j
    BY <1>2, <1>8, <2>1
  <2>2. CASE s # j
    <3>1. Rank(S, h, s) + 1 \in 2 .. Cardinality(S)
      BY <1>4, <1>6, <1>7, <2>2
    <3>. QED
      BY <1>4, <1>9, <2>2, <3>1
  <2>. QED
    BY <2>1, <2>2
<1>11. \A s \in S : c[s].value \in V
  OBVIOUS
<1>12. Listed(c, S, h) = l
  BY <1>8, <1>10, <1>11, ListedIs
<1>. QED
  BY <1>12 DEF l, old

LEMMA DisjointCount ==
  ASSUME NEW A, NEW B, IsFiniteSet(A), IsFiniteSet(B), A \cap B = {}
  PROVE  /\ Cardinality(A) \in Nat
         /\ Cardinality(B) \in Nat
         /\ Cardinality(A \cup B) = Cardinality(A) + Cardinality(B)
<1>1. Cardinality(A) \in Nat /\ Cardinality(B) \in Nat
  BY FS_CardinalityType
<1>2. Cardinality(A \cup B) = Cardinality(A) + Cardinality(B) - Cardinality(A \cap B)
  BY FS_Union
<1>3. Cardinality(A \cap B) = 0
  BY FS_EmptySet
<1>. QED
  BY <1>1, <1>2, <1>3

(* In index order the buckets from slot h on come after those below it; on *)
(* the way from h they come before them.                                   *)
LEMMA ListedRotates ==
  ASSUME NEW S, IsFiniteSet(S), S \subseteq Nat, NEW h \in Nat, NEW b, NEW V,
         \A j \in S : b[j].value \in V
  PROVE  Store!RotationOf(Listed(b, S, h), Listed(b, S, 0))
<1> DEFINE old == Listed(b, S, h)
           low == {s \in S : s < h}
           high == {s \in S : h <= s}
           r == Cardinality(high)
           d == Cardinality(low)
           l == Store!Rotate(old, r)
<1>0. /\ \A s \in S : s \in Nat
      /\ \A s : s \in low <=> s \in S /\ s < h
      /\ \A s : s \in high <=> s \in S /\ h <= s
      /\ \A s \in S : (s < h) <=> ~(h <= s)
  OBVIOUS
<1>1. /\ IsFiniteSet(low) /\ d \in Nat
      /\ IsFiniteSet(high) /\ r \in Nat
      /\ Cardinality(S) = r + d
  <2>1. low \in SUBSET S /\ high \in SUBSET S
    OBVIOUS
  <2>2. IsFiniteSet(low) /\ d \in Nat /\ IsFiniteSet(high) /\ r \in Nat
    BY <2>1, FS_Subset, FS_CardinalityType
  <2>. HIDE DEF low, high
  <2>3. low \cup high = S /\ low \cap high = {}
    BY <1>0
  <2>4. Cardinality(high \cup low) = Cardinality(high) + Cardinality(low)
    BY <2>2, <2>3, DisjointCount
  <2>5. high \cup low = S
    BY <2>3
  <2>. QED
    BY <2>2, <2>4, <2>5
<1>2. /\ old \in Seq(V)
      /\ Len(old) = r + d
      /\ \A s \in S : old[Rank(S, h, s) + 1] = b[s].value
  <2>1. \A s \in S : old[Rank(S, h, s) + 1] = b[s].value
    BY NthFacts DEF Listed
  <2>. HIDE DEF r, d
  <2>. QED
    BY <1>1, <2>1, ListedFacts
(* How the two ranks of a bucket are related. *)
<1>3. \A s \in S : Rank(S, 0, s) \in Nat /\ Rank(S, h, s) \in Nat
  BY RankFacts
<1>4. ASSUME NEW s \in low
      PROVE  Rank(S, h, s) = r + Rank(S, 0, s) /\ Rank(S, 0, s) < d
  <2>0. /\ ~Between(0, s, s)
        /\ \A t \in S : Between(0, t, s) => ~(h <= t)
        /\ \A t \in S : Between(h, t, s) <=> h <= t \/ Between(0, t, s)
    BY <1>0, <1>4 DEF Between
  <2>. HIDE DEF low, high
  <2>1. Before(S, 0, s) \in SUBSET low /\ s \notin Before(S, 0, s)
    BY <1>0, <2>0 DEF Before
  <2>2. Before(S, h, s) = high \cup Before(S, 0, s) /\ high \cap Before(S, 0, s) = {}
    BY <1>0, <2>0 DEF Before
  <2>3. IsFiniteSet(Before(S, 0, s)) /\ Before(S, 0, s) # low
    BY <1>1, <1>4, <2>1, FS_Subset
  <2>4. Cardinality(Before(S, 0, s)) < Cardinality(low)
    BY <1>1, <1>4, <2>1, <2>3, FS_Subset, FS_CardinalityType
  <2>5. Cardinality(high \cup Before(S, 0, s)) = Cardinality(high) + Cardinality(Before(S, 0, s))
    BY <1>1, <2>2, <2>3, DisjointCount
  <2>. QED
    BY <2>2, <2>4, <2>5 DEF Rank
<1>5. ASSUME NEW s \in high
      PROVE  Rank(S, 0, s) = d + Rank(S, h, s) /\ Rank(S, h, s) < r
  <2>0. /\ ~Between(h, s, s)
        /\ \A t \in S : Between(h, t, s) => h <= t
        /\ \A t \in S : Between(0, t, s) <=> t < h \/ Between(h, t, s)
    BY <1>0, <1>5 DEF Between
  <2>. HIDE DEF low, high
  <2>1. Before(S, h, s) \in SUBSET high /\ s \notin Before(S, h, s)
    BY <1>0, <2>0 DEF Before
  <2>2. Before(S, 0, s) = low \cup Before(S, h, s) /\ low \cap Before(S, h, s) = {}
    BY <1>0, <2>0 DEF Before
  <2>3. IsFiniteSet(Before(S, h, s)) /\ Before(S, h, s) # high
    BY <1>1, <1>5, <2>1, FS_Subset
  <2>4. Cardinality(Before(S, h, s)) < Cardinality(high)
    BY <1>1, <1>5, <2>1, <2>3, FS_Subset, FS_CardinalityType
  <2>5. Cardinality(low \cup Before(S, h, s)) = Cardinality(low) + Cardinality(Before(S, h, s))
    BY <1>1, <2>2, <2>3, DisjointCount
  <2>. QED
    BY <2>2, <2>4, <2>5 DEF Rank
<1>6. \A s \in S : s \in low \/ s \in high
  OBVIOUS
<1>. HIDE DEF old, low, high, r, d
<1>7. /\ l \in Seq(V)
      /\ Len(l) = r + d
      /\ \A n \in 1 .. d : l[n] = old[n + r]
      /\ \A n \in 1 .. r : l[n + d] = old[n]
  <2> DEFINE front == SubSeq(old, r + 1, Len(old))
             back == SubSeq(old, 1, r)
  <2>1. \A n \in 1 .. r + d : old[n] \in V
    BY <1>1, <1>2
  <2>2. /\ front \in Seq(V)
        /\ Len(front) = d
        /\ \A n \in 1 .. d : front[n] = old[n + r]
    BY <1>1, <1>2, <2>1
  <2>3. /\ back \in Seq(V)
        /\ Len(back) = r
        /\ \A n \in 1 .. r : back[n] = old[n]
    BY <1>1, <1>2, <2>1
  <2>4. l = front \o back
    BY DEF Store!Rotate
  <2>. HIDE DEF front, back, l
  <2>5. /\ l \in Seq(V)
        /\ Len(l) = d + r
        /\ \A n \in 1 .. d + r : l[n] = IF n <= d THEN front[n] ELSE back[n - d]
    BY <2>2, <2>3, <2>4, ConcatProperties
  <2>6. \A n \in 1 .. r : n + d \in 1 .. d + r /\ ~(n + d <= d) /\ (n + d) - d = n
    BY <1>1
  <2>7. \A n \in 1 .. d : n \in 1 .. d + r /\ n <= d
    BY <1>1
  <2>. QED
    BY <1>1, <2>2, <2>3, <2>5, <2>6, <2>7
<1>. HIDE DEF l
<1>8. ASSUME NEW s \in S
      PROVE  l[Rank(S, 0, s) + 1] = b[s].value
  <2>1. CASE s \in low
    <3>1. Rank(S, 0, s) + 1 \in 1 .. d /\ (Rank(S, 0, s) + 1) + r = Rank(S, h, s) + 1
      BY <1>1, <1>3, <1>4, <2>1
    <3>. QED
      BY <1>2, <1>7, <3>1
  <2>2. CASE s \in high
    <3>1. Rank(S, h, s) + 1 \in 1 .. r /\ (Rank(S, h, s) + 1) + d = Rank(S, 0, s) + 1
      BY <1>1, <1>3, <1>5, <2>2
    <3>. QED
      BY <1>2, <1>7, <3>1
  <2>. QED
    BY <1>6, <2>1, <2>2
<1>9. Listed(b, S, 0) = l
  <2>1. l \in Seq(V) /\ Len(l) = Cardinality(S)
    BY <1>1, <1>7
  <2>2. \A s \in S : l[Rank(S, 0, s) + 1] = b[s].value
    BY <1>8
  <2>3. IsListOf(l, b, S, 0, V)
    BY <2>1, <2>2 DEF IsListOf
  <2>. QED
    BY <2>3, ListedIsListOf
<1>10. r \in 0 .. Len(old)
  BY <1>1, <1>2
<1>. QED
  BY <1>9, <1>10 DEF Store!RotationOf, l, old

-----------------------------------------------------------------------------
(* The buckets of a key.                                                   *)

LEMMA HoldingFacts ==
  ASSUME NEW n \in Nat, NEW b, NEW k
  PROVE  /\ IsFiniteSet(Holding(b, n, k))
         /\ Holding(b, n, k) \subseteq Nat
         /\ \A j : j \in Holding(b, n, k) <=> j \in Slots(n) /\ b[j].key = k
<1>1. IsFiniteSet(Slots(n)) /\ Slots(n) \subseteq Nat
  BY FS_Interval DEF Slots
<1>2. Holding(b, n, k) \in SUBSET Slots(n)
  BY DEF Holding
<1>3. \A j : j \in Holding(b, n, k) <=> j \in Slots(n) /\ b[j].key = k
  BY DEF Holding
<1>. QED
  BY <1>1, <1>2, <1>3, FS_Subset

(* A free bucket s filled with x, behind the buckets of its key.           *)
IsFilled(s, x, b, c, n, h, k) ==
  /\ n \in Nat
  /\ b \in [Slots(n) -> Bucket]
  /\ s \in Slots(n)
  /\ b[s].key = NULL
  /\ x \in Bucket
  /\ \A t \in Slots(n) : c[t] = IF t = s THEN x ELSE b[t]
  /\ h \in Nat
  /\ k \in Keys
  /\ x.key = k => \A t \in Slots(n) : b[t].key = k => Between(h, t, s)

LEMMA ListedFill ==
  ASSUME NEW s, NEW x, NEW b, NEW c, NEW n, NEW h, NEW k, IsFilled(s, x, b, c, n, h, k)
  PROVE  Listed(c, Holding(c, n, k), h)
           = IF x.key = k THEN Append(Listed(b, Holding(b, n, k), h), x.value)
                          ELSE Listed(b, Holding(b, n, k), h)
<1> DEFINE S == Holding(b, n, k)
           V == Values \cup {NULL}
<1>. USE DEF IsFilled
<1>1. /\ IsFiniteSet(S) /\ S \subseteq Nat
      /\ \A j : j \in S <=> j \in Slots(n) /\ b[j].key = k
  BY HoldingFacts
<1>2. k # NULL /\ \A j : j \in Holding(c, n, k) <=> j \in Slots(n) /\ c[j].key = k
  BY NullAssumption DEF Holding
<1>. HIDE DEF S
<1>3. s \notin S /\ s \in Nat /\ \A t \in S : c[t] = b[t]
  BY <1>1, <1>2 DEF Slots
<1>4. \A t \in S : b[t].value \in V
  BY <1>1 DEF Bucket
<1>5. CASE x.key = k
  <2>1. \A j : j \in Holding(c, n, k) <=> j \in S \/ j = s
    BY <1>1, <1>2, <1>3, <1>5
  <2>3. \A t \in S : Between(h, t, s)
    BY <1>1, <1>5
  <2>4. c[s].value = x.value /\ c[s].value \in V
    BY DEF Bucket
  <2>5. IsBehind(s, b, c, S, Holding(c, n, k), h, V)
    BY <1>1, <1>3, <1>4, <2>1, <2>3, <2>4 DEF IsBehind
  <2>6. Listed(c, Holding(c, n, k), h) = Append(Listed(b, S, h), c[s].value)
    BY <2>5, ListedAppend
  <2>. QED
    BY <1>5, <2>4, <2>6 DEF S
<1>6. CASE x.key # k
  <2>1. \A j : j \in Holding(c, n, k) <=> j \in S
    BY <1>1, <1>2, <1>3, <1>6
  <2>2. Holding(c, n, k) = S
    BY <2>1
  <2>3. Listed(b, S, h) = Listed(c, S, h)
    BY <1>1, <1>3, ListedSame
  <2>. QED
    BY <1>6, <2>2, <2>3 DEF S
<1>. QED
  BY <1>5, <1>6

(* One bucket more, in index order. *)
LEMMA ListedOneMore ==
  ASSUME NEW n \in Nat, NEW b, \A j \in Slots(n + 1) : b[j] \in Bucket, NEW k \in Keys
  PROVE  Listed(b, Holding(b, n + 1, k), 0)
           = IF b[n].key = k THEN Append(Listed(b, Holding(b, n, k), 0), b[n].value)
                             ELSE Listed(b, Holding(b, n, k), 0)
<1> DEFINE S == Holding(b, n, k)
           V == Values \cup {NULL}
<1>1. /\ IsFiniteSet(S) /\ S \subseteq Nat
      /\ \A j : j \in S <=> j \in Slots(n) /\ b[j].key = k
  BY HoldingFacts
<1>2. /\ n \notin Slots(n)
      /\ \A j : j \in Slots(n + 1) <=> j \in Slots(n) \/ j = n
      /\ \A j \in Slots(n) : Between(0, j, n)
  BY DEF Slots, Between
<1>3. n + 1 \in Nat
  OBVIOUS
<1>4. \A j : j \in Holding(b, n + 1, k) <=> j \in Slots(n + 1) /\ b[j].key = k
  BY <1>3, HoldingFacts
<1>. HIDE DEF S
<1>5. \A t \in S : b[t].value \in V
  BY <1>1, <1>2 DEF Bucket
<1>6. CASE b[n].key = k
  <2>1. \A j : j \in Holding(b, n + 1, k) <=> j \in S \/ j = n
    BY <1>1, <1>2, <1>4, <1>6
  <2>2. n \notin S /\ \A t \in S : Between(0, t, n)
    BY <1>1, <1>2
  <2>3. b[n].value \in V
    BY <1>2 DEF Bucket
  <2>4. IsBehind(n, b, b, S, Holding(b, n + 1, k), 0, V)
    BY <1>1, <1>5, <2>1, <2>2, <2>3 DEF IsBehind
  <2>5. Listed(b, Holding(b, n + 1, k), 0) = Append(Listed(b, S, 0), b[n].value)
    BY <2>4, ListedAppend
  <2>. QED
    BY <1>6, <2>5 DEF S
<1>7. CASE b[n].key # k
  <2>1. Holding(b, n + 1, k) = S
    BY <1>1, <1>2, <1>4, <1>7
  <2>. QED
    BY <1>7, <2>1 DEF S
<1>. QED
  BY <1>6, <1>7

LEMMA ListedNone ==
  ASSUME NEW b, NEW h
  PROVE  Listed(b, {}, h) = <<>>
<1>1. Cardinality({}) = 0
  BY FS_EmptySet
<1>2. Listed(b, {}, h) = [n \in 1 .. 0 |-> b[Nth({}, h, n)].value]
  BY <1>1 DEF Listed
<1>. QED
  BY <1>2

-----------------------------------------------------------------------------
(* The copying loop keeps the order of the buckets of every key.           *)

LEMMA InitCopyInv ==
  Init => CopyInv
BY DEF Init, CopyInv, Rehashing

LEMMA NextCopyInv ==
  TypeInv /\ ChainInv /\ CopyInv /\ [Next]_vars => CopyInv'
<1>. SUFFICES ASSUME TypeInv, ChainInv, CopyInv, [Next]_vars PROVE CopyInv'
  OBVIOUS
<1>. USE DEF TypeInv
<1>1. ASSUME NEW k \in Keys, NEW v \in Values, Insert(k, v)
      PROVE  CopyInv'
  <2>1. CASE NeedsRehash
    <3>. SUFFICES ASSUME NEW q \in Keys
                  PROVE  Listed(newdata', Holding(newdata', cap', q), Home(q)')
                           = Listed(data', Holding(data', i', q), 0)
      BY DEF CopyInv
    <3>1. newdata' = [j \in Slots(cap') |-> Free] /\ i' = 0
      BY <1>1, <2>1 DEF Insert
    <3>2. Holding(newdata', cap', q) = {}
      BY <3>1, NullAssumption DEF Holding, Free
    <3>3. Holding(data', i', q) = {}
      BY <3>1 DEF Holding, Slots
    <3>4. Listed(newdata', {}, Home(q)') = <<>>
      BY ListedNone
    <3>5. Listed(data', {}, 0) = <<>>
      BY ListedNone
    <3>. QED
      BY <3>2, <3>3, <3>4, <3>5
  <2>2. CASE ~NeedsRehash
    BY <1>1, <2>2 DEF Insert, CopyInv, Rehashing
  <2>. QED
    BY <2>1, <2>2
<1>2. CASE RehashSkip
  <2>1. i \in Nat /\ i + 1 <= oldcap /\ data \in [Slots(oldcap) -> Bucket] /\ oldcap \in Nat
    BY <1>2 DEF RehashSkip, TypeOK, Rehashing, DataCap
  <2>2. \A j \in Slots(i + 1) : data[j] \in Bucket
    BY <2>1 DEF Slots
  <2>3. \A k \in Keys : data[i].key # k
    BY <1>2, NullAssumption DEF RehashSkip
  <2>4. \A k \in Keys : Listed(data, Holding(data, i + 1, k), 0) = Listed(data, Holding(data, i, k), 0)
    BY <2>1, <2>2, <2>3, ListedOneMore
  <2>. QED
    BY <1>2, <2>4 DEF RehashSkip, CopyInv, Rehashing, Home, tableVars
<1>3. CASE RehashMove
  BY <1>3 DEF RehashMove, CopyInv, Rehashing, Home, tableVars, rehashVars
<1>4. CASE MoveProbe
  BY <1>4 DEF MoveProbe, CopyInv, Rehashing, Home, tableVars, rehashVars
<1>5. CASE MoveStore
  <2>. USE DEF MoveStore
  <2>0. i \in Nat /\ i + 1 <= oldcap /\ data \in [Slots(oldcap) -> Bucket] /\ oldcap \in Nat
    BY <1>5 DEF TypeOK, Rehashing, DataCap
  <2>1. /\ slot \in Slots(cap) /\ cap \in Nat /\ cap # 0
        /\ newdata \in [Slots(cap) -> Bucket]
        /\ newdata[slot].key = NULL
        /\ data[i] \in Bucket
    <3>1. slot \in Nat /\ slot < cap /\ cap \in Nat /\ newdata \in [Slots(cap) -> Bucket]
      BY <1>5 DEF TypeOK, Rehashing
    <3>2. i \in Slots(oldcap)
      BY <2>0 DEF Slots
    <3>. QED
      BY <1>5, <2>0, <3>1, <3>2 DEF Slots
  <2>2. newdata' \in [Slots(cap) -> Bucket]
    BY <1>5, <2>1
  <2>3. \A t \in Slots(cap) : newdata'[t] = IF t = slot THEN data[i] ELSE newdata[t]
    BY <1>5, <2>1
  <2>4. ASSUME NEW k \in Keys
        PROVE  Listed(newdata', Holding(newdata', cap, k), Home(k))
                 = IF data[i].key = k
                   THEN Append(Listed(newdata, Holding(newdata, cap, k), Home(k)), data[i].value)
                   ELSE Listed(newdata, Holding(newdata, cap, k), Home(k))
    (* The probe ended at the first free bucket on the way from the home   *)
    (* of the key, so it passed every bucket of the key.                   *)
    <3>1. Home(k) \in Slots(cap) /\ Home(k) \in Nat
      BY <2>1, HomeSlot DEF Slots
    <3>2. ASSUME data[i].key = k, NEW t \in Slots(cap), newdata[t].key = k
          PROVE  Between(Home(k), t, slot)
      <4>1. t # slot /\ newdata[t].key # NULL
        BY <2>1, <3>2, NullAssumption
      <4>2. ~Between(Home(k), slot, t)
        BY <1>5, <2>1, <3>2, <4>1 DEF ChainInv, ProbeChains, Probeable, Rehashing
      <4>. QED
        BY <2>1, <3>1, <4>1, <4>2, WayTotal
    <3>3. IsFilled(slot, data[i], newdata, newdata', cap, Home(k), k)
      BY <2>1, <2>2, <2>3, <3>1, <3>2 DEF IsFilled
    <3>. QED
      BY <3>3, ListedFill
  <2>5. \A j \in Slots(i + 1) : data[j] \in Bucket
    BY <2>0 DEF Slots
  <2>6. \A k \in Keys :
          Listed(data, Holding(data, i + 1, k), 0)
            = IF data[i].key = k THEN Append(Listed(data, Holding(data, i, k), 0), data[i].value)
                                 ELSE Listed(data, Holding(data, i, k), 0)
    BY <2>0, <2>5, ListedOneMore
  <2>7. \A k \in Keys :
          Listed(newdata, Holding(newdata, cap, k), Home(k)) = Listed(data, Holding(data, i, k), 0)
    BY <1>5 DEF CopyInv, Rehashing
  <2>8. \A k \in Keys :
          Listed(newdata', Holding(newdata', cap, k), Home(k)) = Listed(data, Holding(data, i + 1, k), 0)
    BY <2>4, <2>6, <2>7
  <2>9. cap' = cap /\ function' = function /\ data' = data /\ i' = i + 1
    BY <1>5 DEF tableVars
  <2>. QED
    BY <2>8, <2>9 DEF CopyInv, Home
<1>6. CASE RehashEnd \/ PlaceProbe \/ PlaceStore \/ GetProbe \/ GetMiss \/ GetHit
  BY <1>6 DEF RehashEnd, PlaceProbe, PlaceStore, GetProbe, GetMiss, GetHit, CopyInv, Rehashing
<1>7. ASSUME NEW o, NEW k, NEW v, TryGet(o, k, v)
      PROVE  CopyInv'
  BY <1>7 DEF TryGet, CopyInv, Rehashing
<1>8. CASE UNCHANGED vars
  BY <1>8 DEF vars, CopyInv, Rehashing, Home
<1>. QED
  BY <1>1, <1>2, <1>3, <1>4, <1>5, <1>6, <1>7, <1>8 DEF Next, Call, Run

(* The whole invariant of the table is inductive.                          *)
LEMMA InitTableInv ==
  Init => TableInv
<1>1. Init => LookupFindsKey
  BY DEF Init, LookupFindsKey
<1>. QED
  BY <1>1, InitTypeInv, InitCountInv, InitChainInv, InitKeysInv, InitCopyInv, InitFreshInv
     DEF TableInv, TypeInv, ChainInv

LEMMA NextTableInv ==
  TableInv /\ [Next]_vars => TableInv'
BY NextTypeInv, NextCountInv, NextChainInv, NextKeysInv, NextLookup, NextCopyInv, NextFreshInv
   DEF TableInv, TypeInv, ChainInv

(* The load test leaves a free bucket, the chains lead to every key, no    *)
(* key is lost or invented, and a rehash in progress has every bucket in   *)
(* the old array or, in order, in the new one.                             *)
THEOREM TableInvariant == Spec => []TableInv
BY InitTableInv, NextTableInv, PTL DEF Spec

(* Whatever the hash function and however the chains of the new array wrap, *)
(* rehash reads the old array by index and, at each iteration, the new one  *)
(* shows a key the buckets copied so far in that order, one for one.       *)
THEOREM RehashKeepsOrder == Spec => []CopyInv
<1>1. TableInv => CopyInv
  BY DEF TableInv
<1>. QED
  BY <1>1, InitTableInv, NextTableInv, PTL DEF Spec

-----------------------------------------------------------------------------
(* The steps of the store that the table implements.                       *)

Shown == [k \in Keys |-> Listed(data, Holding(data, DataCap, k), function[k] % DataCap)]
Told ==
  IF pc = "idle" /\ op \in {"get", "assign"}
  THEN <<key, IF result = NULL THEN NULL ELSE data[result].value>>
  ELSE NULL
StoreStep == [Store!Next]_(Store!vars)

LEMMA StoreForgets ==
  ASSUME Shown' = Shown, Told' = NULL
  PROVE  StoreStep
BY DEF Shown, Told, StoreStep, Store!Next, Store!Forget

LEMMA StoreStutters ==
  ASSUME Shown' = Shown, Told' = Told
  PROVE  StoreStep
BY DEF Shown, Told, StoreStep, Store!vars

LEMMA StoreGrows ==
  ASSUME \A k \in Keys : Store!RotationOf(Shown[k], Shown'[k]), Told' = NULL
  PROVE  StoreStep
BY DEF Shown, Told, StoreStep, Store!Next, Store!Grow

LEMMA StoreInserts ==
  ASSUME NEW k \in Keys, NEW v \in Values,
         Shown' = [Shown EXCEPT ![k] = Append(@, v)], Told' = NULL
  PROVE  StoreStep
BY DEF Shown, Told, StoreStep, Store!Next, Store!Insert, Store!Bind

LEMMA StoreGets ==
  ASSUME NEW k \in Keys, Shown' = Shown,
         Told' = <<k, IF Shown[k] # <<>> THEN Head(Shown[k]) ELSE NULL>>
  PROVE  StoreStep
BY DEF Shown, Told, StoreStep, Store!Next, Store!Get, Store!Answer, Store!IsBound, Store!FirstValue

LEMMA StoreAssigns ==
  ASSUME NEW k \in Keys, NEW v \in Values, Shown[k] # <<>>,
         Shown' = [Shown EXCEPT ![k] = <<v>> \o Tail(@)], Told' = <<k, v>>
  PROVE  StoreStep
BY DEF Shown, Told, StoreStep, Store!Next, Store!Assign, Store!IsBound, Store!ReplaceFirst

(* The lists of an array are those of its buckets, so a step that leaves   *)
(* the array alone leaves the store alone.                                 *)
LEMMA ShownSame ==
  ASSUME data' = data, function' = function, DataCap' = DataCap
  PROVE  Shown' = Shown
BY DEF Shown

LEMMA ShownAt ==
  ASSUME TypeInv, ~Rehashing, NEW k \in Keys
  PROVE  /\ Shown[k] = Listed(data, Holding(data, cap, k), Home(k))
         /\ cap = 0 => Shown[k] = <<>>
         /\ cap # 0 => Home(k) \in Nat
<1>1. Shown[k] = Listed(data, Holding(data, cap, k), Home(k))
  BY DEF Shown, DataCap, Home
<1>2. ASSUME cap = 0
      PROVE  Shown[k] = <<>>
  <2>1. Holding(data, cap, k) = {}
    BY <1>2 DEF Holding, Slots
  <2>. QED
    BY <1>1, <2>1, ListedNone
<1>3. ASSUME cap # 0
      PROVE  Home(k) \in Nat
  BY <1>3, HomeSlot DEF Slots
<1>. QED
  BY <1>1, <1>2, <1>3

(* A rehash that ends rotates the lists: the new array has the buckets of  *)
(* a key in index order, the old one had them from the old home.           *)
LEMMA RehashEndGrows ==
  ASSUME TableInv, RehashEnd
  PROVE  StoreStep
<1>1. /\ i = oldcap /\ oldcap \in Nat /\ function \in HashFunctions
      /\ data \in [Slots(oldcap) -> Bucket]
      /\ pc = "rehash"
  BY DEF RehashEnd, TableInv, TypeOK, Rehashing, DataCap
<1>2. /\ data' = newdata /\ cap' = cap /\ function' = function
      /\ pc' = "place"
  BY DEF RehashEnd
<1>3. Told' = NULL
  BY <1>2 DEF Told
<1>4. ASSUME NEW k \in Keys
      PROVE  Store!RotationOf(Shown[k], Shown'[k])
  <2> DEFINE S == Holding(data, oldcap, k)
             h == function[k] % oldcap
             V == Values \cup {NULL}
  <2>1. Shown[k] = Listed(data, S, h)
    BY <1>1 DEF Shown, DataCap, Rehashing
  <2>2. Shown'[k] = Listed(newdata, Holding(newdata, cap, k), Home(k))
    BY <1>2 DEF Shown, DataCap, Rehashing, Home
  <2>3. Listed(newdata, Holding(newdata, cap, k), Home(k)) = Listed(data, S, 0)
    BY <1>1 DEF TableInv, CopyInv, Rehashing
  <2>4. Shown'[k] = Listed(data, S, 0)
    BY <2>2, <2>3
  <2>5. CASE oldcap = 0
    <3>1. S = {}
      BY <2>5 DEF Holding, Slots
    <3>2. Shown[k] = <<>> /\ Shown'[k] = <<>>
      BY <2>1, <2>4, <3>1, ListedNone
    <3>3. Store!Rotate(<<>>, 0) = <<>> /\ 0 \in 0 .. Len(<<>>)
      BY DEF Store!Rotate
    <3>. QED
      BY <3>2, <3>3 DEF Store!RotationOf
  <2>6. CASE oldcap # 0
    <3>1. h \in Nat
      <4>1. function[k] \in Nat
        BY <1>1, HashFunctionsAssumption
      <4>. QED
        BY <1>1, <2>6, <4>1, ModRange
    <3>2. IsFiniteSet(S) /\ S \subseteq Nat /\ \A j \in S : j \in Slots(oldcap)
      BY <1>1, HoldingFacts
    <3>3. \A j \in S : data[j].value \in V
      BY <1>1, <3>2 DEF Bucket
    <3>. HIDE DEF S, h, V
    <3>4. Store!RotationOf(Listed(data, S, h), Listed(data, S, 0))
      BY <3>1, <3>2, <3>3, ListedRotates
    <3>. QED
      BY <2>1, <2>4, <3>4
  <2>. QED
    BY <2>5, <2>6
<1>. QED
  BY <1>3, <1>4, StoreGrows

(* A bucket filled by an insertion is behind those of its key. *)
LEMMA PlaceStoreInserts ==
  ASSUME TableInv, PlaceStore
  PROVE  StoreStep
<1> DEFINE x == [key |-> key, value |-> value]
<1>1. TypeInv /\ ~Rehashing
  BY DEF TableInv, TypeInv, PlaceStore, Rehashing
<1>2. /\ slot \in Slots(cap) /\ cap \in Nat /\ cap # 0
      /\ data \in [Slots(cap) -> Bucket]
      /\ data[slot].key = NULL
      /\ key \in Keys /\ value \in Values
      /\ x \in Bucket
  BY DEF PlaceStore, TableInv, TypeOK, Rehashing, DataCap, Slots, Bucket
<1>3. \A t \in Slots(cap) : data'[t] = IF t = slot THEN x ELSE data[t]
  BY <1>2 DEF PlaceStore
<1>4. cap' = cap /\ function' = function /\ pc' = "idle" /\ op' = "none"
  BY DEF PlaceStore
<1>5. Told' = NULL
  BY <1>4 DEF Told
<1>6. ASSUME NEW k \in Keys
      PROVE  Shown'[k] = IF key = k THEN Append(Shown[k], value) ELSE Shown[k]
  <2>1. Home(k) \in Slots(cap) /\ Home(k) \in Nat
    BY <1>1, <1>2, HomeSlot DEF Slots
  <2>2. ASSUME key = k, NEW t \in Slots(cap), data[t].key = k
        PROVE  Between(Home(k), t, slot)
    <3>1. t # slot /\ data[t].key # NULL
      BY <1>2, <2>2, NullAssumption
    <3>2. ~Between(Home(k), slot, t)
      BY <1>1, <1>2, <2>2, <3>1 DEF TableInv, ProbeChains, Probeable
    <3>. QED
      BY <1>2, <2>1, <3>1, <3>2, WayTotal
  <2>3. IsFilled(slot, x, data, data', cap, Home(k), k)
    BY <1>2, <1>3, <2>1, <2>2 DEF IsFilled
  <2>. HIDE DEF x
  <2>4. Listed(data', Holding(data', cap, k), Home(k))
          = IF x.key = k THEN Append(Listed(data, Holding(data, cap, k), Home(k)), x.value)
                         ELSE Listed(data, Holding(data, cap, k), Home(k))
    BY <2>3, ListedFill
  <2>5. x.key = key /\ x.value = value
    BY DEF x
  <2>6. Shown'[k] = Listed(data', Holding(data', cap, k), Home(k))
    BY <1>4 DEF Shown, DataCap, Rehashing, Home
  <2>7. Shown[k] = Listed(data, Holding(data, cap, k), Home(k))
    BY <1>1, ShownAt
  <2>. QED
    BY <2>4, <2>5, <2>6, <2>7
<1>7. Shown' = [Shown EXCEPT ![key] = Append(@, value)]
  BY <1>6 DEF Shown
<1>. QED
  BY <1>2, <1>5, <1>7, StoreInserts

(* A probe that ends at a free bucket answers for a key with no bindings.  *)
LEMMA GetMissGets ==
  ASSUME TableInv, TableInv', GetMiss
  PROVE  StoreStep
<1>1. /\ TypeInv /\ ~Rehashing /\ pc = "get" /\ key \in Keys /\ op \in {"get", "assign"}
      /\ result = NULL
  BY DEF TableInv, TypeInv, TypeOK, CursorInv, GetMiss, Rehashing
<1>2. /\ pc' = "idle" /\ op' = op /\ key' = key /\ result' = result /\ latest' = latest
      /\ data' = data /\ cap' = cap /\ function' = function
  BY DEF GetMiss, tableVars
<1>3. latest[key] = NULL
  BY <1>1, <1>2, NullAssumption DEF TableInv, LookupFindsKey, Slots
<1>4. Holding(data, cap, key) = {}
  BY <1>1, <1>3, NullAssumption DEF TableInv, KeysInv, DataCap, Holding
<1>5. Shown[key] = <<>>
  BY <1>1, <1>4, ShownAt, ListedNone
<1>6. Shown' = Shown
  <2>1. DataCap' = DataCap
    BY <1>1, <1>2 DEF DataCap, Rehashing
  <2>. QED
    BY <1>2, <2>1, ShownSame
<1>7. Told' = <<key, NULL>>
  BY <1>1, <1>2 DEF Told
<1>8. Told' = <<key, IF Shown[key] # <<>> THEN Head(Shown[key]) ELSE NULL>>
  BY <1>5, <1>7
<1>. QED
  BY <1>1, <1>6, <1>8, StoreGets

(* A probe that ends at a bucket of the key has come to the first of them: *)
(* a lookup answers with its value, an assignment replaces it.             *)
LEMMA GetHitAnswers ==
  ASSUME TableInv, GetHit
  PROVE  StoreStep
<1> DEFINE S == Holding(data, cap, key)
           h == Home(key)
           V == Values \cup {NULL}
<1>1. /\ TypeInv /\ ~Rehashing /\ pc = "get" /\ key \in Keys /\ op \in {"get", "assign"}
      /\ data \in [Slots(cap) -> Bucket]
      /\ slot \in Slots(cap) /\ slot \in Nat /\ cap \in Nat /\ cap # 0
      /\ data[slot].key = key
      /\ op = "assign" => value \in Values
      /\ slot # NULL
  BY NullAssumption DEF TableInv, TypeInv, TypeOK, GetHit, Rehashing, DataCap, Slots
<1>2. /\ pc' = "idle" /\ op' = op /\ key' = key /\ result' = slot
      /\ cap' = cap /\ function' = function
  BY DEF GetHit
<1>3. IsFiniteSet(S) /\ S \subseteq Nat /\ h \in Nat
  BY <1>1, HoldingFacts, ShownAt
<1>4. \A s : s \in S <=> s \in Slots(cap) /\ data[s].key = key
  BY DEF Holding
<1>5. slot \in S /\ \A s \in S : data[s].value \in V
  BY <1>1, <1>4 DEF Bucket
<1>6. \A s \in S : ~Between(h, s, slot)
  BY <1>1, <1>4 DEF TableInv, CursorInv
<1>7. Shown[key] = Listed(data, S, h)
  BY <1>1, ShownAt
<1>8. CASE op = "get"
  <2>1. data' = data
    BY <1>8 DEF GetHit
  <2>2. Shown' = Shown
    <3>1. DataCap' = DataCap
      BY <1>1, <1>2 DEF DataCap, Rehashing
    <3>. QED
      BY <1>2, <2>1, <3>1, ShownSame
  <2>3. Told' = <<key, data[slot].value>>
    BY <1>1, <1>2, <2>1 DEF Told
  <2>. HIDE DEF S, h, V
  <2>4. Listed(data, S, h) # <<>> /\ Head(Listed(data, S, h)) = data[slot].value
    <3>1. IsFirst(slot, data, S, h, V)
      BY <1>3, <1>5, <1>6 DEF IsFirst
    <3>. QED
      BY <3>1, ListedFirst
  <2>5. Told' = <<key, IF Shown[key] # <<>> THEN Head(Shown[key]) ELSE NULL>>
    BY <1>7, <2>3, <2>4
  <2>. QED
    BY <1>1, <2>2, <2>5, StoreGets
<1>9. CASE op = "assign"
  <2>1. \A t \in Slots(cap) :
          data'[t] = IF t = slot THEN [key |-> key, value |-> value] ELSE data[t]
    BY <1>1, <1>9 DEF GetHit
  <2>2. Told' = <<key, value>>
    BY <1>1, <1>2, <2>1 DEF Told
  <2>3. \A t \in Slots(cap) : data'[t].key = data[t].key
    BY <1>1, <2>1
  <2>4. \A k : Holding(data', cap, k) = Holding(data, cap, k)
    BY <2>3 DEF Holding
  <2>5. \A k \in Keys : Shown'[k] = Listed(data', Holding(data, cap, k), Home(k))
    BY <1>2, <2>4 DEF Shown, DataCap, Rehashing, Home
  <2>6. ASSUME NEW k \in Keys, k # key
        PROVE  Shown'[k] = Shown[k]
    <3> DEFINE R == Holding(data, cap, k)
    <3>1. IsFiniteSet(R) /\ R \subseteq Nat /\ Home(k) \in Nat
      BY <1>1, HoldingFacts, ShownAt
    <3>2. \A s \in R : data[s].value = data'[s].value
      BY <1>1, <2>1, <2>6 DEF Holding
    <3>. HIDE DEF R
    <3>3. Listed(data, R, Home(k)) = Listed(data', R, Home(k))
      BY <3>1, <3>2, ListedSame
    <3>4. Shown[k] = Listed(data, R, Home(k)) /\ Shown'[k] = Listed(data', R, Home(k))
      BY <1>1, <2>5, ShownAt DEF R
    <3>. QED
      BY <3>3, <3>4
  <2>7. Shown[key] # <<>> /\ Shown'[key] = <<value>> \o Tail(Shown[key])
    <3>1. value \in V /\ data'[slot].value = value
      BY <1>1, <1>9, <2>1
    <3>2. \A s \in S \ {slot} : data'[s].value = data[s].value
      BY <1>4, <2>1
    <3>3. Shown'[key] = Listed(data', S, h)
      BY <1>1, <2>5
    <3>. HIDE DEF S, h, V
    <3>4. Listed(data, S, h) # <<>>
      <4>1. IsFirst(slot, data, S, h, V)
        BY <1>3, <1>5, <1>6 DEF IsFirst
      <4>. QED
        BY <4>1, ListedFirst
    <3>5. Listed(data', S, h) = <<data'[slot].value>> \o Tail(Listed(data, S, h))
      BY <1>3, <1>5, <1>6, <3>1, <3>2, ListedReplace
    <3>. QED
      BY <1>7, <3>1, <3>3, <3>4, <3>5
  <2>8. Shown' = [Shown EXCEPT ![key] = <<value>> \o Tail(@)]
    BY <1>1, <2>6, <2>7 DEF Shown
  <2>. QED
    BY <1>1, <1>9, <2>2, <2>7, <2>8, StoreAssigns
<1>. QED
  BY <1>1, <1>8, <1>9

LEMMA InitStore ==
  Init => Store!Init
<1>. SUFFICES ASSUME Init PROVE Store!Init
  OBVIOUS
<1>1. Shown = [k \in Keys |-> <<>>]
  <2>1. \A k \in Keys : Holding(data, DataCap, k) = {}
    BY DEF Init, DataCap, Rehashing, Holding, Slots
  <2>2. \A k \in Keys : Listed(data, Holding(data, DataCap, k), function[k] % DataCap) = <<>>
    BY <2>1, ListedNone
  <2>. QED
    BY <2>2 DEF Shown
<1>2. Told = NULL
  BY DEF Init, Told
<1>. QED
  BY <1>1, <1>2 DEF Store!Init, Store!NoBindings, Shown, Told

LEMMA NextStore ==
  TableInv /\ TableInv' /\ [Next]_vars => StoreStep
<1>. SUFFICES ASSUME TableInv, TableInv', [Next]_vars PROVE StoreStep
  OBVIOUS
<1>1. ASSUME NEW k \in Keys, NEW v \in Values, Insert(k, v)
      PROVE  StoreStep
  <2>1. data' = data /\ function' = function /\ DataCap' = DataCap
    BY <1>1 DEF Insert, DataCap, Rehashing
  <2>2. Told' = NULL
    BY <1>1 DEF Insert, Told
  <2>. QED
    BY <2>1, <2>2, ShownSame, StoreForgets
<1>2. CASE RehashSkip \/ RehashMove \/ MoveProbe \/ MoveStore \/ PlaceProbe \/ GetProbe
  <2>1. /\ data' = data /\ function' = function
        /\ oldcap' = oldcap /\ cap' = cap /\ Rehashing' = Rehashing
        /\ pc' # "idle"
    BY <1>2 DEF RehashSkip, RehashMove, MoveProbe, MoveStore, PlaceProbe, GetProbe,
                Rehashing, tableVars, rehashVars
  <2>2. DataCap' = DataCap
    BY <2>1 DEF DataCap
  <2>3. Told' = NULL
    BY <2>1 DEF Told
  <2>. QED
    BY <2>1, <2>2, <2>3, ShownSame, StoreForgets
<1>3. CASE RehashEnd
  BY <1>3, RehashEndGrows
<1>4. CASE PlaceStore
  BY <1>4, PlaceStoreInserts
<1>5. ASSUME NEW o \in {"get", "assign"}, NEW k \in Keys, NEW v, TryGet(o, k, v)
      PROVE  StoreStep
  <2>1. /\ data' = data /\ function' = function /\ cap' = cap /\ oldcap' = oldcap
        /\ op' = o /\ key' = k /\ result' = NULL
        /\ pc = "idle" /\ pc' = IF len = 0 THEN "idle" ELSE "get"
    BY <1>5 DEF TryGet, tableVars, rehashVars
  <2>2. DataCap' = DataCap
    BY <2>1 DEF DataCap, Rehashing
  <2>3. Shown' = Shown
    BY <2>1, <2>2, ShownSame
  <2>4. CASE len # 0
    <3>1. Told' = NULL
      BY <2>1, <2>4 DEF Told
    <3>. QED
      BY <2>3, <3>1, StoreForgets
  <2>5. CASE len = 0
    <3>1. TypeInv /\ ~Rehashing /\ cap = 0
      BY <2>1, <2>5 DEF TableInv, TypeInv, LoadInv, Rehashing
    <3>2. Shown[k] = <<>>
      BY <3>1, ShownAt
    <3>3. Told' = <<k, NULL>>
      BY <2>1, <2>5 DEF Told
    <3>4. Told' = <<k, IF Shown[k] # <<>> THEN Head(Shown[k]) ELSE NULL>>
      BY <3>2, <3>3
    <3>. QED
      BY <2>3, <3>4, StoreGets
  <2>. QED
    BY <2>4, <2>5
<1>6. CASE GetMiss
  BY <1>6, GetMissGets
<1>7. CASE GetHit
  BY <1>7, GetHitAnswers
<1>8. CASE UNCHANGED vars
  <2>1. data' = data /\ function' = function /\ DataCap' = DataCap
    BY <1>8 DEF vars, DataCap, Rehashing
  <2>2. Told' = Told
    BY <1>8 DEF vars, Told
  <2>. QED
    BY <2>1, <2>2, ShownSame, StoreStutters
<1>. QED
  BY <1>1, <1>2, <1>3, <1>4, <1>5, <1>6, <1>7, <1>8 DEF Next, Call, Run

(* The table is a store of bindings to its callers: whatever the hash      *)
(* function, the collisions and the rehashes on the way, an insertion adds *)
(* one binding behind those the key has, a lookup answers with the first,  *)
(* an assignment replaces the first, and growing only rotates lists.       *)
THEOREM TableImplementsBindings == Spec => ImplementsBindings
<1>1. TableInv /\ [Next]_vars => StoreStep
  BY NextTableInv, NextStore
<1>. QED
  BY <1>1, InitTableInv, NextTableInv, InitStore, PTL
     DEF Spec, ImplementsBindings, Store!Spec, StoreStep
=============================================================================

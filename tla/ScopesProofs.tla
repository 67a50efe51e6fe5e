---------------------------- MODULE ScopesProofs ----------------------------
(***************************************************************************)
(* TLAPS proofs about module Scopes: scoping is lexical, every value is    *)
(* read as what it is, and every call has a scope of its own, for every    *)
(* set of programs whose trees are whole, every depth of recursion and     *)
(* every session.                                                          *)
(***************************************************************************)
EXTENDS Scopes, InterpreterProofs, NaturalsInduction, WellFoundedInduction

(* Induction over the heap and over the parameters of a call is done by    *)
(* looking at the least counterexample.                                    *)
LEMMA Least ==
  ASSUME NEW T, T \subseteq Nat, T # {}
  PROVE  \E n \in T : \A m \in T : n <= m
<1>1. IsWellFoundedOn(OpToRel(<, Nat), Nat)
  BY NatLessThanWellFounded
<1>2. PICK n \in T : \A m \in T : ~(<<m, n>> \in OpToRel(<, Nat))
  BY <1>1, WFMin
<1>3. \A m \in T : ~(m < n)
  BY <1>2 DEF OpToRel
<1>. QED
  BY <1>3

-----------------------------------------------------------------------------
(* Depth is a recursive function along the enclosing environments.  As     *)
(* these are older, there is such a function, and only one; it does not    *)
(* change when the heap grows.                                             *)
IsCount(es, m, f) == f = [n \in 0 .. m |-> IF n = 0 THEN 0 ELSE 1 + f[es[n].enclosing]]

LEMMA CountExists ==
  ASSUME NEW es, IsChain(es)
  PROVE  \A m \in 0 .. Len(es) : \E f : IsCount(es, m, f) /\ f \in [0 .. m -> Nat]
<1> DEFINE Good(m) == \E f : IsCount(es, m, f) /\ f \in [0 .. m -> Nat]
           T == {m \in 0 .. Len(es) : ~Good(m)}
<1>1. ASSUME T # {} PROVE FALSE
  <2>1. T \subseteq Nat
    BY DEF IsChain
  <2>2. PICK m \in T : \A k \in T : m <= k
     <3>. HIDE DEF T
     <3>. QED
       BY <2>1, <1>1, Least
  <2>3. m \in 0 .. Len(es) /\ ~Good(m)
    BY <2>2
  <2>4. CASE m = 0
    <3> DEFINE f == [n \in 0 .. 0 |-> 0]
    <3>1. f = [n \in 0 .. 0 |-> IF n = 0 THEN 0 ELSE 1 + f[es[n].enclosing]]
      OBVIOUS
    <3>2. f \in [0 .. 0 -> Nat]
      OBVIOUS
    <3>. HIDE DEF f
    <3>3. Good(0)
      BY <3>1, <3>2 DEF IsCount
    <3>. QED
      BY <2>3, <2>4, <3>3
  <2>5. CASE m # 0
    <3>1. m - 1 \in 0 .. Len(es) /\ ~(m <= m - 1)
      BY <2>5, <2>3 DEF IsChain
    <3>1a. m - 1 \notin T
      BY <2>2, <3>1
    <3>2. PICK g : IsCount(es, m - 1, g) /\ g \in [0 .. m - 1 -> Nat]
      BY <3>1, <3>1a
    <3> DEFINE f == [n \in 0 .. m |-> IF n = m THEN 1 + g[es[m].enclosing] ELSE g[n]]
    <3>3. es[m].enclosing \in 0 .. m - 1
      BY <2>3, <2>5 DEF IsChain
    <3>4. \A n \in 0 .. m - 1 : f[n] = g[n] /\ g[n] \in Nat
      BY <2>3, <3>2 DEF IsChain
    <3>4a. m \in Nat
      BY <2>3 DEF IsChain
    <3>4b. g[es[m].enclosing] \in Nat
      BY <3>3, <3>2
    <3>5. f \in [0 .. m -> Nat]
      <4>1. ASSUME NEW n \in 0 .. m
            PROVE  (IF n = m THEN 1 + g[es[m].enclosing] ELSE g[n]) \in Nat
        <5>1. CASE n = m
          BY <5>1, <3>4b
        <5>2. CASE n # m
          <6>1. n \in 0 .. m - 1
            BY <5>2, <3>4a
          <6>. QED
            BY <5>2, <6>1, <3>4
        <5>. QED
          BY <5>1, <5>2
      <4>. QED
        BY <4>1
    <3>6. \A n \in 0 .. m : f[n] = IF n = 0 THEN 0 ELSE 1 + f[es[n].enclosing]
      <4>1. f[m] = 1 + f[es[m].enclosing]
        BY <2>3, <3>3, <3>4 DEF IsChain
      <4>2. ASSUME NEW n \in 0 .. m - 1 PROVE g[n] = IF n = 0 THEN 0 ELSE 1 + g[es[n].enclosing]
        BY <3>2 DEF IsCount
      <4>3. ASSUME NEW n \in 1 .. m - 1 PROVE es[n].enclosing \in 0 .. m - 1
        BY <2>3 DEF IsChain
      <4>. HIDE DEF f
      <4>. QED
        BY <4>1, <4>2, <4>3, <3>4, <2>5, <2>3 DEF IsChain
    <3>. HIDE DEF f
    <3>7. IsCount(es, m, f)
      BY <3>6, <3>5 DEF IsCount
    <3>. QED
      BY <3>7, <3>5, <2>3
  <2>. QED
    BY <2>4, <2>5
<1>. QED
  BY <1>1

HeapGrows(es, fs) ==
  Len(es) <= Len(fs) /\ \A e \in 1 .. Len(es) : fs[e].enclosing = es[e].enclosing

LEMMA CountAgrees ==
  ASSUME NEW es, NEW fs, IsChain(es), IsChain(fs), HeapGrows(es, fs),
         NEW f, IsCount(es, Len(es), f), NEW g, IsCount(fs, Len(fs), g)
  PROVE  \A n \in 0 .. Len(es) : f[n] = g[n]
<1> DEFINE T == {n \in 0 .. Len(es) : f[n] # g[n]}
<1>1. ASSUME T # {} PROVE FALSE
  <2>1. T \subseteq Nat
    BY DEF IsChain
  <2>2. PICK m \in T : \A k \in T : m <= k
     <3>. HIDE DEF T
     <3>. QED
       BY <2>1, <1>1, Least
  <2>3. m \in 0 .. Len(es) /\ m \in 0 .. Len(fs) /\ f[m] # g[m]
    BY <2>2 DEF HeapGrows, IsChain
  <2>4. f[m] = (IF m = 0 THEN 0 ELSE 1 + f[es[m].enclosing])
    BY <2>3 DEF IsCount
  <2>5. g[m] = (IF m = 0 THEN 0 ELSE 1 + g[fs[m].enclosing])
    BY <2>3 DEF IsCount
  <2>6. m # 0
    BY <2>3, <2>4, <2>5
  <2>7. fs[m].enclosing = es[m].enclosing /\ es[m].enclosing \in 0 .. m - 1
    BY <2>3, <2>6 DEF IsChain, HeapGrows
  <2>8. es[m].enclosing \in 0 .. Len(es) /\ ~(m <= es[m].enclosing)
    BY <2>3, <2>7 DEF IsChain
  <2>9. f[es[m].enclosing] = g[es[m].enclosing]
    BY <2>2, <2>8
  <2>. QED
    BY <2>9, <2>7, <2>6, <2>5, <2>4, <2>3
<1>. QED
  BY <1>1

LEMMA DepthUnfolds ==
  ASSUME NEW es, IsChain(es)
  PROVE  \E f : /\ IsCount(es, Len(es), f)
                /\ \A n \in 0 .. Len(es) : f[n] \in Nat
                /\ \A e : Depth(es, e) = f[e] - 1
<1> DEFINE C == CHOOSE f : IsCount(es, Len(es), f)
<1>1. \A e : Depth(es, e) = C[e] - 1
  BY DEF Depth, IsCount
<1>2. Len(es) \in 0 .. Len(es)
  BY DEF IsChain
<1>3. PICK g : IsCount(es, Len(es), g) /\ g \in [0 .. Len(es) -> Nat]
  BY <1>2, CountExists
<1>4. IsCount(es, Len(es), C)
  BY <1>3
<1>. HIDE DEF C
<1>5. HeapGrows(es, es)
  BY DEF HeapGrows, IsChain
<1>6. \A n \in 0 .. Len(es) : C[n] = g[n]
  BY <1>3, <1>4, <1>5, CountAgrees
<1>. QED
  BY <1>1, <1>4, <1>6, <1>3

LEMMA DepthGrows ==
  ASSUME NEW es, NEW fs, IsChain(es), IsChain(fs), HeapGrows(es, fs), NEW e \in 1 .. Len(es)
  PROVE  Depth(fs, e) = Depth(es, e)
<1>1. PICK f : IsCount(es, Len(es), f) /\ Depth(es, e) = f[e] - 1
  BY DepthUnfolds
<1>2. PICK g : IsCount(fs, Len(fs), g) /\ Depth(fs, e) = g[e] - 1
  BY DepthUnfolds
<1>3. \A n \in 0 .. Len(es) : f[n] = g[n]
  BY <1>1, <1>2, CountAgrees
<1>4. e \in 0 .. Len(es)
  BY DEF IsChain
<1>. QED
  BY <1>1, <1>2, <1>3, <1>4

LEMMA DepthOf ==
  ASSUME NEW es, IsChain(es), NEW e \in 1 .. Len(es)
  PROVE  /\ es[e].enclosing = 0 => Depth(es, e) = 0
         /\ es[e].enclosing # 0 => Depth(es, e) = Depth(es, es[e].enclosing) + 1
         /\ Depth(es, e) \in Int
<1>1. PICK f : /\ IsCount(es, Len(es), f)
               /\ \A n \in 0 .. Len(es) : f[n] \in Nat
               /\ \A d : Depth(es, d) = f[d] - 1
  BY DepthUnfolds
<1>2. e \in 0 .. Len(es) /\ 0 \in 0 .. Len(es) /\ es[e].enclosing \in 0 .. Len(es) /\ e # 0
  BY DEF IsChain
<1>3. f[e] = 1 + f[es[e].enclosing] /\ f[0] = 0
  BY <1>1, <1>2 DEF IsCount
<1>4. f[e] \in Nat /\ f[es[e].enclosing] \in Nat
  BY <1>1, <1>2
<1>5. Depth(es, e) = f[e] - 1 /\ Depth(es, es[e].enclosing) = f[es[e].enclosing] - 1
  BY <1>1
<1>. QED
  BY <1>3, <1>4, <1>5

-----------------------------------------------------------------------------
(* The walk of environment_get and environment_assign. *)
IsSearch(es, name, m, f) ==
  f = [n \in 0 .. m |-> IF n = 0 \/ B!IsBound(es[n].values.bindings, name) THEN n
                        ELSE f[es[n].enclosing]]

LEMMA SearchExists ==
  ASSUME NEW es, NEW name, IsChain(es)
  PROVE  \A m \in 0 .. Len(es) : \E f : IsSearch(es, name, m, f)
<1> DEFINE Good(m) == \E f : IsSearch(es, name, m, f)
           T == {m \in 0 .. Len(es) : ~Good(m)}
           Bound(n) == B!IsBound(es[n].values.bindings, name)
<1>1. ASSUME T # {} PROVE FALSE
  <2>1. T \subseteq Nat
    BY DEF IsChain
  <2>2. PICK m \in T : \A k \in T : m <= k
     <3>. HIDE DEF T
     <3>. QED
       BY <2>1, <1>1, Least
  <2>3. m \in 0 .. Len(es) /\ ~Good(m)
    BY <2>2
  <2>4. CASE m = 0
    <3> DEFINE f == [n \in 0 .. 0 |-> 0]
    <3>1. f = [n \in 0 .. 0 |-> IF n = 0 \/ Bound(n) THEN n ELSE f[es[n].enclosing]]
      <4>. HIDE DEF Bound
      <4>. QED
        OBVIOUS
    <3>. HIDE DEF f
    <3>3. Good(0)
      BY <3>1 DEF IsSearch
    <3>. QED
      BY <2>3, <2>4, <3>3
  <2>5. CASE m # 0
    <3>1. m - 1 \in 0 .. Len(es) /\ ~(m <= m - 1)
      BY <2>5, <2>3 DEF IsChain
    <3>1a. m - 1 \notin T
      BY <2>2, <3>1
    <3>2. PICK g : IsSearch(es, name, m - 1, g)
      BY <3>1, <3>1a
    <3> DEFINE f == [n \in 0 .. m |-> IF n = m THEN IF Bound(m) THEN m ELSE g[es[m].enclosing] ELSE g[n]]
    <3>3. es[m].enclosing \in 0 .. m - 1
      BY <2>3, <2>5 DEF IsChain
    <3>4a. ASSUME NEW n \in 0 .. m - 1 PROVE g[n] = IF n = 0 \/ Bound(n) THEN n ELSE g[es[n].enclosing]
      BY <3>2 DEF IsSearch
    <3>. HIDE DEF Bound
    <3>4. \A n \in 0 .. m - 1 : f[n] = g[n]
      BY <2>3 DEF IsChain
    <3>5. f = [n \in 0 .. m |-> f[n]]
      OBVIOUS
    <3>6. \A n \in 0 .. m : f[n] = IF n = 0 \/ Bound(n) THEN n ELSE f[es[n].enclosing]
      <4>1. f[m] = IF m = 0 \/ Bound(m) THEN m ELSE f[es[m].enclosing]
        BY <2>3, <2>5, <3>3, <3>4 DEF IsChain
      <4>3. ASSUME NEW n \in 1 .. m - 1 PROVE es[n].enclosing \in 0 .. m - 1
        BY <2>3 DEF IsChain
      <4>. HIDE DEF f
      <4>4. ASSUME NEW n \in 0 .. m - 1
            PROVE  f[n] = IF n = 0 \/ Bound(n) THEN n ELSE f[es[n].enclosing]
        <5>1. CASE n = 0 \/ Bound(n)
          BY <5>1, <4>4, <3>4, <3>4a
        <5>2. CASE ~(n = 0 \/ Bound(n))
          <6>1. n \in 1 .. m - 1
            BY <5>2, <4>4
          <6>2. f[es[n].enclosing] = g[es[n].enclosing]
            BY <6>1, <4>3, <3>4
          <6>. QED
            BY <5>2, <6>2, <4>4, <3>4, <3>4a
        <5>. QED
          BY <5>1, <5>2
      <4>5. \A n \in 0 .. m : n \in 0 .. m - 1 \/ n = m
        BY <2>3 DEF IsChain
      <4>. QED
        BY <4>1, <4>4, <4>5
    <3>. HIDE DEF f
    <3>7. f = [n \in 0 .. m |-> IF n = 0 \/ Bound(n) THEN n ELSE f[es[n].enclosing]]
      BY <3>6, <3>5
    <3>8. IsSearch(es, name, m, f)
      BY <3>7 DEF IsSearch, Bound
    <3>. QED
      BY <3>8, <2>3
  <2>. QED
    BY <2>4, <2>5
<1>. QED
  BY <1>1

LEMMA HolderBinds ==
  ASSUME NEW es, IsChain(es), NEW name, NEW e \in 0 .. Len(es)
  PROVE  /\ Holder(es, e, name) \in 0 .. Len(es)
         /\ Holder(es, e, name) # 0 =>
              B!IsBound(es[Holder(es, e, name)].values.bindings, name)
<1> DEFINE Bound(n) == B!IsBound(es[n].values.bindings, name)
           C == CHOOSE f : IsSearch(es, name, Len(es), f)
           T == {n \in 0 .. Len(es) : ~(C[n] \in 0 .. Len(es) /\ (C[n] # 0 => Bound(C[n])))}
<1>1. Holder(es, e, name) = C[e]
  BY DEF Holder, IsSearch
<1>2. Len(es) \in 0 .. Len(es)
  BY DEF IsChain
<1>3. IsSearch(es, name, Len(es), C)
  BY <1>2, SearchExists
<1>. HIDE DEF C
<1>4. \A n \in 0 .. Len(es) : C[n] = IF n = 0 \/ Bound(n) THEN n ELSE C[es[n].enclosing]
  BY <1>3 DEF IsSearch
<1>. HIDE DEF Bound
<1>5. ASSUME T # {} PROVE FALSE
  <2>1. T \subseteq Nat
    BY DEF IsChain
  <2>2. PICK m \in T : \A k \in T : m <= k
     <3>. HIDE DEF T
     <3>. QED
       BY <2>1, <1>5, Least
  <2>3. m \in 0 .. Len(es) /\ ~(C[m] \in 0 .. Len(es) /\ (C[m] # 0 => Bound(C[m])))
    BY <2>2
  <2>4. m # 0 /\ ~Bound(m) /\ C[m] = C[es[m].enclosing]
    BY <2>3, <1>4
  <2>5. es[m].enclosing \in 0 .. m - 1
    BY <2>3, <2>4 DEF IsChain
  <2>6. es[m].enclosing \in 0 .. Len(es) /\ ~(m <= es[m].enclosing)
    BY <2>3, <2>5 DEF IsChain
  <2>7. es[m].enclosing \notin T
    BY <2>2, <2>6
  <2>. QED
    BY <2>7, <2>6, <2>4, <2>3
<1>6. C[e] \in 0 .. Len(es) /\ (C[e] # 0 => Bound(C[e]))
  BY <1>5
<1>. QED
  BY <1>1, <1>6 DEF Bound

-----------------------------------------------------------------------------
(* The numbers are closed under the arithmetic, and what an operator       *)
(* returns is an object.                                                   *)
LEMMA AddCloses ==
  ASSUME NEW x \in Numbers, NEW y \in Numbers
  PROVE  Add(x, y) \in Numbers
BY MaxNumberAssumption DEF Add, Rounded, IsFinite, Numbers, Infinity, NaN

LEMMA NegateCloses ==
  ASSUME NEW x \in Numbers
  PROVE  Negate(x) \in Numbers
BY MaxNumberAssumption DEF Negate, Numbers, Infinity, NaN

LEMMA RoundedCloses ==
  ASSUME NEW n \in Int
  PROVE  Rounded(n) \in Numbers
BY MaxNumberAssumption DEF Rounded, Numbers, Infinity, NaN

LEMMA MultiplyCloses ==
  ASSUME NEW x \in Numbers, NEW y \in Numbers
  PROVE  Multiply(x, y) \in Numbers
<1>1. x \in Int /\ y \in Int /\ NaN \in Numbers
  BY MaxNumberAssumption DEF Numbers, Infinity, NaN
<1>2. x * y \in Int
  BY <1>1
<1>3. Rounded(x * y) \in Numbers
  BY <1>2, RoundedCloses
<1>. QED
  BY <1>1, <1>3 DEF Multiply

LEMMA QuotientIsFinite ==
  ASSUME NEW x \in Int, NEW y \in Int, NEW M \in Nat, -M <= x, x <= M, y > 0
  PROVE  x \div y \in -M .. M
<1> DEFINE q == x \div y
<1>1. q \in Int /\ y * q <= x /\ x < y * q + y
  OBVIOUS
<1>. HIDE DEF q
<1>2. CASE q > M
  <2>1. y * q >= q
    BY <1>1, <1>2
  <2>. QED
    BY <1>1, <1>2, <2>1
<1>3. CASE q < -M
  <2>1. q + 1 <= -M
    BY <1>1, <1>3
  <2>2. y * (q + 1) <= q + 1
    BY <1>1, <2>1
  <2>3. y * (q + 1) = y * q + y
    BY <1>1
  <2>. QED
    BY <1>1, <2>1, <2>2, <2>3
<1>. QED
  BY <1>1, <1>2, <1>3 DEF q

LEMMA DivideCloses ==
  ASSUME NEW x \in Numbers, NEW y \in Numbers
  PROVE  Divide(x, y) \in Numbers
<1>0. /\ x \in Int /\ y \in Int /\ NaN \in Numbers /\ Infinity \in Numbers /\ -Infinity \in Numbers
      /\ 0 \in Numbers /\ MaxNumber \in Nat
      /\ \A n \in -MaxNumber .. MaxNumber : n \in Numbers
  BY MaxNumberAssumption DEF Numbers, Infinity, NaN
<1>1. ASSUME IsFinite(x), IsFinite(y), y # 0
      PROVE  (IF y < 0 THEN (-x) \div (-y) ELSE x \div y) \in Numbers
  <2>1. CASE y < 0
    <3>1. -x \in Int /\ -y \in Int /\ -MaxNumber <= -x /\ -x <= MaxNumber /\ -y > 0
      BY <1>0, <1>1, <2>1 DEF IsFinite
    <3>2. (-x) \div (-y) \in -MaxNumber .. MaxNumber
      BY <1>0, <3>1, QuotientIsFinite
    <3>. QED
      BY <1>0, <2>1, <3>2
  <2>2. CASE ~(y < 0)
    <3>1. -MaxNumber <= x /\ x <= MaxNumber /\ y > 0
      BY <1>0, <1>1, <2>2 DEF IsFinite
    <3>2. x \div y \in -MaxNumber .. MaxNumber
      BY <1>0, <3>1, QuotientIsFinite
    <3>. QED
      BY <1>0, <2>2, <3>2
  <2>. QED
    BY <2>1, <2>2
<1> DEFINE quotient == IF y < 0 THEN (-x) \div (-y) ELSE x \div y
<1>. HIDE DEF quotient
<1>2. Divide(x, y) \in {NaN, Infinity, -Infinity, 0, quotient}
  BY DEF Divide, quotient
<1>3. Divide(x, y) \notin {NaN, Infinity, -Infinity, 0} => IsFinite(x) /\ IsFinite(y) /\ y # 0
  BY DEF Divide
<1>. QED
  BY <1>0, <1>1, <1>2, <1>3 DEF quotient

LEMMA ArithmeticCloses ==
  ASSUME NEW op \in {"+", "-", "*", "/"}, NEW x \in Numbers, NEW y \in Numbers
  PROVE  Arithmetic(op, x, y) \in Numbers
BY AddCloses, NegateCloses, MultiplyCloses, DivideCloses DEF Arithmetic

LEMMA BinaryResultIsObject ==
  ASSUME NEW es, NEW op, NEW left, NEW right, IsObjectOf(es, left), IsObjectOf(es, right),
         BinaryResult(op, left, right).tag = "ok"
  PROVE  IsObjectOf(es, BinaryResult(op, left, right).value)
<1> DEFINE r == BinaryResult(op, left, right)
<1>1. \A b \in BOOLEAN : IsObjectOf(es, Success(OBJECT_BOOL(b)).value)
  BY DEF IsObjectOf, Success, OBJECT_BOOL
<1>2. \A d \in Numbers : IsObjectOf(es, Success(OBJECT_NUMBER(d)).value)
  BY DEF IsObjectOf, Success, OBJECT_NUMBER
<1>3. \A s : IsObjectOf(es, Success(OBJECT_STRING(s)).value)
  BY DEF IsObjectOf, Success, OBJECT_STRING
<1>4. \A m : Failure(m).tag # "ok" /\ Abort(m).tag # "ok"
  BY DEF Failure, Abort
<1>5. CASE op \in {"!=", "=="}
  <2>1. is_equal(left, right) \in BOOLEAN
    BY DEF is_equal
  <2>2. (~is_equal(left, right)) \in BOOLEAN
    BY Zenon
  <2>. QED
    BY <1>1, <1>5, <2>1, <2>2 DEF BinaryResult
<1>6. CASE op \in {"<", "<=", ">", ">="}
  <2>1. Compare(op, left.d, right.d) \in BOOLEAN
    BY DEF Compare
  <2>2. op \notin {"!=", "=="}
    BY <1>6
  <2>. QED
    BY <1>1, <1>4, <1>6, <2>1, <2>2 DEF BinaryResult
<1>7. CASE op \in {"+", "-", "*", "/"}
  <2>1. CASE check_number_operands(left, right)
    <3>1. left.d \in Numbers /\ right.d \in Numbers
      BY <2>1 DEF check_number_operands, IsNumber, IsObjectOf
    <3>2. Arithmetic(op, left.d, right.d) \in Numbers
      BY <1>7, <3>1, ArithmeticCloses
    <3>3. r = Success(OBJECT_NUMBER(Arithmetic(op, left.d, right.d)))
      BY <1>7, <2>1 DEF BinaryResult
    <3>. QED
      BY <1>2, <3>2, <3>3
  <2>2. CASE ~check_number_operands(left, right)
    <3>1. r = Success(OBJECT_STRING(left.s \o right.s)) \/ \E m : r = Failure(m)
      BY <1>7, <2>2 DEF BinaryResult
    <3>. QED
      BY <1>3, <1>4, <3>1
  <2>. QED
    BY <2>1, <2>2
<1>8. CASE op \notin {"!=", "==", "<", "<=", ">", ">=", "+", "-", "*", "/"}
  <2>1. r = Unreachable
    BY <1>8 DEF BinaryResult
  <2>. QED
    BY <1>4, <2>1 DEF Unreachable
<1>. QED
  BY <1>5, <1>6, <1>7, <1>8

LEMMA UnaryResultIsObject ==
  ASSUME NEW es, NEW op, NEW right, IsObjectOf(es, right), UnaryResult(op, right).tag = "ok"
  PROVE  IsObjectOf(es, UnaryResult(op, right).value)
<1> DEFINE r == UnaryResult(op, right)
<1>1. CASE op = "!"
  <2>1. (~is_truthy(right)) \in BOOLEAN
    BY Zenon
  <2>2. r = Success(OBJECT_BOOL(~is_truthy(right)))
    BY <1>1 DEF UnaryResult
  <2>3. \A b \in BOOLEAN : IsObjectOf(es, Success(OBJECT_BOOL(b)).value)
    BY DEF IsObjectOf, Success, OBJECT_BOOL
  <2>. QED
    BY <2>1, <2>2, <2>3
<1>2. CASE op # "!"
  <2>1. r.tag = "ok" => r = Success(OBJECT_NUMBER(Negate(right.d))) /\ right.d \in Numbers
    BY <1>2 DEF UnaryResult, Failure, Unreachable, Abort, check_number_operand, IsNumber, IsObjectOf
  <2>2. r = Success(OBJECT_NUMBER(Negate(right.d))) /\ Negate(right.d) \in Numbers
    BY <2>1, NegateCloses
  <2>. QED
    BY <2>2 DEF Success, OBJECT_NUMBER, IsObjectOf
<1>. QED
  BY <1>1, <1>2

-----------------------------------------------------------------------------
(* Lists of objects. *)
LEMMA ObjectsFrom ==
  ASSUME NEW es, NEW X, NEW l \in Seq(X), \A x \in X : IsObjectOf(es, x)
  PROVE  AreObjectsOf(es, l)
<1>1. \A n \in 1 .. Len(l) : l[n] \in X /\ l[n] \in Elements(l)
  BY DEF Elements
<1>2. l \in Seq(Elements(l))
  BY <1>1
<1>3. \A x \in Elements(l) : x \in X
  BY <1>1 DEF Elements
<1>. QED
  BY <1>2, <1>3 DEF AreObjectsOf

LEMMA NoObjects ==
  ASSUME NEW es
  PROVE  AreObjectsOf(es, <<>>)
BY DEF AreObjectsOf, Elements

LEMMA OneObject ==
  ASSUME NEW es, NEW obj, IsObjectOf(es, obj)
  PROVE  AreObjectsOf(es, <<obj>>)
<1> DEFINE X == {obj}
<1>1. <<obj>> \in Seq(X)
  OBVIOUS
<1>2. \A x \in X : IsObjectOf(es, x)
  OBVIOUS
<1>. HIDE DEF X
<1>. QED
  BY <1>1, <1>2, ObjectsFrom

LEMMA AppendObject ==
  ASSUME NEW es, NEW l, AreObjectsOf(es, l), NEW obj, IsObjectOf(es, obj)
  PROVE  /\ AreObjectsOf(es, Append(l, obj))
         /\ IsObjectOf(es, Head(Append(l, obj)))
         /\ AreObjectsOf(es, Tail(Append(l, obj)))
<1> DEFINE X == Elements(l) \cup {obj}
           a == Append(l, obj)
<1>1. \A x \in X : IsObjectOf(es, x)
  BY DEF AreObjectsOf
<1>2. l \in Seq(Elements(l))
  BY DEF AreObjectsOf
<1>. HIDE DEF X
<1>2a. l \in Seq(X) /\ obj \in X
  BY <1>2 DEF X
<1>2b. a \in Seq(X) /\ Len(a) = Len(l) + 1 /\ Len(l) \in Nat
  BY <1>2a
<1>. HIDE DEF a
<1>2c. a # <<>>
  BY <1>2b
<1>3. a \in Seq(X) /\ Head(a) \in X /\ Tail(a) \in Seq(X)
  BY <1>2b, <1>2c
<1>4. AreObjectsOf(es, a)
  BY <1>1, <1>3, ObjectsFrom
<1>5. AreObjectsOf(es, Tail(a))
  BY <1>1, <1>3, ObjectsFrom
<1>. QED
  BY <1>1, <1>3, <1>4, <1>5 DEF a

LEMMA ReplaceObject ==
  ASSUME NEW es, NEW l, AreObjectsOf(es, l), l # <<>>, NEW obj, IsObjectOf(es, obj)
  PROVE  /\ AreObjectsOf(es, <<obj>> \o Tail(l))
         /\ IsObjectOf(es, Head(l))
<1> DEFINE X == Elements(l) \cup {obj}
<1>1. \A x \in X : IsObjectOf(es, x)
  BY DEF AreObjectsOf
<1>2. l \in Seq(Elements(l))
  BY DEF AreObjectsOf
<1>. HIDE DEF X
<1>3. l \in Seq(X) /\ obj \in X
  BY <1>2 DEF X
<1>4. <<obj>> \o Tail(l) \in Seq(X) /\ Head(l) \in X
  BY <1>3
<1>. QED
  BY <1>1, <1>4, ObjectsFrom

LEMMA RotateObjects ==
  ASSUME NEW es, NEW l, AreObjectsOf(es, l), NEW t, B!RotationOf(l, t)
  PROVE  AreObjectsOf(es, t)
<1>1. PICK r \in 0 .. Len(l) : t = SubSeq(l, r + 1, Len(l)) \o SubSeq(l, 1, r)
  BY DEF B!RotationOf, B!Rotate
<1> DEFINE X == Elements(l)
<1>2. l \in Seq(X) /\ \A x \in X : IsObjectOf(es, x)
  BY DEF AreObjectsOf
<1>. HIDE DEF X
<1>3. SubSeq(l, r + 1, Len(l)) \in Seq(X) /\ SubSeq(l, 1, r) \in Seq(X)
  BY <1>2
<1>4. t \in Seq(X)
  BY <1>1, <1>3
<1>. QED
  BY <1>2, <1>4, ObjectsFrom

-----------------------------------------------------------------------------
(* What is an object stays one when the heap grows. *)
Grown(es, fs) == IsChain(es) /\ IsChain(fs) /\ HeapGrows(es, fs)

LEMMA ObjectStays ==
  ASSUME NEW es, NEW fs, Grown(es, fs), NEW obj, IsObjectOf(es, obj)
  PROVE  IsObjectOf(fs, obj)
<1>1. CASE obj.type # "function"
  BY <1>1 DEF IsObjectOf
<1>2. CASE obj.type = "function"
  <2>1. IsClosure(es, obj.f)
    BY <1>2 DEF IsObjectOf
  <2>2. obj.f.closure \in 1 .. Len(es)
    BY <2>1 DEF IsClosure, IsEnvironmentOf
  <2>3. Depth(fs, obj.f.closure) = Depth(es, obj.f.closure)
    BY <2>2, DepthGrows DEF Grown
  <2>4. obj.f.closure \in 1 .. Len(fs)
    BY <2>2 DEF Grown, HeapGrows, IsChain
  <2>5. IsClosure(fs, obj.f)
    BY <2>1, <2>3, <2>4 DEF IsClosure, IsEnvironmentOf
  <2>. QED
    BY <1>2, <2>5 DEF IsObjectOf
<1>. QED
  BY <1>1, <1>2

LEMMA ObjectsStay ==
  ASSUME NEW es, NEW fs, Grown(es, fs), NEW l, AreObjectsOf(es, l)
  PROVE  AreObjectsOf(fs, l)
BY ObjectStays DEF AreObjectsOf

-----------------------------------------------------------------------------
(* Tables. *)
LEMMA BindingsFrom ==
  ASSUME NEW es, NEW Y, NEW b \in [Names -> Y], \A name \in Names : AreObjectsOf(es, b[name])
  PROVE  AreBindingsOf(es, b)
BY DEF AreBindingsOf

LEMMA NoBindingsAreObjects ==
  ASSUME NEW es
  PROVE  AreBindingsOf(es, B!NoBindings)
<1>1. B!NoBindings \in [Names -> {<<>>}]
  BY DEF B!NoBindings
<1>2. \A name \in Names : B!NoBindings[name] = <<>>
  BY DEF B!NoBindings
<1>3. \A name \in Names : AreObjectsOf(es, B!NoBindings[name])
  BY <1>2, NoObjects
<1>. QED
  BY <1>1, <1>3, BindingsFrom

LEMMA BindKeepsObjects ==
  ASSUME NEW es, NEW b, AreBindingsOf(es, b), NEW name, NEW obj, IsObjectOf(es, obj)
  PROVE  AreBindingsOf(es, B!Bind(b, name, obj))
<1> DEFINE c == B!Bind(b, name, obj)
<1>1. c = [b EXCEPT ![name] = Append(b[name], obj)]
  BY DEF B!Bind
<1>2. b \in [Names -> {b[m] : m \in Names}]
  BY DEF AreBindingsOf
<1>. HIDE DEF c
<1>3. c \in [Names -> {b[m] : m \in Names} \cup {Append(b[name], obj)}]
  BY <1>1, <1>2
<1>4. ASSUME NEW m \in Names PROVE AreObjectsOf(es, c[m])
  <2>1. AreObjectsOf(es, b[m])
    BY DEF AreBindingsOf
  <2>2. AreObjectsOf(es, Append(b[m], obj))
    BY <2>1, AppendObject
  <2>3. c[m] = b[m] \/ c[m] = Append(b[m], obj)
    BY <1>1, <1>2
  <2>. QED
    BY <2>1, <2>2, <2>3
<1>5. AreBindingsOf(es, c)
  BY <1>3, <1>4, BindingsFrom
<1>. QED
  BY <1>5 DEF c

LEMMA ReplaceKeepsObjects ==
  ASSUME NEW es, NEW b, AreBindingsOf(es, b), NEW name \in Names, b[name] # <<>>,
         NEW obj, IsObjectOf(es, obj)
  PROVE  AreBindingsOf(es, B!ReplaceFirst(b, name, obj))
<1> DEFINE c == B!ReplaceFirst(b, name, obj)
           r == <<obj>> \o Tail(b[name])
<1>1. c = [b EXCEPT ![name] = r]
  BY DEF B!ReplaceFirst
<1>2. b \in [Names -> {b[m] : m \in Names}]
  BY DEF AreBindingsOf
<1>2a. AreObjectsOf(es, r)
  BY ReplaceObject DEF AreBindingsOf
<1>. HIDE DEF c, r
<1>3. c \in [Names -> {b[m] : m \in Names} \cup {r}]
  BY <1>1, <1>2
<1>4. ASSUME NEW m \in Names PROVE AreObjectsOf(es, c[m])
  <2>1. AreObjectsOf(es, b[m])
    BY DEF AreBindingsOf
  <2>3. c[m] = b[m] \/ c[m] = r
    BY <1>1, <1>2
  <2>. QED
    BY <2>1, <2>3, <1>2a
<1>5. AreBindingsOf(es, c)
  BY <1>3, <1>4, BindingsFrom
<1>. QED
  BY <1>5 DEF c

LEMMA RehashKeepsObjects ==
  ASSUME NEW es, NEW b, AreBindingsOf(es, b), NEW c \in B!Rehashed(b)
  PROVE  AreBindingsOf(es, c)
<1>1. PICK Y : c \in [Names -> Y] /\ \A k \in Names : B!RotationOf(b[k], c[k])
  BY DEF B!Rehashed
<1>2. ASSUME NEW k \in Names PROVE AreObjectsOf(es, c[k])
  <2>1. AreObjectsOf(es, b[k])
    BY DEF AreBindingsOf
  <2>. QED
    BY <1>1, <2>1, RotateObjects
<1>. QED
  BY <1>1, <1>2, BindingsFrom

LEMMA InsertKeepsObjects ==
  ASSUME NEW es, NEW table, AreBindingsOf(es, table.bindings), NEW name, NEW obj,
         IsObjectOf(es, obj), NEW t \in hash_table_insert(table, name, obj)
  PROVE  AreBindingsOf(es, t.bindings)
<1>1. CASE NeedsRehash(table)
  <2>1. PICK b \in B!Rehashed(table.bindings) : t.bindings = B!Bind(b, name, obj)
    BY <1>1 DEF hash_table_insert
  <2>2. AreBindingsOf(es, b)
    BY <2>1, RehashKeepsObjects
  <2>. QED
    BY <2>1, <2>2, BindKeepsObjects
<1>2. CASE ~NeedsRehash(table)
  <2>1. t.bindings = B!Bind(table.bindings, name, obj)
    BY <1>2 DEF hash_table_insert
  <2>. QED
    BY <2>1, BindKeepsObjects
<1>. QED
  BY <1>1, <1>2

-----------------------------------------------------------------------------
(* The heap. *)
LEMMA SequenceOfElements ==
  ASSUME NEW X, NEW l \in Seq(X)
  PROVE  l \in Seq(Elements(l))
<1>1. \A n \in 1 .. Len(l) : l[n] \in Elements(l)
  BY DEF Elements
<1>. QED
  BY <1>1

(* One environment gets another table. *)
SameScopes(es, fs) ==
  Len(fs) = Len(es) /\ \A e \in 1 .. Len(es) : fs[e].enclosing = es[e].enclosing

LEMMA SameScopesGrow ==
  ASSUME NEW es, NEW fs, IsChain(es), SameScopes(es, fs)
  PROVE  Grown(es, fs)
<1>1. Len(fs) = Len(es) /\ Len(es) \in Nat
  BY DEF SameScopes, IsChain
<1>2. \A e \in 1 .. Len(es) : fs[e].enclosing = es[e].enclosing
  BY DEF SameScopes
<1>3. \A e \in 1 .. Len(es) : es[e].enclosing \in 0 .. e - 1
  BY DEF IsChain
<1>4. \A e \in 1 .. Len(fs) : fs[e].enclosing \in 0 .. e - 1
  BY <1>1, <1>2, <1>3
<1>5. IsChain(fs)
  BY <1>1, <1>4 DEF IsChain
<1>6. HeapGrows(es, fs)
  BY <1>1, <1>2 DEF HeapGrows
<1>. QED
  BY <1>5, <1>6 DEF Grown

With(es, e, table) == [es EXCEPT ![e] = [enclosing |-> es[e].enclosing, values |-> table]]

LEMMA TableChanges ==
  ASSUME NEW es, IsHeap(es), NEW e \in 1 .. Len(es), NEW table, AreBindingsOf(es, table.bindings)
  PROVE  IsHeap(With(es, e, table)) /\ SameScopes(es, With(es, e, table))
<1> DEFINE fs == With(es, e, table)
           env == [enclosing |-> es[e].enclosing, values |-> table]
<1>1. es \in Seq(Elements(es)) /\ IsChain(es)
  BY DEF IsHeap
<1>2. env.enclosing = es[e].enclosing /\ env.values = table
  OBVIOUS
<1>3. fs = [es EXCEPT ![e] = env]
  BY DEF With
<1>. HIDE DEF fs, env
<1>4. fs \in Seq(Elements(es) \cup {env}) /\ Len(fs) = Len(es)
  BY <1>1, <1>3
<1>5. \A k \in 1 .. Len(es) : fs[k] = IF k = e THEN env ELSE es[k]
  BY <1>1, <1>3
<1>6. SameScopes(es, fs)
  BY <1>2, <1>4, <1>5 DEF SameScopes
<1>7. Grown(es, fs)
  BY <1>1, <1>6, SameScopesGrow
<1>8. ASSUME NEW k \in 1 .. Len(fs) PROVE AreBindingsOf(fs, fs[k].values.bindings)
  <2>1. k \in 1 .. Len(es)
    BY <1>4
  <2>2. AreBindingsOf(es, es[k].values.bindings)
    BY <2>1 DEF IsHeap
  <2>3. AreBindingsOf(es, fs[k].values.bindings)
    BY <2>1, <2>2, <1>5, <1>2
  <2>. QED
    BY <2>3, <1>7, ObjectsStay DEF AreBindingsOf
<1>9. fs \in Seq(Elements(fs))
  BY <1>4, SequenceOfElements
<1>10. IsHeap(fs)
  BY <1>7, <1>8, <1>9 DEF IsHeap, Grown
<1>. QED
  BY <1>6, <1>10 DEF fs

LEMMA DefineKeepsHeap ==
  ASSUME NEW es, IsHeap(es), NEW e \in 1 .. Len(es), NEW name, NEW obj, IsObjectOf(es, obj),
         NEW fs \in environment_define(es, e, name, obj)
  PROVE  IsHeap(fs) /\ SameScopes(es, fs)
<1>1. PICK t \in hash_table_insert(es[e].values, name, obj) : fs = With(es, e, t)
  BY DEF environment_define, With
<1>2. AreBindingsOf(es, es[e].values.bindings)
  BY DEF IsHeap
<1>3. AreBindingsOf(es, t.bindings)
  BY <1>1, <1>2, InsertKeepsObjects
<1>. QED
  BY <1>1, <1>3, TableChanges

LEMMA GetIsObject ==
  ASSUME NEW es, IsHeap(es), NEW e \in 1 .. Len(es), NEW name \in Names,
         Holder(es, e, name) # 0
  PROVE  IsObjectOf(es, environment_get(es, e, name))
<1> DEFINE h == Holder(es, e, name)
<1>1. IsChain(es) /\ e \in 0 .. Len(es)
  BY DEF IsHeap, IsChain
<1>2. h \in 0 .. Len(es) /\ B!IsBound(es[h].values.bindings, name)
  BY <1>1, HolderBinds
<1>. HIDE DEF h
<1>3. h \in 1 .. Len(es) /\ es[h].values.bindings[name] # <<>>
  BY <1>2 DEF B!IsBound, h
<1>4. AreObjectsOf(es, es[h].values.bindings[name])
  BY <1>3 DEF IsHeap, AreBindingsOf
<1>5. environment_get(es, e, name) = Head(es[h].values.bindings[name])
  BY DEF environment_get, B!FirstValue, h
<1>6. IsObjectOf(es, OBJECT_NULL)
  BY DEF IsObjectOf, OBJECT_NULL
<1>7. IsObjectOf(es, Head(es[h].values.bindings[name]))
  BY <1>3, <1>4, <1>6, ReplaceObject
<1>. QED
  BY <1>5, <1>7

LEMMA AssignKeepsHeap ==
  ASSUME NEW es, IsHeap(es), NEW e \in 1 .. Len(es), NEW name \in Names,
         Holder(es, e, name) # 0, NEW obj, IsObjectOf(es, obj)
  PROVE  /\ IsHeap(environment_assign(es, e, name, obj))
         /\ SameScopes(es, environment_assign(es, e, name, obj))
<1> DEFINE h == Holder(es, e, name)
           old == es[h].values
           t == [len |-> old.len, cap |-> old.cap,
                 bindings |-> B!ReplaceFirst(old.bindings, name, obj)]
<1>1. IsChain(es) /\ e \in 0 .. Len(es)
  BY DEF IsHeap, IsChain
<1>2. h \in 0 .. Len(es) /\ B!IsBound(es[h].values.bindings, name)
  BY <1>1, HolderBinds
<1>3. environment_assign(es, e, name, obj) = With(es, h, t)
  BY DEF environment_assign, With
<1>3a. t.bindings = B!ReplaceFirst(old.bindings, name, obj)
  OBVIOUS
<1>. HIDE DEF h, t
<1>4. h \in 1 .. Len(es) /\ old.bindings[name] # <<>>
  BY <1>2 DEF B!IsBound, h
<1>5. AreBindingsOf(es, old.bindings)
  BY <1>4 DEF IsHeap
<1>6. AreBindingsOf(es, t.bindings)
  BY <1>3a, <1>4, <1>5, ReplaceKeepsObjects
<1>. QED
  BY <1>3, <1>4, <1>6, TableChanges

(* A scope is opened. *)
LEMMA OpenKeepsHeap ==
  ASSUME NEW es, IsHeap(es), NEW e \in 1 .. Len(es)
  PROVE  LET fs == Append(es, environment_new_enclosed(e))
         IN  /\ IsHeap(fs)
             /\ Grown(es, fs)
             /\ Len(fs) = Len(es) + 1
             /\ Depth(fs, Len(es) + 1) = Depth(es, e) + 1
<1> DEFINE env == environment_new_enclosed(e)
           fs == Append(es, env)
<1>1. es \in Seq(Elements(es)) /\ IsChain(es)
  BY DEF IsHeap
<1>2. env.enclosing = e /\ env.values.bindings = B!NoBindings
  BY DEF environment_new_enclosed, hash_table_new
<1>. HIDE DEF env
<1>3. /\ fs \in Seq(Elements(es) \cup {env})
      /\ Len(fs) = Len(es) + 1
      /\ fs[Len(es) + 1] = env
      /\ \A k \in 1 .. Len(es) : fs[k] = es[k]
  BY <1>1
<1>. HIDE DEF fs
<1>3a. \A k \in 1 .. Len(fs) : k # Len(es) + 1 => k \in 1 .. Len(es)
  <2>1. Len(es) \in Nat /\ Len(fs) = Len(es) + 1
    BY <1>1, <1>3 DEF IsChain
  <2>. QED
    BY <2>1
<1>4. HeapGrows(es, fs)
  BY <1>1, <1>3 DEF HeapGrows, IsChain
<1>5. IsChain(fs)
  <2>1. ASSUME NEW k \in 1 .. Len(fs) PROVE fs[k].enclosing \in 0 .. k - 1
    <3>1. CASE k = Len(es) + 1
      BY <1>1, <1>2, <1>3, <3>1 DEF IsChain
    <3>2. CASE k # Len(es) + 1
      <4>1. k \in 1 .. Len(es)
        BY <3>2, <1>3a
      <4>. QED
        BY <4>1, <1>1, <1>3 DEF IsChain
    <3>. QED
      BY <3>1, <3>2
  <2>. QED
    BY <2>1, <1>1, <1>3 DEF IsChain
<1>6. Grown(es, fs)
  BY <1>1, <1>4, <1>5 DEF Grown
<1>7. ASSUME NEW k \in 1 .. Len(fs) PROVE AreBindingsOf(fs, fs[k].values.bindings)
  <2>1. CASE k = Len(es) + 1
    BY <1>2, <1>3, <2>1, NoBindingsAreObjects
  <2>2. CASE k # Len(es) + 1
    <3>1. k \in 1 .. Len(es)
      BY <2>2, <1>3a
    <3>2. AreBindingsOf(es, fs[k].values.bindings)
      BY <3>1, <1>3 DEF IsHeap
    <3>. QED
      BY <3>2, <1>6, ObjectsStay DEF AreBindingsOf
  <2>. QED
    BY <2>1, <2>2
<1>8. fs \in Seq(Elements(fs))
  BY <1>3, SequenceOfElements
<1>9. IsHeap(fs)
  BY <1>5, <1>7, <1>8 DEF IsHeap
<1>10. Depth(fs, Len(es) + 1) = Depth(es, e) + 1
  <2>1. Len(es) + 1 \in 1 .. Len(fs) /\ fs[Len(es) + 1].enclosing = e /\ e # 0
    BY <1>1, <1>2, <1>3 DEF IsChain
  <2>2. Depth(fs, Len(es) + 1) = Depth(fs, e) + 1
    BY <1>5, <2>1, DepthOf
  <2>3. Depth(fs, e) = Depth(es, e)
    BY <1>6, DepthGrows DEF Grown
  <2>. QED
    BY <2>2, <2>3
<1>. QED
  BY <1>3, <1>6, <1>9, <1>10 DEF fs, env

(* The parameters of a call are defined one after the other. *)
IsDefined(es, e, params, arguments, m, f) ==
  f = [n \in 0 .. m |->
         IF n = 0 THEN {es}
         ELSE UNION {environment_define(d, e, params[n], arguments[n]) : d \in f[n - 1]}]

LEMMA DefinedExists ==
  ASSUME NEW es, NEW e, NEW params, NEW arguments, NEW L \in Nat
  PROVE  \A m \in 0 .. L : \E f : IsDefined(es, e, params, arguments, m, f)
<1> DEFINE Good(m) == \E f : IsDefined(es, e, params, arguments, m, f)
           T == {m \in 0 .. L : ~Good(m)}
           After(heaps, n) == UNION {environment_define(d, e, params[n], arguments[n]) : d \in heaps}
<1>1. ASSUME T # {} PROVE FALSE
  <2>1. T \subseteq Nat
    OBVIOUS
  <2>2. PICK m \in T : \A k \in T : m <= k
     <3>. HIDE DEF T
     <3>. QED
       BY <2>1, <1>1, Least
  <2>3. m \in 0 .. L /\ ~Good(m)
    BY <2>2
  <2>4. CASE m = 0
    <3> DEFINE f == [n \in 0 .. 0 |-> {es}]
    <3>1. f = [n \in 0 .. 0 |-> IF n = 0 THEN {es} ELSE After(f[n - 1], n)]
      <4>. HIDE DEF After
      <4>. QED
        OBVIOUS
    <3>. HIDE DEF f
    <3>3. Good(0)
      BY <3>1 DEF IsDefined
    <3>. QED
      BY <2>3, <2>4, <3>3
  <2>5. CASE m # 0
    <3>1. m - 1 \in 0 .. L /\ ~(m <= m - 1)
      BY <2>5, <2>3
    <3>1a. m - 1 \notin T
      BY <2>2, <3>1
    <3>2. PICK g : IsDefined(es, e, params, arguments, m - 1, g)
      BY <3>1, <3>1a
    <3> DEFINE f == [n \in 0 .. m |-> IF n = m THEN After(g[m - 1], m) ELSE g[n]]
    <3>4a. ASSUME NEW n \in 0 .. m - 1 PROVE g[n] = IF n = 0 THEN {es} ELSE After(g[n - 1], n)
      BY <3>2 DEF IsDefined
    <3>. HIDE DEF After
    <3>4. \A n \in 0 .. m - 1 : f[n] = g[n]
      BY <2>3
    <3>5. f = [n \in 0 .. m |-> f[n]]
      OBVIOUS
    <3>6. \A n \in 0 .. m : f[n] = IF n = 0 THEN {es} ELSE After(f[n - 1], n)
      <4>1. f[m] = After(f[m - 1], m)
        <5>1. m \in 0 .. m /\ m - 1 \in 0 .. m - 1
          BY <2>3, <2>5
        <5>2. f[m] = After(g[m - 1], m)
          BY <5>1
        <5>. QED
          BY <3>4, <5>1, <5>2
      <4>. HIDE DEF f
      <4>2. ASSUME NEW n \in 0 .. m - 1 PROVE f[n] = IF n = 0 THEN {es} ELSE After(f[n - 1], n)
        <5>1. n # 0 => n - 1 \in 0 .. m - 1
          BY <2>3
        <5>. QED
          BY <3>4, <3>4a, <5>1
      <4>. QED
        BY <4>1, <4>2, <2>5, <2>3
    <3>. HIDE DEF f
    <3>7. f = [n \in 0 .. m |-> IF n = 0 THEN {es} ELSE After(f[n - 1], n)]
      BY <3>6, <3>5
    <3>8. IsDefined(es, e, params, arguments, m, f)
      BY <3>7 DEF IsDefined, After
    <3>. QED
      BY <3>8, <2>3
  <2>. QED
    BY <2>4, <2>5
<1>. QED
  BY <1>1

LEMMA ParametersKeepHeap ==
  ASSUME NEW es, IsHeap(es), NEW e \in 1 .. Len(es), NEW params, NEW arguments,
         Len(params) \in Nat, Len(arguments) = Len(params), AreObjectsOf(es, arguments),
         NEW fs \in WithParameters(es, e, params, arguments)
  PROVE  IsHeap(fs) /\ SameScopes(es, fs)
<1> DEFINE Kept(d) == IsHeap(d) /\ SameScopes(es, d)
           C == CHOOSE f : IsDefined(es, e, params, arguments, Len(params), f)
           After(heaps, n) == UNION {environment_define(d, e, params[n], arguments[n]) : d \in heaps}
           T == {n \in 0 .. Len(params) : \E d \in C[n] : ~Kept(d)}
<1>1. WithParameters(es, e, params, arguments) = C[Len(params)]
  BY DEF WithParameters, IsDefined
<1>2. Len(params) \in 0 .. Len(params)
  OBVIOUS
<1>3. IsDefined(es, e, params, arguments, Len(params), C)
  BY <1>2, DefinedExists
<1>. HIDE DEF C
<1>3a. \A n \in 0 .. Len(params) : C[n] = IF n = 0 THEN {es} ELSE After(C[n - 1], n)
  BY <1>3 DEF IsDefined
<1>4. C[0] = {es}
  BY <1>3 DEF IsDefined
<1>5. ASSUME NEW n \in 1 .. Len(params), NEW d \in C[n]
      PROVE  \E c \in C[n - 1] : d \in environment_define(c, e, params[n], arguments[n])
  <2>1. C[n] = After(C[n - 1], n)
    <3>. HIDE DEF After
    <3>. QED
      BY <1>3a
  <2>. QED
    BY <2>1
<1>6. Kept(es)
  BY DEF SameScopes
<1>7. ASSUME NEW n \in 1 .. Len(params), NEW c, Kept(c),
             NEW d \in environment_define(c, e, params[n], arguments[n])
      PROVE  Kept(d)
  <2>1. IsObjectOf(es, arguments[n])
    BY DEF AreObjectsOf, Elements
  <2>2. Grown(es, c)
    BY <1>7, SameScopesGrow DEF IsHeap
  <2>3. IsObjectOf(c, arguments[n])
    BY <2>1, <2>2, ObjectStays
  <2>4. e \in 1 .. Len(c)
    BY <1>7 DEF SameScopes
  <2>5. IsHeap(d) /\ SameScopes(c, d)
    BY <1>7, <2>3, <2>4, DefineKeepsHeap
  <2>. QED
    BY <1>7, <2>5 DEF SameScopes
<1>. HIDE DEF Kept
<1>8. ASSUME T # {} PROVE FALSE
  <2>1. T \subseteq Nat
    OBVIOUS
  <2>2. PICK m \in T : \A k \in T : m <= k
     <3>. HIDE DEF T
     <3>. QED
       BY <2>1, <1>8, Least
  <2>3. PICK d \in C[m] : m \in 0 .. Len(params) /\ ~Kept(d)
    BY <2>2
  <2>4. m # 0
    BY <2>3, <1>4, <1>6
  <2>5. m \in 1 .. Len(params)
    BY <2>3, <2>4
  <2>6. PICK c \in C[m - 1] : d \in environment_define(c, e, params[m], arguments[m])
    BY <1>5, <2>3, <2>5
  <2>7. m - 1 \in 0 .. Len(params) /\ ~(m <= m - 1)
    BY <2>5
  <2>8. m - 1 \notin T
    BY <2>2, <2>7
  <2>9. Kept(c)
    BY <2>6, <2>7, <2>8
  <2>. QED
    BY <1>7, <2>3, <2>5, <2>6, <2>9
<1>9. Kept(fs)
  BY <1>1, <1>2, <1>8
<1>. QED
  BY <1>9 DEF Kept

-----------------------------------------------------------------------------
(* Frames and stacks. *)
LEMMA FrameStays ==
  ASSUME NEW es, NEW fs, Grown(es, fs), NEW f, IsFrame(es, f)
  PROVE  IsFrame(fs, f)
<1>1. f.environment \in 1 .. Len(es)
  BY DEF IsFrame, IsEnvironmentOf
<1>2. Depth(fs, f.environment) = Depth(es, f.environment)
  BY <1>1, DepthGrows DEF Grown
<1>3. \A e : IsEnvironmentOf(es, e) => IsEnvironmentOf(fs, e)
  BY DEF IsEnvironmentOf, Grown, HeapGrows, IsChain
<1>4. AreObjectsOf(fs, f.objects)
  BY ObjectsStay DEF IsFrame
<1>. QED
  BY <1>2, <1>3, <1>4 DEF IsFrame

LEMMA StackStays ==
  ASSUME NEW es, NEW fs, Grown(es, fs), NEW frames, IsStack(es, frames)
  PROVE  IsStack(fs, frames)
BY FrameStays DEF IsStack

LEMMA PushStack ==
  ASSUME NEW es, NEW S, NEW frames \in Seq(S), IsStack(es, frames), NEW f, IsFrame(es, f),
         Expects(f.fn, FnOf(frames)), frames = <<>> => f.fn = "interpret"
  PROVE  IsStack(es, <<f>> \o frames) /\ FnOf(<<f>> \o frames) = f.fn
<1> DEFINE pushed == <<f>> \o frames
<1>1. /\ Len(pushed) = Len(frames) + 1
      /\ Len(frames) \in Nat
      /\ pushed[1] = f
      /\ Head(pushed) = f
      /\ pushed # <<>>
      /\ \A n \in 1 .. Len(frames) : pushed[n + 1] = frames[n]
      /\ frames = <<>> <=> Len(frames) = 0
      /\ frames # <<>> => Head(frames) = frames[1]
  OBVIOUS
<1>. HIDE DEF pushed
<1>2. ASSUME NEW n \in 1 .. Len(pushed)
      PROVE  /\ IsFrame(es, pushed[n])
             /\ n < Len(pushed) => Expects(pushed[n].fn, pushed[n + 1].fn)
             /\ n = Len(pushed) => pushed[n].fn = "interpret"
  <2>1. CASE n = 1
    <3>1. n < Len(pushed) => frames # <<>> /\ pushed[n + 1] = frames[1]
      BY <1>1, <2>1
    <3>2. n = Len(pushed) => frames = <<>>
      BY <1>1, <2>1
    <3>. QED
      BY <1>1, <2>1, <3>1, <3>2 DEF FnOf
  <2>2. CASE n # 1
    <3> DEFINE k == n - 1
    <3>1. k \in 1 .. Len(frames) /\ k + 1 = n
      BY <1>1, <2>2
    <3>2. /\ n < Len(pushed) => k < Len(frames) /\ n \in 1 .. Len(frames)
          /\ n = Len(pushed) => k = Len(frames)
      BY <1>1, <2>2
    <3>3. pushed[n] = frames[k] /\ (n < Len(pushed) => pushed[n + 1] = frames[k + 1])
      BY <1>1, <3>1, <3>2
    <3>. HIDE DEF k
    <3>. QED
      BY <3>1, <3>2, <3>3 DEF IsStack
  <2>. QED
    BY <2>1, <2>2
<1>3. IsStack(es, pushed)
  BY <1>2 DEF IsStack
<1>4. FnOf(pushed) = f.fn
  BY <1>1 DEF FnOf
<1>. QED
  BY <1>3, <1>4 DEF pushed

LEMMA PopStack ==
  ASSUME NEW es, NEW S, NEW frames \in Seq(S), IsStack(es, frames), frames # <<>>
  PROVE  /\ Tail(frames) \in Seq(S)
         /\ IsFrame(es, Head(frames))
         /\ IsStack(es, Tail(frames))
         /\ \/ Tail(frames) = <<>> /\ Head(frames).fn = "interpret"
            \/ Tail(frames) # <<>> /\ Expects(Head(frames).fn, FnOf(Tail(frames)))
<1> DEFINE rest == Tail(frames)
<1>1. /\ rest \in Seq(S)
      /\ Len(rest) = Len(frames) - 1
      /\ Len(frames) \in Nat
      /\ Len(frames) >= 1
      /\ Head(frames) = frames[1]
      /\ \A n \in 1 .. Len(rest) : rest[n] = frames[n + 1]
  OBVIOUS
<1>. HIDE DEF rest
<1>2. /\ rest = <<>> <=> Len(rest) = 0
      /\ rest # <<>> => Head(rest) = rest[1]
  BY <1>1
<1>3. ASSUME NEW n \in 1 .. Len(rest)
      PROVE  /\ IsFrame(es, rest[n])
             /\ n < Len(rest) => Expects(rest[n].fn, rest[n + 1].fn)
             /\ n = Len(rest) => rest[n].fn = "interpret"
  <2> DEFINE k == n + 1
  <2>1. /\ k \in 1 .. Len(frames)
        /\ n < Len(rest) => k < Len(frames) /\ k \in 1 .. Len(rest)
        /\ n = Len(rest) => k = Len(frames)
    BY <1>1
  <2>2. rest[n] = frames[k] /\ (n < Len(rest) => rest[n + 1] = frames[k + 1])
    BY <1>1, <2>1
  <2>. HIDE DEF k
  <2>. QED
    BY <2>1, <2>2 DEF IsStack
<1>4. IsStack(es, rest)
  BY <1>3 DEF IsStack
<1>5. /\ IsFrame(es, frames[1])
      /\ 1 < Len(frames) => Expects(frames[1].fn, frames[1 + 1].fn)
      /\ 1 = Len(frames) => frames[1].fn = "interpret"
  BY <1>1 DEF IsStack
<1>6. rest # <<>> => 1 < Len(frames) /\ frames[1 + 1] = Head(rest)
  BY <1>1, <1>2
<1>7. rest = <<>> => 1 = Len(frames)
  BY <1>1, <1>2
<1>8. \/ rest = <<>> /\ Head(frames).fn = "interpret"
      \/ rest # <<>> /\ Expects(Head(frames).fn, FnOf(rest))
  BY <1>1, <1>5, <1>6, <1>7 DEF FnOf
<1>. QED
  BY <1>1, <1>4, <1>5, <1>8 DEF rest

-----------------------------------------------------------------------------
(* What the innermost call may be doing when the function fn waits for it. *)
Fits(es, e, fn, c) == IsControl(es, e, c) /\ IsAwaited(c.tag, fn)

LEMMA ExprFits ==
  ASSUME NEW es, NEW e, NEW fn \in AwaitsExpr
  PROVE  /\ \A x \in Expressions : Fits(es, e, fn, Evaluate(x))
         /\ \A obj : IsObjectOf(es, obj) => Fits(es, e, fn, INTERPRET_OK(obj))
         /\ \A err : Fits(es, e, fn, INTERPRET_ERROR(err))
         /\ \A callee, arguments : IsObjectOf(es, callee) /\ AreObjectsOf(es, arguments) =>
              Fits(es, e, fn, Call(callee, arguments))
<1>. USE DEF Fits, IsControl, IsAwaited, ExprTags, StmtTags
<1>1. \A x \in Expressions : Fits(es, e, fn, Evaluate(x))
  BY DEF Evaluate
<1>2. \A obj : IsObjectOf(es, obj) => Fits(es, e, fn, INTERPRET_OK(obj))
  BY DEF INTERPRET_OK, Success
<1>3. \A err : Fits(es, e, fn, INTERPRET_ERROR(err))
  BY DEF INTERPRET_ERROR, Failure
<1>4. \A callee, arguments : IsObjectOf(es, callee) /\ AreObjectsOf(es, arguments) =>
              Fits(es, e, fn, Call(callee, arguments))
  BY DEF Call
<1>. QED
  BY <1>1, <1>2, <1>3, <1>4

LEMMA StmtFits ==
  ASSUME NEW es, NEW e, NEW fn \in AwaitsStmt
  PROVE  /\ \A s : IsBranch(s, Depth(es, e)) => Fits(es, e, fn, Execute(s))
         /\ Fits(es, e, fn, EXECUTION_RESULT_NONE)
         /\ \A err : Fits(es, e, fn, EXECUTION_RESULT_RUNTIME_ERROR(err))
         /\ \A obj : IsObjectOf(es, obj) => Fits(es, e, fn, EXECUTION_RESULT_RETURN(obj))
<1>. USE DEF Fits, IsControl, IsAwaited, ExprTags, StmtTags
<1>1. \A s : IsBranch(s, Depth(es, e)) => Fits(es, e, fn, Execute(s))
  BY DEF Execute
<1>2. Fits(es, e, fn, EXECUTION_RESULT_NONE)
  BY DEF EXECUTION_RESULT_NONE
<1>3. \A err : Fits(es, e, fn, EXECUTION_RESULT_RUNTIME_ERROR(err))
  BY DEF EXECUTION_RESULT_RUNTIME_ERROR
<1>4. \A obj : IsObjectOf(es, obj) => Fits(es, e, fn, EXECUTION_RESULT_RETURN(obj))
  BY DEF EXECUTION_RESULT_RETURN
<1>. QED
  BY <1>1, <1>2, <1>3, <1>4

LEMMA AbortFits ==
  ASSUME NEW es, NEW e, NEW fn
  PROVE  Fits(es, e, fn, Idle) /\ \A m : Fits(es, e, fn, Abort(m))
BY DEF Fits, IsControl, IsAwaited, ExprTags, StmtTags, Idle, Abort

(* A result that is passed on, in a heap that may have grown. *)
LEMMA ResultFits ==
  ASSUME NEW es, NEW fs, Grown(es, fs), NEW e, NEW d, NEW c, IsControl(es, e, c), NEW fn,
         \/ c.tag \in {"ok", "error"} /\ fn \in AwaitsExpr
         \/ c.tag \in {"none", "runtime_error", "return"} /\ fn \in AwaitsStmt
  PROVE  Fits(fs, d, fn, c)
BY ObjectStays DEF Fits, IsControl, IsAwaited, ExprTags, StmtTags

-----------------------------------------------------------------------------
(* The frames a visitor makes. *)
LEMMA FrameFields ==
  ASSUME NEW fn, NEW node, NEW objects
  PROVE  LET f == Frame(fn, node, objects)
         IN  f.fn = fn /\ f.node = node /\ f.objects = objects /\ f.environment = environment /\ f.i = 0
BY DEF Frame

LEMMA ExprFrame ==
  ASSUME IsEnvironmentOf(envs, environment),
         NEW fn \in {"assign", "binary_left", "binary_right", "logical", "unary", "call"},
         NEW node \in Expressions, node.type = NodeOf(fn),
         NEW objects, AreObjectsOf(envs, objects), fn = "binary_right" => Len(objects) = 1
  PROVE  IsFrame(envs, Frame(fn, node, objects))
<1>1. /\ fn \notin {"if", "while_condition", "while_body", "interpret", "execute_block"}
      /\ fn \in ExprVisitors
  BY DEF ExprVisitors
<1>. QED
  BY <1>1, FrameFields DEF IsFrame

LEMMA PlainFrame ==
  ASSUME IsEnvironmentOf(envs, environment),
         NEW fn \in {"expression", "print", "return", "var", "interpreter_call"}, NEW node
  PROVE  IsFrame(envs, Frame(fn, node, <<>>))
<1>1. /\ fn \notin {"if", "while_condition", "while_body", "interpret", "execute_block"}
      /\ fn \notin {"assign", "binary_left", "binary_right", "logical", "unary", "call"}
      /\ fn \in ExprVisitors \cup StmtVisitors
  BY DEF ExprVisitors, StmtVisitors
<1>. QED
  BY <1>1, FrameFields, NoObjects DEF IsFrame

LEMMA BranchFrame ==
  ASSUME IsEnvironmentOf(envs, environment),
         NEW fn \in {"if", "while_condition", "while_body"},
         NEW node, IsBranch(node, Depth(envs, environment)), node.type = NodeOf(fn)
  PROVE  IsFrame(envs, Frame(fn, node, <<>>))
<1>1. /\ fn \notin {"interpret", "execute_block", "binary_right"}
      /\ fn \notin {"assign", "binary_left", "binary_right", "logical", "unary", "call"}
      /\ fn \in ExprVisitors \cup StmtVisitors
  BY DEF ExprVisitors, StmtVisitors
<1>. QED
  BY <1>1, FrameFields, NoObjects DEF IsFrame

LEMMA ListFrame ==
  ASSUME NEW es, NEW f, f.fn \in {"interpret", "execute_block"}, IsEnvironmentOf(es, f.environment),
         AllAt(f.node, Depth(es, f.environment)), f.i \in Nat, f.objects = <<>>,
         f.fn = "execute_block" => IsEnvironmentOf(es, f.previous)
  PROVE  IsFrame(es, f)
<1>1. /\ f.fn \notin {"if", "while_condition", "while_body", "binary_right"}
      /\ f.fn \notin {"assign", "binary_left", "binary_right", "logical", "unary", "call"}
      /\ f.fn \in ExprVisitors \cup StmtVisitors \cup {"interpret"}
  BY DEF ExprVisitors, StmtVisitors
<1>. QED
  BY <1>1, NoObjects DEF IsFrame

-----------------------------------------------------------------------------
(* The shapes of a step. *)
Scoped == StackInv /\ ScopeInv

Kept ==
  /\ IsHeap(envs')
  /\ Grown(envs, envs')
  /\ IsEnvironmentOf(envs', environment')
  /\ AreObjectsOf(envs', out')

LEMMA KeptUnchanged ==
  ASSUME Scoped, UNCHANGED <<environment, envs, out>>
  PROVE  Kept
<1>1. IsHeap(envs) /\ IsEnvironmentOf(envs, environment) /\ AreObjectsOf(envs, out)
  BY DEF Scoped, ScopeInv
<1>2. Grown(envs, envs)
  BY <1>1 DEF IsHeap, Grown, HeapGrows, IsChain
<1>. QED
  BY <1>1, <1>2 DEF Kept

LEMMA KeptDefined ==
  ASSUME Scoped, IsHeap(envs'), SameScopes(envs, envs'), UNCHANGED <<environment, out>>
  PROVE  Kept
<1>1. IsHeap(envs) /\ IsEnvironmentOf(envs, environment) /\ AreObjectsOf(envs, out)
  BY DEF Scoped, ScopeInv
<1>2. Grown(envs, envs')
  BY <1>1, SameScopesGrow DEF IsHeap
<1>3. IsEnvironmentOf(envs', environment')
  BY <1>1 DEF IsEnvironmentOf, SameScopes
<1>4. AreObjectsOf(envs', out')
  BY <1>1, <1>2, ObjectsStay
<1>. QED
  BY <1>2, <1>3, <1>4 DEF Kept

LEMMA StepByStay ==
  ASSUME Scoped, Kept, UNCHANGED stack, Fits(envs', environment', FnOf(stack), ctl')
  PROVE  ScopeInv'
<1>1. IsStack(envs', stack)
  BY StackStays DEF Scoped, ScopeInv, Kept
<1>. QED
  BY <1>1 DEF ScopeInv, Kept, Fits

LEMMA StepByPush ==
  ASSUME Scoped, Kept, NEW f, stack' = <<f>> \o stack, IsFrame(envs', f),
         Expects(f.fn, FnOf(stack)), stack = <<>> => f.fn = "interpret",
         Fits(envs', environment', f.fn, ctl')
  PROVE  ScopeInv'
<1>1. IsStack(envs', stack)
  BY StackStays DEF Scoped, ScopeInv, Kept
<1>2. PICK S : stack \in Seq(S)
  BY DEF Scoped, StackInv
<1>3. IsStack(envs', <<f>> \o stack) /\ FnOf(<<f>> \o stack) = f.fn
  BY <1>1, <1>2, PushStack
<1>. QED
  BY <1>3 DEF ScopeInv, Kept, Fits

(* What is known of the function that is resumed and the one below it. *)
Resumable ==
  /\ IsFrame(envs, Top)
  /\ Top.environment = environment
  /\ Top.fn \in ExprVisitors => FnOf(Tail(stack)) \in AwaitsExpr
  /\ Top.fn \in StmtVisitors => FnOf(Tail(stack)) \in AwaitsStmt

LEMMA ResumeTop ==
  ASSUME Scoped, stack # <<>>
  PROVE  Resumable
<1>1. PICK S : stack \in Seq(S)
  BY DEF Scoped, StackInv
<1>2. IsStack(envs, stack)
  BY DEF Scoped, ScopeInv
<1>3. /\ IsFrame(envs, Head(stack))
      /\ \/ Tail(stack) = <<>> /\ Head(stack).fn = "interpret"
         \/ Tail(stack) # <<>> /\ Expects(Head(stack).fn, FnOf(Tail(stack)))
  BY <1>1, <1>2, PopStack
<1>4. Head(stack).environment = environment
  BY DEF Scoped, StackInv, Restored
<1>5. "interpret" \notin ExprVisitors \cup StmtVisitors
  BY DEF ExprVisitors, StmtVisitors
<1>. QED
  BY <1>3, <1>4, <1>5 DEF Resumable, Top, Expects

LEMMA StepByPop ==
  ASSUME Scoped, Kept, stack # <<>>, Pop, Fits(envs', environment', FnOf(Tail(stack)), ctl')
  PROVE  ScopeInv'
<1>1. PICK S : stack \in Seq(S)
  BY DEF Scoped, StackInv
<1>2. IsStack(envs, stack)
  BY DEF Scoped, ScopeInv
<1>3. IsStack(envs, Tail(stack))
  BY <1>1, <1>2, PopStack
<1>4. IsStack(envs', Tail(stack))
  BY <1>3, StackStays DEF Kept
<1>. QED
  BY <1>4 DEF ScopeInv, Kept, Fits, Pop

(* A function waits for something else, in its own place. *)
LEMMA StepBySwap ==
  ASSUME Scoped, Kept, stack # <<>>, NEW f, stack' = <<f>> \o Tail(stack), IsFrame(envs', f),
         \/ f.fn = Top.fn
         \/ f.fn \in ExprVisitors \ StmtVisitors /\ Top.fn \in ExprVisitors
         \/ f.fn \in StmtVisitors \ ExprVisitors /\ Top.fn \in StmtVisitors,
         Fits(envs', environment', f.fn, ctl')
  PROVE  ScopeInv'
<1> DEFINE rest == Tail(stack)
<1>1. PICK S : stack \in Seq(S)
  BY DEF Scoped, StackInv
<1>2. IsStack(envs, stack)
  BY DEF Scoped, ScopeInv
<1>3. /\ rest \in Seq(S)
      /\ IsStack(envs, rest)
      /\ \/ rest = <<>> /\ Top.fn = "interpret"
         \/ rest # <<>> /\ Expects(Top.fn, FnOf(rest))
  BY <1>1, <1>2, PopStack DEF Top
<1>4. IsStack(envs', rest)
  BY <1>3, StackStays DEF Kept
<1>5. "interpret" \notin ExprVisitors \cup StmtVisitors
  BY DEF ExprVisitors, StmtVisitors
<1>. HIDE DEF rest
<1>6. Expects(f.fn, FnOf(rest)) /\ (rest = <<>> => f.fn = "interpret")
  BY <1>3, <1>5 DEF Expects
<1>7. IsStack(envs', <<f>> \o rest) /\ FnOf(<<f>> \o rest) = f.fn
  BY <1>3, <1>4, <1>6, PushStack
<1>. QED
  BY <1>7 DEF ScopeInv, Kept, Fits, rest

-----------------------------------------------------------------------------
(* What is known when a node is visited. *)
LEMMA VisitedExpr ==
  ASSUME Scoped, NEW type, VisitingExpr(type)
  PROVE  /\ ctl.expr \in Expressions
         /\ IsExpression(ctl.expr)
         /\ ctl.expr.type = type
         /\ FnOf(stack) \in AwaitsExpr
         /\ stack # <<>>
<1>1. ctl.tag = "evaluate" /\ ctl.expr.type = type
  BY DEF VisitingExpr
<1>2. ctl.expr \in Expressions
  BY <1>1 DEF Scoped, ScopeInv, IsControl
<1>3. FnOf(stack) \in AwaitsExpr
  BY <1>1 DEF Scoped, ScopeInv, IsAwaited, ExprTags
<1>4. stack # <<>>
  BY <1>3 DEF FnOf, AwaitsExpr
<1>. QED
  BY <1>1, <1>2, <1>3, <1>4, TreesAssumption

LEMMA VisitedStmt ==
  ASSUME Scoped, NEW type, VisitingStmt(type)
  PROVE  /\ IsBranch(ctl.stmt, Depth(envs, environment))
         /\ IsStatement(ctl.stmt)
         /\ ctl.stmt.type = type
         /\ FnOf(stack) \in AwaitsStmt
         /\ stack # <<>>
<1>1. ctl.tag = "execute" /\ ctl.stmt.type = type
  BY DEF VisitingStmt
<1>2. IsBranch(ctl.stmt, Depth(envs, environment))
  BY <1>1 DEF Scoped, ScopeInv, IsControl
<1>3. FnOf(stack) \in AwaitsStmt
  BY <1>1 DEF Scoped, ScopeInv, IsAwaited, StmtTags
<1>4. stack # <<>>
  BY <1>3 DEF FnOf, AwaitsStmt
<1>. QED
  BY <1>1, <1>2, <1>3, <1>4, TreesAssumption DEF IsBranch

(* A visitor calls evaluate on a child. *)
LEMMA AwaitKeepsScope ==
  ASSUME Scoped, NEW fn, NEW node, NEW child \in Expressions,
         Await(Frame(fn, node, <<>>), child), IsFrame(envs, Frame(fn, node, <<>>)),
         fn \in AwaitsExpr, stack # <<>>, Expects(fn, FnOf(stack))
  PROVE  ScopeInv'
<1> DEFINE f == Frame(fn, node, <<>>)
<1>1. stack' = <<f>> \o stack /\ ctl' = Evaluate(child) /\ UNCHANGED <<environment, envs, out>>
  BY DEF Await, scopeVars, sessionVars
<1>2. f.fn = fn
  BY FrameFields
<1>. HIDE DEF f
<1>3. Kept
  BY <1>1, KeptUnchanged
<1>4. Fits(envs', environment', f.fn, ctl')
  BY <1>1, <1>2, ExprFits
<1>5. IsFrame(envs', f)
  BY <1>1 DEF f
<1>. QED
  BY <1>1, <1>2, <1>3, <1>4, <1>5, StepByPush

LEMMA VisitExprsKeepScope ==
  ASSUME Scoped, VisitAssign \/ VisitBinary \/ VisitLogical \/ VisitUnary \/ VisitCall
  PROVE  ScopeInv'
<1>0. IsEnvironmentOf(envs, environment)
  BY DEF Scoped, ScopeInv
<1>1. ASSUME NEW fn \in {"assign", "binary_left", "logical", "unary", "call"},
             VisitingExpr(NodeOf(fn)),
             NEW child \in Expressions, Await(Frame(fn, ctl.expr, <<>>), child)
      PROVE  ScopeInv'
  <2>1. /\ ctl.expr \in Expressions /\ ctl.expr.type = NodeOf(fn)
        /\ FnOf(stack) \in AwaitsExpr /\ stack # <<>>
    BY <1>1, VisitedExpr
  <2>2. IsFrame(envs, Frame(fn, ctl.expr, <<>>))
    BY <1>0, <2>1, NoObjects, ExprFrame
  <2>3. fn \in AwaitsExpr /\ fn \notin StmtVisitors
    BY DEF AwaitsExpr, StmtVisitors
  <2>4. Expects(fn, FnOf(stack))
    BY <2>1, <2>3 DEF Expects
  <2>. QED
    BY <1>1, <2>1, <2>2, <2>3, <2>4, AwaitKeepsScope
<1>2. CASE VisitAssign
  <2>1. VisitingExpr("assign") /\ NodeOf("assign") = "assign"
    BY <1>2 DEF VisitAssign, NodeOf
  <2>2. ctl.expr.value \in Expressions
    BY <2>1, VisitedExpr DEF IsExpression
  <2>. QED
    BY <1>1, <1>2, <2>1, <2>2 DEF VisitAssign
<1>3. CASE VisitBinary
  <2>1. VisitingExpr("binary") /\ NodeOf("binary_left") = "binary"
    BY <1>3 DEF VisitBinary, NodeOf
  <2>2. ctl.expr.left \in Expressions
    BY <2>1, VisitedExpr DEF IsExpression
  <2>. QED
    BY <1>1, <1>3, <2>1, <2>2 DEF VisitBinary
<1>4. CASE VisitLogical
  <2>1. VisitingExpr("logical") /\ NodeOf("logical") = "logical"
    BY <1>4 DEF VisitLogical, NodeOf
  <2>2. ctl.expr.left \in Expressions
    BY <2>1, VisitedExpr DEF IsExpression
  <2>. QED
    BY <1>1, <1>4, <2>1, <2>2 DEF VisitLogical
<1>5. CASE VisitUnary
  <2>1. VisitingExpr("unary") /\ NodeOf("unary") = "unary"
    BY <1>5 DEF VisitUnary, NodeOf
  <2>2. ctl.expr.right \in Expressions
    BY <2>1, VisitedExpr DEF IsExpression
  <2>. QED
    BY <1>1, <1>5, <2>1, <2>2 DEF VisitUnary
<1>6. CASE VisitCall
  <2>1. VisitingExpr("call") /\ NodeOf("call") = "call"
    BY <1>6 DEF VisitCall, NodeOf
  <2>2. ctl.expr.callee \in Expressions
    BY <2>1, VisitedExpr DEF IsExpression
  <2>. QED
    BY <1>1, <1>6, <2>1, <2>2 DEF VisitCall
<1>. QED
  BY <1>2, <1>3, <1>4, <1>5, <1>6

LEMMA VisitStmtsKeepScope ==
  ASSUME Scoped,
         \/ VisitExpression \/ VisitPrint \/ VisitIf \/ VisitWhile
         \/ VisitReturn /\ ctl.stmt.value # NULL
         \/ VisitVar /\ ctl.stmt.initializer # NULL
  PROVE  ScopeInv'
<1>0. IsEnvironmentOf(envs, environment)
  BY DEF Scoped, ScopeInv
<1>1. ASSUME NEW fn \in {"expression", "print", "return", "if", "var", "while_condition"},
             NEW type, VisitingStmt(type), IsFrame(envs, Frame(fn, ctl.stmt, <<>>)),
             NEW child \in Expressions, Await(Frame(fn, ctl.stmt, <<>>), child)
      PROVE  ScopeInv'
  <2>1. FnOf(stack) \in AwaitsStmt /\ stack # <<>>
    BY <1>1, VisitedStmt
  <2>2. fn \in AwaitsExpr /\ fn \notin ExprVisitors
    BY DEF AwaitsExpr, ExprVisitors
  <2>3. Expects(fn, FnOf(stack))
    BY <2>1, <2>2 DEF Expects
  <2>. QED
    BY <1>1, <2>1, <2>2, <2>3, AwaitKeepsScope
<1>2. ASSUME NEW fn \in {"expression", "print", "return", "var"}
      PROVE  IsFrame(envs, Frame(fn, ctl.stmt, <<>>))
  BY <1>0, PlainFrame
<1>3. CASE VisitExpression
  <2>1. VisitingStmt("expression")
    BY <1>3 DEF VisitExpression
  <2>2. ctl.stmt.expression \in Expressions
    BY <2>1, VisitedStmt DEF IsStatement
  <2>. QED
    BY <1>1, <1>2, <1>3, <2>1, <2>2 DEF VisitExpression
<1>4. CASE VisitPrint
  <2>1. VisitingStmt("print")
    BY <1>4 DEF VisitPrint
  <2>2. ctl.stmt.expression \in Expressions
    BY <2>1, VisitedStmt DEF IsStatement
  <2>. QED
    BY <1>1, <1>2, <1>4, <2>1, <2>2 DEF VisitPrint
<1>5. CASE VisitIf
  <2>1. VisitingStmt("if") /\ NodeOf("if") = "if"
    BY <1>5 DEF VisitIf, NodeOf
  <2>2. /\ ctl.stmt.condition \in Expressions
        /\ IsBranch(ctl.stmt, Depth(envs, environment)) /\ ctl.stmt.type = "if"
    BY <2>1, VisitedStmt DEF IsStatement
  <2>3. IsFrame(envs, Frame("if", ctl.stmt, <<>>))
    BY <1>0, <2>1, <2>2, BranchFrame
  <2>. QED
    BY <1>1, <1>5, <2>1, <2>2, <2>3 DEF VisitIf
<1>6. CASE VisitWhile
  <2>1. VisitingStmt("while") /\ NodeOf("while_condition") = "while"
    BY <1>6 DEF VisitWhile, NodeOf
  <2>2. /\ ctl.stmt.condition \in Expressions
        /\ IsBranch(ctl.stmt, Depth(envs, environment)) /\ ctl.stmt.type = "while"
    BY <2>1, VisitedStmt DEF IsStatement
  <2>3. IsFrame(envs, Frame("while_condition", ctl.stmt, <<>>))
    BY <1>0, <2>1, <2>2, BranchFrame
  <2>. QED
    BY <1>1, <1>6, <2>1, <2>2, <2>3 DEF VisitWhile
<1>7. CASE VisitReturn /\ ctl.stmt.value # NULL
  <2>1. VisitingStmt("return")
    BY <1>7 DEF VisitReturn
  <2>2. ctl.stmt.value \in Expressions
    BY <1>7, <2>1, VisitedStmt DEF IsStatement
  <2>. QED
    BY <1>1, <1>2, <1>7, <2>1, <2>2 DEF VisitReturn
<1>8. CASE VisitVar /\ ctl.stmt.initializer # NULL
  <2>1. VisitingStmt("var")
    BY <1>8 DEF VisitVar
  <2>2. ctl.stmt.initializer \in Expressions
    BY <1>8, <2>1, VisitedStmt DEF IsStatement
  <2>. QED
    BY <1>1, <1>2, <1>8, <2>1, <2>2 DEF VisitVar
<1>. QED
  BY <1>3, <1>4, <1>5, <1>6, <1>7, <1>8

(* Visitors that answer at once. *)
LEMMA AnswersKeepScope ==
  ASSUME Scoped, VisitLiteral \/ VisitVariable \/ VisitGrouping \/ lox_clock
  PROVE  ScopeInv'
<1>0. IsHeap(envs) /\ environment \in 1 .. Len(envs)
  BY DEF Scoped, ScopeInv, IsEnvironmentOf
<1>1. UNCHANGED <<stack, environment, envs, out>>
  BY DEF VisitLiteral, VisitVariable, VisitGrouping, lox_clock, scopeVars, sessionVars
<1>2. Kept
  BY <1>1, KeptUnchanged
<1>3. CASE VisitLiteral
  <2>1. VisitingExpr("literal") /\ ctl' = INTERPRET_OK(ctl.expr.value)
    BY <1>3 DEF VisitLiteral
  <2>2. IsLiteral(ctl.expr.value) /\ FnOf(stack) \in AwaitsExpr
    BY <2>1, VisitedExpr DEF IsExpression
  <2>3. IsObjectOf(envs', ctl.expr.value)
    BY <2>2 DEF IsLiteral, IsObjectOf
  <2>4. Fits(envs', environment', FnOf(stack), ctl')
    BY <2>1, <2>2, <2>3, ExprFits
  <2>. QED
    BY <1>1, <1>2, <2>4, StepByStay
<1>4. CASE VisitVariable
  <2>1. VisitingExpr("variable")
    BY <1>4 DEF VisitVariable
  <2>2. ctl.expr.name \in Names /\ FnOf(stack) \in AwaitsExpr
    BY <2>1, VisitedExpr DEF IsExpression
  <2> DEFINE get == environment_get(envs, environment, ctl.expr.name)
  <2>3. \/ ctl' = INTERPRET_ERROR("undefined variable")
        \/ Holder(envs, environment, ctl.expr.name) # 0 /\ ctl' = INTERPRET_OK(get)
    BY <1>4 DEF VisitVariable, Result
  <2>4. Holder(envs, environment, ctl.expr.name) # 0 => IsObjectOf(envs, get)
    BY <1>0, <2>2, GetIsObject
  <2>. HIDE DEF get
  <2>5. Fits(envs', environment', FnOf(stack), ctl')
    BY <1>1, <2>2, <2>3, <2>4, ExprFits
  <2>. QED
    BY <1>1, <1>2, <2>5, StepByStay
<1>5. CASE VisitGrouping
  <2>1. VisitingExpr("grouping") /\ ctl' = Evaluate(ctl.expr.expression)
    BY <1>5 DEF VisitGrouping
  <2>2. ctl.expr.expression \in Expressions /\ FnOf(stack) \in AwaitsExpr
    BY <2>1, VisitedExpr DEF IsExpression
  <2>3. Fits(envs', environment', FnOf(stack), ctl')
    BY <2>1, <2>2, ExprFits
  <2>. QED
    BY <1>1, <1>2, <2>3, StepByStay
<1>6. CASE lox_clock
  <2>1. PICK t \in ClockReadings : ctl' = INTERPRET_OK(OBJECT_NUMBER(t))
    BY <1>6 DEF lox_clock
  <2>2. FnOf(stack) \in AwaitsExpr
    BY <1>6 DEF lox_clock, Scoped, ScopeInv, IsAwaited, ExprTags
  <2>3. IsObjectOf(envs', OBJECT_NUMBER(t))
    BY ClockAssumption DEF IsObjectOf, OBJECT_NUMBER
  <2>4. Fits(envs', environment', FnOf(stack), ctl')
    BY <2>1, <2>2, <2>3, ExprFits
  <2>. QED
    BY <1>1, <1>2, <2>4, StepByStay
<1>. QED
  BY <1>3, <1>4, <1>5, <1>6

-----------------------------------------------------------------------------
(* What is known when evaluate returns to the visitor that waits for it. *)
LEMMA Resumed ==
  ASSUME Scoped, NEW fn, Resuming(fn)
  PROVE  /\ Resumable /\ Top.fn = fn /\ stack # <<>>
         /\ IsHeap(envs) /\ environment \in 1 .. Len(envs)
         /\ IsControl(envs, environment, ctl)
         /\ ctl.tag = "ok" => IsObjectOf(envs, ctl.value)
         /\ fn \in ExprVisitors => FnOf(Tail(stack)) \in AwaitsExpr
         /\ fn \in StmtVisitors => FnOf(Tail(stack)) \in AwaitsStmt
<1>1. stack # <<>> /\ Top.fn = fn
  BY DEF Resuming, Waiting
<1>2. Resumable
  BY <1>1, ResumeTop
<1>3. IsControl(envs, environment, ctl) /\ IsHeap(envs) /\ environment \in 1 .. Len(envs)
  BY DEF Scoped, ScopeInv, IsEnvironmentOf
<1>. QED
  BY <1>1, <1>2, <1>3 DEF Resumable, IsControl

(* The early returns. *)
LEMMA ExprFailsKeepsScope ==
  ASSUME Scoped, NEW fn \in ExprVisitors, Resuming(fn), ExprFails, Pop,
         UNCHANGED <<environment, envs, out>>
  PROVE  ScopeInv'
<1>1. FnOf(Tail(stack)) \in AwaitsExpr /\ stack # <<>> /\ IsControl(envs, environment, ctl)
  BY Resumed
<1>2. Kept
  BY KeptUnchanged
<1>3. Grown(envs, envs')
  BY <1>2 DEF Kept
<1>4. Fits(envs', environment', FnOf(Tail(stack)), ctl)
  BY <1>1, <1>3, ResultFits DEF ExprFails
<1>5. ctl' = ctl
  BY DEF ExprFails
<1>. QED
  BY <1>1, <1>2, <1>4, <1>5, StepByPop

LEMMA StmtFailsKeepsScope ==
  ASSUME Scoped, NEW fn \in StmtVisitors, Resuming(fn), StmtFails, Pop,
         UNCHANGED <<environment, envs, out>>
  PROVE  ScopeInv'
<1>1. FnOf(Tail(stack)) \in AwaitsStmt /\ stack # <<>>
  BY Resumed
<1>2. Kept
  BY KeptUnchanged
<1>3. Fits(envs', environment', FnOf(Tail(stack)), ctl')
  BY <1>1, StmtFits DEF StmtFails
<1>. QED
  BY <1>1, <1>2, <1>3, StepByPop

LEMMA AssignKeepsScope ==
  ASSUME Scoped, AssignValue
  PROVE  ScopeInv'
<1>0. Resuming("assign") /\ Pop /\ UNCHANGED <<environment, out>> /\ "assign" \in ExprVisitors
  BY DEF AssignValue, sessionVars, ExprVisitors
<1>1. CASE ExprFails /\ UNCHANGED envs
  BY <1>0, <1>1, ExprFailsKeepsScope
<1>2. CASE ctl.tag = "ok"
  <2> DEFINE name == Top.node.name
  <2>1. /\ stack # <<>> /\ IsHeap(envs) /\ environment \in 1 .. Len(envs)
        /\ IsObjectOf(envs, ctl.value) /\ IsControl(envs, environment, ctl)
        /\ FnOf(Tail(stack)) \in AwaitsExpr
    BY <1>0, <1>2, Resumed
  <2>2. name \in Names
    <3>1. Top.node \in Expressions /\ Top.node.type = "assign"
      BY <1>0, Resumed DEF Resumable, IsFrame, NodeOf
    <3>. QED
      BY <3>1, TreesAssumption DEF IsExpression
  <2>3. CASE Holder(envs, environment, name) = 0
    <3>1. ctl' = INTERPRET_ERROR("undefined variable") /\ UNCHANGED envs
      BY <1>2, <2>3 DEF AssignValue, Result, ExprFails
    <3>2. Kept
      BY <1>0, <3>1, KeptUnchanged
    <3>3. Fits(envs', environment', FnOf(Tail(stack)), ctl')
      BY <2>1, <3>1, ExprFits
    <3>. QED
      BY <1>0, <2>1, <3>2, <3>3, StepByPop
  <2>4. CASE Holder(envs, environment, name) # 0
    <3>1. envs' = environment_assign(envs, environment, name, ctl.value) /\ ctl' = ctl
      BY <1>2, <2>4 DEF AssignValue, ExprFails
    <3>. HIDE DEF name
    <3>2. IsHeap(envs') /\ SameScopes(envs, envs')
      BY <2>1, <2>2, <2>4, <3>1, AssignKeepsHeap
    <3>3. Kept
      BY <1>0, <3>2, KeptDefined
    <3>4. Grown(envs, envs')
      BY <3>3 DEF Kept
    <3>5. Fits(envs', environment', FnOf(Tail(stack)), ctl)
      BY <1>2, <2>1, <3>4, ResultFits
    <3>. QED
      BY <1>0, <2>1, <3>1, <3>3, <3>5, StepByPop
  <2>. QED
    BY <2>3, <2>4
<1>. QED
  BY <1>1, <1>2 DEF AssignValue

LEMMA OperatorsKeepScope ==
  ASSUME Scoped, BinaryLeft \/ BinaryRight \/ LogicalLeft \/ UnaryRight
  PROVE  ScopeInv'
<1>0. UNCHANGED <<environment, envs, out>>
  BY DEF BinaryLeft, BinaryRight, LogicalLeft, UnaryRight, scopeVars, sessionVars
<1>1. Kept
  BY <1>0, KeptUnchanged
<1>2. {"binary_left", "binary_right", "logical", "unary"} \subseteq ExprVisitors \ StmtVisitors
  BY DEF ExprVisitors, StmtVisitors
<1>3. CASE BinaryLeft
  <2>1. Resuming("binary_left")
    BY <1>3 DEF BinaryLeft
  <2>2. CASE ExprFails /\ Pop
    BY <1>0, <1>2, <2>1, <2>2, ExprFailsKeepsScope
  <2>3. CASE ctl.tag = "ok"
    <3> DEFINE f == Frame("binary_right", Top.node, <<ctl.value>>)
    <3>1. stack' = <<f>> \o Tail(stack) /\ ctl' = Evaluate(Top.node.right)
      BY <1>3, <2>3 DEF BinaryLeft, ExprFails
    <3>2. /\ stack # <<>> /\ Top.fn = "binary_left"
          /\ IsObjectOf(envs, ctl.value) /\ IsEnvironmentOf(envs, environment)
      BY <2>1, <2>3, Resumed DEF IsEnvironmentOf
    <3>3. Top.node \in Expressions /\ Top.node.type = "binary"
      BY <2>1, Resumed DEF Resumable, IsFrame, NodeOf
    <3>4. Top.node.right \in Expressions
      BY <3>3, TreesAssumption DEF IsExpression
    <3>5. AreObjectsOf(envs, <<ctl.value>>)
      BY <3>2, OneObject
    <3>6. IsFrame(envs, f)
      <4>1. NodeOf("binary_right") = "binary"
        BY DEF NodeOf
      <4>2. Len(<<ctl.value>>) = 1
        OBVIOUS
      <4>. QED
        BY <3>2, <3>3, <3>5, <4>1, <4>2, ExprFrame
    <3>7. f.fn = "binary_right"
      BY FrameFields
    <3>. HIDE DEF f
    <3>8. Fits(envs', environment', f.fn, ctl')
      <4>1. "binary_right" \in AwaitsExpr
        BY DEF AwaitsExpr
      <4>. QED
        BY <3>1, <3>4, <3>7, <4>1, ExprFits
    <3>9. IsFrame(envs', f)
      BY <1>0, <3>6
    <3>. QED
      BY <1>1, <1>2, <3>1, <3>2, <3>7, <3>8, <3>9, StepBySwap
  <2>. QED
    BY <1>3, <2>2, <2>3 DEF BinaryLeft
<1>4. CASE BinaryRight
  <2>1. Resuming("binary_right") /\ Pop
    BY <1>4 DEF BinaryRight
  <2>2. CASE ExprFails
    BY <1>0, <1>2, <2>1, <2>2, ExprFailsKeepsScope
  <2>3. CASE ctl.tag = "ok"
    <3> DEFINE r == BinaryResult(Top.node.op, Top.objects[1], ctl.value)
    <3>1. ctl' = r
      BY <1>4, <2>3 DEF BinaryRight, ExprFails, Result
    <3>2. stack # <<>> /\ IsObjectOf(envs, ctl.value) /\ FnOf(Tail(stack)) \in AwaitsExpr
      BY <1>2, <2>1, <2>3, Resumed
    <3>3. AreObjectsOf(envs, Top.objects) /\ Len(Top.objects) = 1
      BY <2>1, Resumed DEF Resumable, IsFrame
    <3>4. IsObjectOf(envs, Top.objects[1])
      BY <3>3 DEF AreObjectsOf, Elements
    <3>5. r.tag = "ok" => IsObjectOf(envs, r.value)
      BY <3>2, <3>4, BinaryResultIsObject
    <3>6. r.tag \in {"ok", "error", "abort"}
      BY BinaryResultTag
    <3>. HIDE DEF r
    <3>7. Fits(envs', environment', FnOf(Tail(stack)), ctl')
      BY <1>0, <3>1, <3>2, <3>5, <3>6 DEF Fits, IsControl, IsAwaited, ExprTags, StmtTags
    <3>. QED
      BY <1>1, <2>1, <3>2, <3>7, StepByPop
  <2>. QED
    BY <1>4, <2>2, <2>3 DEF BinaryRight
<1>5. CASE UnaryRight
  <2>1. Resuming("unary") /\ Pop
    BY <1>5 DEF UnaryRight
  <2>2. CASE ExprFails
    BY <1>0, <1>2, <2>1, <2>2, ExprFailsKeepsScope
  <2>3. CASE ctl.tag = "ok"
    <3> DEFINE r == UnaryResult(Top.node.op, ctl.value)
    <3>1. ctl' = r
      BY <1>5, <2>3 DEF UnaryRight, ExprFails, Result
    <3>2. stack # <<>> /\ IsObjectOf(envs, ctl.value) /\ FnOf(Tail(stack)) \in AwaitsExpr
      BY <1>2, <2>1, <2>3, Resumed
    <3>5. r.tag = "ok" => IsObjectOf(envs, r.value)
      BY <3>2, UnaryResultIsObject
    <3>6. r.tag \in {"ok", "error", "abort"}
      BY UnaryResultTag
    <3>. HIDE DEF r
    <3>7. Fits(envs', environment', FnOf(Tail(stack)), ctl')
      BY <1>0, <3>1, <3>2, <3>5, <3>6 DEF Fits, IsControl, IsAwaited, ExprTags, StmtTags
    <3>. QED
      BY <1>1, <2>1, <3>2, <3>7, StepByPop
  <2>. QED
    BY <1>5, <2>2, <2>3 DEF UnaryRight
<1>6. CASE LogicalLeft
  <2>1. Resuming("logical") /\ Pop
    BY <1>6 DEF LogicalLeft
  <2>2. CASE ExprFails
    BY <1>0, <1>2, <2>1, <2>2, ExprFailsKeepsScope
  <2>3. CASE ctl.tag = "ok"
    <3>1. ctl' = ctl \/ ctl' = Evaluate(Top.node.right)
      BY <1>6, <2>3 DEF LogicalLeft, ExprFails
    <3>2. stack # <<>> /\ IsControl(envs, environment, ctl) /\ FnOf(Tail(stack)) \in AwaitsExpr
      BY <1>2, <2>1, <2>3, Resumed
    <3>3. Top.node \in Expressions /\ Top.node.type = "logical"
      BY <2>1, Resumed DEF Resumable, IsFrame, NodeOf
    <3>4. Top.node.right \in Expressions
      BY <3>3, TreesAssumption DEF IsExpression
    <3>5. Grown(envs, envs')
      BY <1>1 DEF Kept
    <3>6. Fits(envs', environment', FnOf(Tail(stack)), ctl)
      BY <2>3, <3>2, <3>5, ResultFits
    <3>7. Fits(envs', environment', FnOf(Tail(stack)), ctl')
      BY <3>1, <3>2, <3>4, <3>6, ExprFits
    <3>. QED
      BY <1>1, <2>1, <3>2, <3>7, StepByPop
  <2>. QED
    BY <1>6, <2>2, <2>3 DEF LogicalLeft
<1>. QED
  BY <1>3, <1>4, <1>5, <1>6

LEMMA OperandKeepsScope ==
  ASSUME Scoped, CallOperand
  PROVE  ScopeInv'
<1>0. Resuming("call") /\ UNCHANGED <<environment, envs, out>> /\ "call" \in ExprVisitors
  BY DEF CallOperand, scopeVars, sessionVars, ExprVisitors
<1>1. Kept
  BY <1>0, KeptUnchanged
<1>2. CASE ExprFails /\ Pop
  BY <1>0, <1>2, ExprFailsKeepsScope
<1>3. CASE ctl.tag = "ok"
  <2> DEFINE objects == Append(Top.objects, ctl.value)
             arguments == Tail(objects)
             f == Frame("call", Top.node, objects)
  <2>1. /\ stack # <<>> /\ Top.fn = "call" /\ IsObjectOf(envs, ctl.value)
        /\ IsEnvironmentOf(envs, environment) /\ FnOf(Tail(stack)) \in AwaitsExpr
    BY <1>0, <1>3, Resumed DEF IsEnvironmentOf
  <2>2. Top.node \in Expressions /\ Top.node.type = "call" /\ AreObjectsOf(envs, Top.objects)
    BY <1>0, Resumed DEF Resumable, IsFrame, NodeOf
  <2>3. Top.node.arguments \in Seq(Expressions)
    BY <2>2, TreesAssumption DEF IsExpression
  <2>4. AreObjectsOf(envs, objects) /\ IsObjectOf(envs, Head(objects)) /\ AreObjectsOf(envs, arguments)
    BY <2>1, <2>2, AppendObject
  <2>5. CASE Len(arguments) < Len(Top.node.arguments)
    <3>1. stack' = <<f>> \o Tail(stack) /\ ctl' = Evaluate(Top.node.arguments[Len(arguments) + 1])
      BY <1>3, <2>5 DEF CallOperand, ExprFails
    <3>. HIDE DEF objects
    <3>2. Len(arguments) \in Nat
      BY <2>4 DEF AreObjectsOf
    <3>3. Top.node.arguments[Len(arguments) + 1] \in Expressions
      BY <2>3, <2>5, <3>2
    <3>4. IsFrame(envs, f)
      <4>1. NodeOf("call") = "call"
        BY DEF NodeOf
      <4>. QED
        BY <2>1, <2>2, <2>4, <4>1, ExprFrame
    <3>5. f.fn = "call"
      BY FrameFields
    <3>. HIDE DEF f, arguments
    <3>6. Fits(envs', environment', f.fn, ctl')
      <4>1. "call" \in AwaitsExpr
        BY DEF AwaitsExpr
      <4>. QED
        BY <3>1, <3>3, <3>5, <4>1, ExprFits
    <3>7. IsFrame(envs', f)
      BY <1>0, <3>4
    <3>. QED
      BY <1>1, <2>1, <3>1, <3>5, <3>6, <3>7, StepBySwap
  <2>6. CASE ~(Len(arguments) < Len(Top.node.arguments))
    <3>1. Pop
      BY <1>3, <2>6 DEF CallOperand, ExprFails
    <3>. HIDE DEF objects
    <3>2. \/ ctl' = INTERPRET_ERROR("can only call functions")
          \/ ctl' = INTERPRET_ERROR("wrong number of arguments")
          \/ ctl' = Call(Head(objects), arguments)
      BY <1>3, <2>6 DEF CallOperand, ExprFails, Result, objects
    <3>. HIDE DEF arguments
    <3>3. Fits(envs', environment', FnOf(Tail(stack)), ctl')
      BY <1>0, <2>1, <2>4, <3>2, ExprFits
    <3>. QED
      BY <1>1, <2>1, <3>1, <3>3, StepByPop
  <2>. QED
    BY <2>5, <2>6
<1>. QED
  BY <1>2, <1>3 DEF CallOperand

(* Statements whose expression has been evaluated. *)
LEMMA ValuesKeepScope ==
  ASSUME Scoped, ExpressionValue \/ PrintValue \/ ReturnValue
  PROVE  ScopeInv'
<1>0. Pop /\ UNCHANGED <<environment, envs>>
  BY DEF ExpressionValue, PrintValue, ReturnValue, scopeVars
<1>1. PICK fn \in {"expression", "print", "return"} : Resuming(fn)
  BY DEF ExpressionValue, PrintValue, ReturnValue
<1>2. fn \in StmtVisitors
  BY DEF StmtVisitors
<1>3. /\ stack # <<>> /\ (ctl.tag = "ok" => IsObjectOf(envs, ctl.value))
      /\ FnOf(Tail(stack)) \in AwaitsStmt
  BY <1>1, <1>2, Resumed
<1>4. CASE StmtFails
  <2>1. UNCHANGED out
    BY <1>4 DEF ExpressionValue, PrintValue, ReturnValue, StmtFails, sessionVars
  <2>. QED
    BY <1>0, <1>1, <1>2, <1>4, <2>1, StmtFailsKeepsScope
<1>5. CASE ~StmtFails
  <2>1. ctl.tag = "ok"
    BY <1>5 DEF ExpressionValue, PrintValue, ReturnValue
  <2>2. \/ ctl' = EXECUTION_RESULT_NONE
        \/ ctl' = EXECUTION_RESULT_RETURN(ctl.value)
        \/ ctl' = Abort("stringify: impossible object type")
    BY <1>5 DEF ExpressionValue, PrintValue, ReturnValue, Result
  <2>3. Fits(envs', environment', FnOf(Tail(stack)), ctl')
    BY <1>0, <1>3, <2>1, <2>2, StmtFits, AbortFits
  <2>4. Kept
    <3>1. CASE UNCHANGED out
      BY <1>0, <3>1, KeptUnchanged
    <3>2. CASE out' = Append(out, ctl.value)
      <4>1. /\ IsHeap(envs') /\ IsEnvironmentOf(envs', environment')
            /\ Grown(envs, envs') /\ AreObjectsOf(envs', out)
        BY <1>0 DEF Scoped, ScopeInv, IsHeap, Grown, HeapGrows, IsChain
      <4>2. IsObjectOf(envs', ctl.value)
        BY <1>0, <1>3, <2>1
      <4>3. AreObjectsOf(envs', out')
        BY <3>2, <4>1, <4>2, AppendObject
      <4>. QED
        BY <4>1, <4>3 DEF Kept
    <3>. QED
      BY <1>5, <3>1, <3>2 DEF ExpressionValue, PrintValue, ReturnValue, sessionVars
  <2>. QED
    BY <1>0, <1>3, <2>3, <2>4, StepByPop
<1>. QED
  BY <1>4, <1>5

(* Declarations. *)
LEMMA DeclarationsKeepScope ==
  ASSUME Scoped, VisitFunction \/ (VisitVar /\ ctl.stmt.initializer = NULL)
  PROVE  ScopeInv'
<1>0. IsHeap(envs) /\ environment \in 1 .. Len(envs)
  BY DEF Scoped, ScopeInv, IsEnvironmentOf
<1>1. ASSUME NEW type, VisitingStmt(type), NEW name, NEW obj, IsObjectOf(envs, obj),
             envs' \in environment_define(envs, environment, name, obj),
             ctl' = EXECUTION_RESULT_NONE, UNCHANGED <<stack, environment, out>>
      PROVE  ScopeInv'
  <2>1. FnOf(stack) \in AwaitsStmt
    BY <1>1, VisitedStmt
  <2>2. IsHeap(envs') /\ SameScopes(envs, envs')
    BY <1>0, <1>1, DefineKeepsHeap
  <2>3. Kept
    BY <1>1, <2>2, KeptDefined
  <2>4. Fits(envs', environment', FnOf(stack), ctl')
    BY <1>1, <2>1, StmtFits
  <2>. QED
    BY <1>1, <2>3, <2>4, StepByStay
<1>2. CASE VisitFunction
  <2> DEFINE obj == OBJECT_FUNCTION(ctl.stmt, environment)
  <2>1. VisitingStmt("function")
    BY <1>2 DEF VisitFunction
  <2>2. /\ ctl.stmt \in Statements /\ ctl.stmt.type = "function"
        /\ ctl.stmt.depth = Depth(envs, environment)
    BY <2>1, VisitedStmt DEF IsBranch
  <2>3. /\ obj.type = "function"
        /\ obj.f.declaration = ctl.stmt
        /\ obj.f.closure = environment
    BY DEF OBJECT_FUNCTION
  <2>4. envs' \in environment_define(envs, environment, ctl.stmt.name, obj)
    BY <1>2 DEF VisitFunction
  <2>. HIDE DEF obj
  <2>5. IsClosure(envs, obj.f)
    BY <1>0, <2>2, <2>3 DEF IsClosure, IsEnvironmentOf
  <2>6. IsObjectOf(envs, obj)
    BY <2>3, <2>5 DEF IsObjectOf
  <2>7. ctl' = EXECUTION_RESULT_NONE /\ UNCHANGED <<stack, environment, out>>
    BY <1>2 DEF VisitFunction, sessionVars
  <2>. QED
    BY <1>1, <2>1, <2>4, <2>6, <2>7
<1>3. CASE VisitVar /\ ctl.stmt.initializer = NULL
  <2>1. /\ VisitingStmt("var")
        /\ envs' \in environment_define(envs, environment, ctl.stmt.name, OBJECT_NULL)
    BY <1>3 DEF VisitVar
  <2>2. IsObjectOf(envs, OBJECT_NULL)
    BY DEF IsObjectOf, OBJECT_NULL
  <2>3. ctl' = EXECUTION_RESULT_NONE /\ UNCHANGED <<stack, environment, out>>
    BY <1>3 DEF VisitVar, sessionVars
  <2>. QED
    BY <1>1, <2>1, <2>2, <2>3
<1>. QED
  BY <1>2, <1>3

LEMMA VarValueKeepsScope ==
  ASSUME Scoped, VarValue
  PROVE  ScopeInv'
<1>0. Resuming("var") /\ Pop /\ UNCHANGED <<environment, out>> /\ "var" \in StmtVisitors
  BY DEF VarValue, sessionVars, StmtVisitors
<1>1. CASE StmtFails /\ UNCHANGED envs
  BY <1>0, <1>1, StmtFailsKeepsScope
<1>2. CASE ctl.tag = "ok"
  <2>1. /\ envs' \in environment_define(envs, environment, Top.node.name, ctl.value)
        /\ ctl' = EXECUTION_RESULT_NONE
    BY <1>2 DEF VarValue, StmtFails, Result
  <2>2. /\ stack # <<>> /\ IsHeap(envs) /\ environment \in 1 .. Len(envs)
        /\ IsObjectOf(envs, ctl.value) /\ FnOf(Tail(stack)) \in AwaitsStmt
    BY <1>0, <1>2, Resumed
  <2>3. IsHeap(envs') /\ SameScopes(envs, envs')
    BY <2>1, <2>2, DefineKeepsHeap
  <2>4. Kept
    BY <1>0, <2>3, KeptDefined
  <2>5. Fits(envs', environment', FnOf(Tail(stack)), ctl')
    BY <2>1, <2>2, StmtFits
  <2>. QED
    BY <1>0, <2>2, <2>4, <2>5, StepByPop
<1>. QED
  BY <1>1, <1>2 DEF VarValue

LEMMA EmptyReturnKeepsScope ==
  ASSUME Scoped, VisitReturn, ctl.stmt.value = NULL
  PROVE  ScopeInv'
<1>1. /\ VisitingStmt("return") /\ ctl' = EXECUTION_RESULT_RETURN(OBJECT_NULL)
      /\ UNCHANGED <<stack, environment, envs, out>>
  BY DEF VisitReturn, scopeVars, sessionVars
<1>2. FnOf(stack) \in AwaitsStmt
  BY <1>1, VisitedStmt
<1>3. IsObjectOf(envs', OBJECT_NULL)
  BY DEF IsObjectOf, OBJECT_NULL
<1>4. Fits(envs', environment', FnOf(stack), ctl')
  BY <1>1, <1>2, <1>3, StmtFits
<1>5. Kept
  BY <1>1, KeptUnchanged
<1>. QED
  BY <1>1, <1>4, <1>5, StepByStay

(* Branches. *)
LEMMA BranchesKeepScope ==
  ASSUME Scoped, IfCondition \/ WhileCondition \/ WhileBody
  PROVE  ScopeInv'
<1>0. UNCHANGED <<environment, envs, out>>
  BY DEF IfCondition, WhileCondition, WhileBody, scopeVars, sessionVars
<1>1. Kept
  BY <1>0, KeptUnchanged
<1>2. {"if", "while_condition", "while_body"} \subseteq StmtVisitors \ ExprVisitors
  BY DEF ExprVisitors, StmtVisitors
<1>3. ASSUME NEW fn \in {"if", "while_condition", "while_body"}, Waiting(fn)
      PROVE  /\ stack # <<>> /\ Top.fn = fn
             /\ FnOf(Tail(stack)) \in AwaitsStmt
             /\ IsBranch(Top.node, Depth(envs, environment))
             /\ Top.node.type = NodeOf(fn)
             /\ IsStatement(Top.node)
             /\ IsEnvironmentOf(envs, environment)
  <2>1. stack # <<>> /\ Top.fn = fn
    BY <1>3 DEF Waiting
  <2>2. Resumable
    BY <2>1, ResumeTop
  <2>3. IsBranch(Top.node, Depth(envs, environment)) /\ Top.node.type = NodeOf(fn)
    BY <2>1, <2>2 DEF Resumable, IsFrame
  <2>4. IsStatement(Top.node)
    BY <2>3, TreesAssumption DEF IsBranch
  <2>5. IsEnvironmentOf(envs, environment)
    BY DEF Scoped, ScopeInv
  <2>. QED
    BY <1>2, <2>1, <2>2, <2>3, <2>4, <2>5 DEF Resumable
<1>4. CASE IfCondition
  <2>1. Resuming("if") /\ Waiting("if") /\ Pop
    BY <1>4 DEF IfCondition, Resuming
  <2>2. CASE StmtFails
    BY <1>0, <1>2, <2>1, <2>2, StmtFailsKeepsScope
  <2>3. CASE ~StmtFails
    <3>1. \/ ctl' = Execute(Top.node.then_branch)
          \/ Top.node.else_branch # NULL /\ ctl' = Execute(Top.node.else_branch)
          \/ ctl' = EXECUTION_RESULT_NONE
      BY <1>4, <2>3 DEF IfCondition, Result
    <3>2. Top.node.type = "if"
      BY <1>3, <2>1 DEF NodeOf
    <3>3. Top.node.depth = Depth(envs, environment)
      BY <1>3, <2>1 DEF IsBranch
    <3>4. /\ IsBranch(Top.node.then_branch, Depth(envs, environment))
          /\ Top.node.else_branch # NULL => IsBranch(Top.node.else_branch, Depth(envs, environment))
      BY <1>3, <2>1, <3>2, <3>3 DEF IsStatement
    <3>5. FnOf(Tail(stack)) \in AwaitsStmt /\ stack # <<>>
      BY <1>3, <2>1
    <3>6. Fits(envs', environment', FnOf(Tail(stack)), ctl')
      BY <1>0, <3>1, <3>4, <3>5, StmtFits
    <3>. QED
      BY <1>1, <2>1, <3>5, <3>6, StepByPop
  <2>. QED
    BY <2>2, <2>3
<1>5. CASE WhileCondition
  <2>1. Resuming("while_condition") /\ Waiting("while_condition")
    BY <1>5 DEF WhileCondition, Resuming
  <2>2. CASE StmtFails /\ Pop
    BY <1>0, <1>2, <2>1, <2>2, StmtFailsKeepsScope
  <2>3. CASE ctl' = EXECUTION_RESULT_NONE /\ Pop
    <3>1. FnOf(Tail(stack)) \in AwaitsStmt /\ stack # <<>>
      BY <1>3, <2>1
    <3>2. Fits(envs', environment', FnOf(Tail(stack)), ctl')
      BY <2>3, <3>1, StmtFits
    <3>. QED
      BY <1>1, <2>3, <3>1, <3>2, StepByPop
  <2> DEFINE f == Frame("while_body", Top.node, <<>>)
  <2>4. CASE ctl' = Execute(Top.node.body) /\ stack' = <<f>> \o Tail(stack)
    <3>1. Top.node.type = "while" /\ NodeOf("while_body") = "while"
      BY <1>3, <2>1 DEF NodeOf
    <3>2. Top.node.depth = Depth(envs, environment)
      BY <1>3, <2>1 DEF IsBranch
    <3>3. IsBranch(Top.node.body, Depth(envs, environment))
      BY <1>3, <2>1, <3>1, <3>2 DEF IsStatement
    <3>4. IsFrame(envs, f)
      BY <1>3, <2>1, <3>1, BranchFrame
    <3>5. f.fn = "while_body"
      BY FrameFields
    <3>. HIDE DEF f
    <3>6. "while_body" \in AwaitsStmt
      BY DEF AwaitsStmt
    <3>7. Fits(envs', environment', f.fn, ctl')
      BY <1>0, <2>4, <3>3, <3>5, <3>6, StmtFits
    <3>8. IsFrame(envs', f)
      BY <1>0, <3>4
    <3>9. stack # <<>> /\ Top.fn = "while_condition"
      BY <1>3, <2>1
    <3>. QED
      BY <1>1, <1>2, <2>4, <3>5, <3>7, <3>8, <3>9, StepBySwap
  <2>. QED
    BY <1>5, <2>2, <2>3, <2>4 DEF WhileCondition, Result
<1>6. CASE WhileBody
  <2> DEFINE f == Frame("while_condition", Top.node, <<>>)
  <2>1. Waiting("while_body") /\ ctl' = Evaluate(Top.node.condition) /\ stack' = <<f>> \o Tail(stack)
    BY <1>6 DEF WhileBody
  <2>2. Top.node.type = "while" /\ NodeOf("while_condition") = "while"
    BY <1>3, <2>1 DEF NodeOf
  <2>3. Top.node.condition \in Expressions
    BY <1>3, <2>1, <2>2 DEF IsStatement
  <2>4. IsFrame(envs, f)
    BY <1>3, <2>1, <2>2, BranchFrame
  <2>5. f.fn = "while_condition"
    BY FrameFields
  <2>. HIDE DEF f
  <2>6. "while_condition" \in AwaitsExpr
    BY DEF AwaitsExpr
  <2>7. Fits(envs', environment', f.fn, ctl')
    BY <2>1, <2>3, <2>5, <2>6, ExprFits
  <2>8. IsFrame(envs', f)
    BY <1>0, <2>4
  <2>9. stack # <<>> /\ Top.fn = "while_body"
    BY <1>3, <2>1
  <2>. QED
    BY <1>1, <1>2, <2>1, <2>5, <2>7, <2>8, <2>9, StepBySwap
<1>. QED
  BY <1>4, <1>5, <1>6

-----------------------------------------------------------------------------
(* Blocks and calls. *)
LEMMA NewBlockFrame ==
  ASSUME NEW fs, NEW e, IsEnvironmentOf(fs, e), IsEnvironmentOf(fs, environment),
         NEW statements, AllAt(statements, Depth(fs, e))
  PROVE  /\ IsFrame(fs, BlockFrame(statements, e))
         /\ BlockFrame(statements, e).fn = "execute_block"
<1> DEFINE f == BlockFrame(statements, e)
<1>1. /\ f.fn = "execute_block" /\ f.node = statements /\ f.environment = e
      /\ f.previous = environment /\ f.i = 0 /\ f.objects = <<>>
  BY DEF BlockFrame
<1>. HIDE DEF f
<1>2. IsFrame(fs, f)
  BY <1>1, ListFrame
<1>. QED
  BY <1>1, <1>2 DEF f

LEMMA VisitBlockKeepsScope ==
  ASSUME Scoped, VisitBlock
  PROVE  ScopeInv'
<1> DEFINE e == Len(envs) + 1
           f == BlockFrame(ctl.stmt.statements, e)
<1>1. /\ VisitingStmt("block")
      /\ envs' = Append(envs, environment_new_enclosed(environment))
      /\ stack' = <<f>> \o stack /\ environment' = e /\ ctl' = EXECUTION_RESULT_NONE
      /\ UNCHANGED out
  BY DEF VisitBlock, EnterBlock, sessionVars
<1>2. IsHeap(envs) /\ environment \in 1 .. Len(envs) /\ AreObjectsOf(envs, out)
  BY DEF Scoped, ScopeInv, IsEnvironmentOf
<1>3. FnOf(stack) \in AwaitsStmt /\ stack # <<>>
  BY <1>1, VisitedStmt
<1>4. AllAt(ctl.stmt.statements, Depth(envs, environment) + 1)
  BY <1>1, VisitedStmt DEF IsStatement, IsBranch
<1>5. /\ IsHeap(envs') /\ Grown(envs, envs') /\ Len(envs') = e
      /\ Depth(envs', e) = Depth(envs, environment) + 1
  BY <1>1, <1>2, OpenKeepsHeap
<1>6. IsEnvironmentOf(envs', e) /\ IsEnvironmentOf(envs', environment)
  <2>1. Len(envs) \in Nat
    BY <1>2 DEF IsHeap, IsChain
  <2>. QED
    BY <1>2, <1>5, <2>1 DEF IsEnvironmentOf
<1>7. Kept
  BY <1>1, <1>2, <1>5, <1>6, ObjectsStay DEF Kept
<1>8. IsFrame(envs', f) /\ f.fn = "execute_block"
  BY <1>4, <1>5, <1>6, NewBlockFrame
<1>. HIDE DEF f, e
<1>9. Expects("execute_block", FnOf(stack))
  BY <1>3 DEF Expects, ExprVisitors
<1>10. Fits(envs', environment', f.fn, ctl')
  <2>1. "execute_block" \in AwaitsStmt
    BY DEF AwaitsStmt
  <2>. QED
    BY <1>1, <1>8, <2>1, StmtFits
<1>. QED
  BY <1>1, <1>3, <1>7, <1>8, <1>9, <1>10, StepByPush

LEMMA CallFunctionKeepsScope ==
  ASSUME Scoped, ArityChecked, CallFunction
  PROVE  ScopeInv'
<1> DEFINE declaration == ctl.callee.f.declaration
           closure == ctl.callee.f.closure
           e == Len(envs) + 1
           opened == Append(envs, environment_new_enclosed(closure))
           f == Frame("interpreter_call", declaration, <<>>)
           g == BlockFrame(declaration.body, e)
<1>1. /\ ctl.tag = "call" /\ ctl.callee.type = "function"
      /\ envs' \in WithParameters(opened, e, declaration.params, ctl.arguments)
      /\ stack' = <<g>> \o (<<f>> \o stack) /\ environment' = e /\ ctl' = EXECUTION_RESULT_NONE
      /\ UNCHANGED out
  BY DEF CallFunction, EnterBlock, sessionVars
<1>2. /\ IsHeap(envs) /\ environment \in 1 .. Len(envs) /\ AreObjectsOf(envs, out)
      /\ IsObjectOf(envs, ctl.callee) /\ AreObjectsOf(envs, ctl.arguments)
      /\ FnOf(stack) \in AwaitsExpr
  BY <1>1 DEF Scoped, ScopeInv, IsEnvironmentOf, IsControl, IsAwaited, ExprTags
<1>3. /\ closure \in 1 .. Len(envs)
      /\ declaration \in Statements /\ declaration.type = "function"
      /\ declaration.depth = Depth(envs, closure)
  BY <1>1, <1>2 DEF IsObjectOf, IsClosure, IsEnvironmentOf
<1>4. declaration.params \in Seq(Names) /\ AllAt(declaration.body, declaration.depth + 1)
  BY <1>3, TreesAssumption DEF IsStatement
<1>5. Len(declaration.params) \in Nat /\ Len(ctl.arguments) = Len(declaration.params)
  BY <1>1, <1>4 DEF ArityChecked, object_arity
<1>. HIDE DEF declaration, closure
<1>6. /\ IsHeap(opened) /\ Grown(envs, opened) /\ Len(opened) = e
      /\ Depth(opened, e) = Depth(envs, closure) + 1
  BY <1>2, <1>3, OpenKeepsHeap
<1>. HIDE DEF opened
<1>7. e \in 1 .. Len(opened)
  <2>1. Len(envs) \in Nat
    BY <1>2 DEF IsHeap, IsChain
  <2>. QED
    BY <1>6, <2>1
<1>8. AreObjectsOf(opened, ctl.arguments)
  BY <1>2, <1>6, ObjectsStay
<1>9. IsHeap(envs') /\ SameScopes(opened, envs')
  BY <1>1, <1>5, <1>6, <1>7, <1>8, ParametersKeepHeap
<1>10. Grown(opened, envs')
  BY <1>6, <1>9, SameScopesGrow DEF IsHeap
<1>11. Depth(envs', e) = declaration.depth + 1
  BY <1>3, <1>6, <1>7, <1>10, DepthGrows DEF Grown
<1>12. Grown(envs, envs')
  <2>1. /\ IsChain(envs) /\ IsChain(envs') /\ IsChain(opened)
        /\ HeapGrows(envs, opened) /\ HeapGrows(opened, envs')
    BY <1>6, <1>10 DEF Grown
  <2>2. HeapGrows(envs, envs')
    BY <2>1 DEF HeapGrows, IsChain
  <2>. QED
    BY <2>1, <2>2 DEF Grown
<1>13. IsEnvironmentOf(envs', e) /\ IsEnvironmentOf(envs', environment)
  <2>1. Len(envs') = Len(opened)
    BY <1>9 DEF SameScopes
  <2>2. e \in 1 .. Len(envs')
    BY <2>1, <1>7
  <2>3. Len(envs) <= Len(envs') /\ Len(envs) \in Nat /\ Len(envs') \in Nat
    BY <1>12 DEF Grown, HeapGrows, IsChain
  <2>. HIDE DEF e
  <2>. QED
    BY <1>2, <2>2, <2>3 DEF IsEnvironmentOf
<1>. HIDE DEF e
<1>14. Kept
  BY <1>1, <1>2, <1>9, <1>12, <1>13, ObjectsStay DEF Kept
<1>15. IsFrame(envs', g) /\ g.fn = "execute_block"
  BY <1>4, <1>11, <1>13, NewBlockFrame
<1>16. IsFrame(envs, f) /\ f.fn = "interpreter_call"
  BY <1>2, PlainFrame, FrameFields DEF IsEnvironmentOf
<1>17. IsFrame(envs', f)
  BY <1>12, <1>16, FrameStays
<1>. HIDE DEF f, g
<1>18. IsStack(envs', stack)
  BY <1>14, StackStays DEF Scoped, ScopeInv, Kept
<1>19. PICK S : stack \in Seq(S)
  BY DEF Scoped, StackInv
<1>20. Expects(f.fn, FnOf(stack)) /\ stack # <<>>
  BY <1>2, <1>16 DEF Expects, ExprVisitors, StmtVisitors, FnOf, AwaitsExpr
<1> DEFINE below == <<f>> \o stack
<1>21. IsStack(envs', below) /\ FnOf(below) = f.fn
  BY <1>17, <1>18, <1>19, <1>20, PushStack
<1>22. below \in Seq(S \cup {f}) /\ below # <<>>
  BY <1>19
<1>. HIDE DEF below
<1>23. Expects(g.fn, FnOf(below))
  BY <1>15, <1>16, <1>21 DEF Expects, ExprVisitors, StmtVisitors, AwaitsStmt
<1>24. IsStack(envs', <<g>> \o below) /\ FnOf(<<g>> \o below) = g.fn
  BY <1>15, <1>21, <1>22, <1>23, PushStack
<1>25. stack' = <<g>> \o below
  BY <1>1 DEF below
<1>26. Fits(envs', environment', g.fn, ctl')
  <2>1. "execute_block" \in AwaitsStmt
    BY DEF AwaitsStmt
  <2>. QED
    BY <1>1, <1>15, <2>1, StmtFits
<1>. QED
  BY <1>14, <1>24, <1>25, <1>26 DEF ScopeInv, Kept, Fits

LEMMA CallReturnsKeepsScope ==
  ASSUME Scoped, CallReturns
  PROVE  ScopeInv'
<1>1. /\ stack # <<>> /\ Top.fn = "interpreter_call" /\ Pop
      /\ UNCHANGED <<environment, envs, out>>
  BY DEF CallReturns, Waiting, scopeVars, sessionVars
<1>2. Resumable
  BY <1>1, ResumeTop
<1>3. FnOf(Tail(stack)) \in AwaitsExpr
  BY <1>1, <1>2 DEF Resumable, ExprVisitors
<1>4. Kept
  BY <1>1, KeptUnchanged
<1>5. ctl.tag = "return" => IsObjectOf(envs', ctl.value)
  BY <1>1 DEF Scoped, ScopeInv, IsControl
<1>6. IsObjectOf(envs', OBJECT_NULL)
  BY DEF IsObjectOf, OBJECT_NULL
<1>7. \/ ctl' = INTERPRET_ERROR(ctl.error)
      \/ ctl.tag = "return" /\ ctl' = INTERPRET_OK(ctl.value)
      \/ ctl' = INTERPRET_OK(OBJECT_NULL)
  BY DEF CallReturns
<1>8. Fits(envs', environment', FnOf(Tail(stack)), ctl')
  BY <1>3, <1>5, <1>6, <1>7, ExprFits
<1>. QED
  BY <1>1, <1>4, <1>8, StepByPop

(* The loop over a list of statements goes on to the next one. *)
LEMMA NextStatementKeepsScope ==
  ASSUME Scoped, stack # <<>>, Top.fn \in {"interpret", "execute_block"},
         Top.i < Len(Top.node), ctl' = Execute(Top.node[Top.i + 1]),
         stack' = <<Advanced(Top)>> \o Tail(stack), UNCHANGED <<environment, envs, out>>
  PROVE  ScopeInv'
<1> DEFINE f == Advanced(Top)
<1>1. Resumable
  BY ResumeTop
<1>2. /\ AllAt(Top.node, Depth(envs, environment)) /\ Top.i \in Nat
      /\ Top.environment = environment /\ IsEnvironmentOf(envs, environment)
      /\ Top.fn = "execute_block" => IsEnvironmentOf(envs, Top.previous)
      /\ AreObjectsOf(envs, Top.objects)
  BY <1>1 DEF Resumable, IsFrame
<1>3. IsBranch(Top.node[Top.i + 1], Depth(envs, environment))
  <2>1. /\ Top.node \in Seq(Statements)
        /\ \A n \in 1 .. Len(Top.node) : Top.node[n].depth = Depth(envs, environment)
    BY <1>2 DEF AllAt
  <2>2. Top.i + 1 \in 1 .. Len(Top.node)
    BY <1>2, <2>1
  <2>. QED
    BY <2>1, <2>2 DEF IsBranch
<1>4. /\ f.fn = Top.fn /\ f.node = Top.node /\ f.environment = environment
      /\ f.previous = Top.previous /\ f.i = Top.i + 1 /\ f.objects = Top.objects
  BY <1>2 DEF Advanced
<1>. HIDE DEF f
<1>5. IsFrame(envs', f)
  <2>1. /\ f.fn \notin {"if", "while_condition", "while_body", "binary_right"}
        /\ f.fn \notin {"assign", "binary_left", "binary_right", "logical", "unary", "call"}
        /\ f.fn \in ExprVisitors \cup StmtVisitors \cup {"interpret"}
    BY <1>4 DEF ExprVisitors, StmtVisitors
  <2>. QED
    BY <1>2, <1>4, <2>1 DEF IsFrame
<1>6. f.fn \in AwaitsStmt
  BY <1>4 DEF AwaitsStmt
<1>7. Kept
  BY KeptUnchanged
<1>8. Fits(envs', environment', f.fn, ctl')
  BY <1>3, <1>6, StmtFits
<1>9. stack' = <<f>> \o Tail(stack)
  BY DEF f
<1>. QED
  BY <1>4, <1>5, <1>7, <1>8, <1>9, StepBySwap

LEMMA BlocksKeepScope ==
  ASSUME Scoped, BlockLoop \/ BlockExit
  PROVE  ScopeInv'
<1>1. stack # <<>> /\ Top.fn = "execute_block"
  BY DEF BlockLoop, BlockExit, Waiting
<1>2. CASE BlockLoop
  BY <1>1, <1>2, NextStatementKeepsScope DEF BlockLoop, scopeVars, sessionVars
<1>3. CASE BlockExit
  <2>1. /\ environment' = Top.previous /\ Pop /\ UNCHANGED <<ctl, envs, out>>
        /\ ctl.tag \in {"none", "runtime_error", "return"}
    BY <1>3 DEF BlockExit, sessionVars
  <2>2. Resumable
    BY <1>1, ResumeTop
  <2>3. FnOf(Tail(stack)) \in AwaitsStmt /\ IsEnvironmentOf(envs, Top.previous)
    BY <1>1, <2>2 DEF Resumable, IsFrame, StmtVisitors
  <2>4. IsHeap(envs) /\ AreObjectsOf(envs, out) /\ IsControl(envs, environment, ctl)
    BY DEF Scoped, ScopeInv
  <2>5. Grown(envs, envs')
    BY <2>1, <2>4 DEF IsHeap, Grown, HeapGrows, IsChain
  <2>6. Kept
    BY <2>1, <2>3, <2>4, <2>5 DEF Kept
  <2>7. Fits(envs', environment', FnOf(Tail(stack)), ctl)
    BY <2>1, <2>3, <2>4, <2>5, ResultFits
  <2>. QED
    BY <1>1, <2>1, <2>6, <2>7, StepByPop
<1>. QED
  BY <1>2, <1>3

LEMMA InterpretKeepsScope ==
  ASSUME Scoped, NEW statements \in Programs, Interpret(statements)
  PROVE  ScopeInv'
<1> DEFINE f == Frame("interpret", statements, <<>>)
<1>1. /\ ctl.tag = "idle" /\ stack' = <<f>> \o stack /\ ctl' = EXECUTION_RESULT_NONE
      /\ out' = <<>> /\ UNCHANGED <<environment, envs>>
  BY DEF Interpret, scopeVars
<1>2. stack = <<>> /\ environment = Globals
  BY <1>1 DEF Scoped, StackInv, Restored
<1>3. IsHeap(envs) /\ environment \in 1 .. Len(envs)
  BY DEF Scoped, ScopeInv, IsEnvironmentOf
<1>4. IsChain(envs) /\ envs[environment].enclosing = 0
  BY <1>2, <1>3 DEF IsHeap, IsChain, Globals
<1>5. Depth(envs, environment) = 0
  BY <1>3, <1>4, DepthOf
<1>6. AllAt(statements, 0)
  BY TreesAssumption
<1>7. /\ f.fn = "interpret" /\ f.node = statements /\ f.environment = environment
      /\ f.i = 0 /\ f.objects = <<>>
  BY FrameFields
<1>. HIDE DEF f
<1>8. IsFrame(envs', f)
  BY <1>1, <1>3, <1>5, <1>6, <1>7, ListFrame DEF IsEnvironmentOf
<1>9. Kept
  <2>1. Grown(envs, envs')
    BY <1>1, <1>3 DEF IsHeap, Grown, HeapGrows, IsChain
  <2>. QED
    BY <1>1, <1>3, <2>1, NoObjects DEF Kept, IsEnvironmentOf
<1>10. Expects(f.fn, FnOf(stack))
  BY <1>7 DEF Expects, ExprVisitors, StmtVisitors
<1>11. Fits(envs', environment', f.fn, ctl')
  <2>1. "interpret" \in AwaitsStmt
    BY DEF AwaitsStmt
  <2>. QED
    BY <1>1, <1>7, <2>1, StmtFits
<1>. QED
  BY <1>1, <1>7, <1>8, <1>9, <1>10, <1>11, StepByPush

LEMMA InterpretEndsKeepScope ==
  ASSUME Scoped, InterpretLoop \/ InterpretError \/ InterpretReturn \/ StackOverflow
  PROVE  ScopeInv'
<1>1. UNCHANGED <<environment, envs, out>>
  BY DEF InterpretLoop, InterpretError, InterpretReturn, StackOverflow, scopeVars, sessionVars
<1>2. Kept
  BY <1>1, KeptUnchanged
<1>3. CASE InterpretLoop /\ Top.i < Len(Top.node)
  BY <1>1, <1>3, NextStatementKeepsScope DEF InterpretLoop, Waiting
<1>4. CASE InterpretError \/ (InterpretLoop /\ ~(Top.i < Len(Top.node)))
  <2>1. stack # <<>> /\ ctl' = Idle /\ Pop
    BY <1>4 DEF InterpretError, InterpretLoop, Waiting
  <2>2. Fits(envs', environment', FnOf(Tail(stack)), ctl')
    BY <2>1, AbortFits
  <2>. QED
    BY <1>2, <2>1, <2>2, StepByPop
<1>5. CASE InterpretReturn \/ StackOverflow
  <2>1. UNCHANGED stack /\ \E m : ctl' = Abort(m)
    BY <1>5 DEF InterpretReturn, StackOverflow
  <2>2. Fits(envs', environment', FnOf(stack), ctl')
    BY <2>1, AbortFits
  <2>. QED
    BY <1>2, <2>1, <2>2, StepByStay
<1>. QED
  BY <1>3, <1>4, <1>5

(* A step of the interpreter that is handed a program at any time.         *)
ProgramStep == Run \/ (\E p \in Programs : Interpret(p)) \/ UNCHANGED vars

LEMMA NextIsProgramStep == [Next]_vars => ProgramStep
BY DEF Next, ProgramStep

LEMMA ProgramStepSteps == ProgramStep => Step
BY DEF ProgramStep, Step

LEMMA StepKeepsScope ==
  ASSUME Scoped, ArityChecked, ProgramStep
  PROVE  ScopeInv'
<1>1. ASSUME NEW p \in Programs, Interpret(p) PROVE ScopeInv'
  BY <1>1, InterpretKeepsScope
<1>2. CASE InterpretLoop \/ InterpretError \/ InterpretReturn \/ StackOverflow
  BY <1>2, InterpretEndsKeepScope
<1>3. CASE VisitLiteral \/ VisitVariable \/ VisitGrouping \/ lox_clock
  BY <1>3, AnswersKeepScope
<1>4. CASE VisitAssign \/ VisitBinary \/ VisitLogical \/ VisitUnary \/ VisitCall
  BY <1>4, VisitExprsKeepScope
<1>5. CASE VisitExpression \/ VisitPrint \/ VisitIf \/ VisitWhile
  BY <1>5, VisitStmtsKeepScope
<1>6. CASE VisitReturn
  BY <1>6, VisitStmtsKeepScope, EmptyReturnKeepsScope
<1>7. CASE VisitVar
  BY <1>7, VisitStmtsKeepScope, DeclarationsKeepScope
<1>8. CASE VisitFunction
  BY <1>8, DeclarationsKeepScope
<1>9. CASE AssignValue
  BY <1>9, AssignKeepsScope
<1>10. CASE BinaryLeft \/ BinaryRight \/ LogicalLeft \/ UnaryRight
  BY <1>10, OperatorsKeepScope
<1>11. CASE CallOperand
  BY <1>11, OperandKeepsScope
<1>12. CASE CallFunction
  BY <1>12, CallFunctionKeepsScope
<1>13. CASE CallReturns
  BY <1>13, CallReturnsKeepsScope
<1>14. CASE VisitBlock
  BY <1>14, VisitBlockKeepsScope
<1>15. CASE BlockLoop \/ BlockExit
  BY <1>15, BlocksKeepScope
<1>16. CASE ExpressionValue \/ PrintValue \/ ReturnValue
  BY <1>16, ValuesKeepScope
<1>17. CASE VarValue
  BY <1>17, VarValueKeepsScope
<1>18. CASE IfCondition \/ WhileCondition \/ WhileBody
  BY <1>18, BranchesKeepScope
<1>19. CASE UNCHANGED vars
  BY <1>19 DEF vars, Scoped, ScopeInv
<1>. QED
  BY <1>1, <1>2, <1>3, <1>4, <1>5, <1>6, <1>7, <1>8, <1>9, <1>10, <1>11, <1>12, <1>13,
            <1>14, <1>15, <1>16, <1>17, <1>18, <1>19 DEF ProgramStep, Run

LEMMA InitScope ==
  ASSUME Init
  PROVE  Scoped /\ ArityChecked
<1> DEFINE es == <<environment_new>>
           clock == OBJECT_NATIVE_FUNCTION(0, "lox_clock")
<1>1. /\ ctl = Idle /\ stack = <<>> /\ environment = 1 /\ out = <<>>
      /\ envs \in environment_define(es, 1, "clock", clock)
  BY DEF Init, Globals
<1>2. environment_new.enclosing = 0 /\ environment_new.values.bindings = B!NoBindings
  BY DEF environment_new, hash_table_new
<1>3. es \in Seq({environment_new}) /\ Len(es) = 1 /\ es[1] = environment_new
  OBVIOUS
<1>4. IsObjectOf(es, clock)
  BY DEF IsObjectOf, OBJECT_NATIVE_FUNCTION
<1>. HIDE DEF es, clock
<1>5. IsChain(es)
  BY <1>2, <1>3 DEF IsChain
<1>6. es \in Seq(Elements(es))
  BY <1>3, SequenceOfElements
<1>7. IsHeap(es)
  BY <1>2, <1>3, <1>5, <1>6, NoBindingsAreObjects DEF IsHeap
<1>8. 1 \in 1 .. Len(es)
  BY <1>3
<1>9. IsHeap(envs) /\ SameScopes(es, envs)
  BY <1>1, <1>4, <1>7, <1>8, DefineKeepsHeap
<1>10. IsEnvironmentOf(envs, environment)
  BY <1>1, <1>3, <1>9 DEF SameScopes, IsEnvironmentOf
<1>11. Len(stack) = 0 /\ stack \in Seq({})
  BY <1>1
<1>12. IsStack(envs, stack)
  BY <1>11 DEF IsStack
<1>13. Fits(envs, environment, FnOf(stack), ctl)
  BY <1>1, AbortFits
<1>14. ScopeInv
  BY <1>1, <1>9, <1>10, <1>12, <1>13, NoObjects DEF ScopeInv, Fits
<1>15. StackInv
  BY <1>1, <1>11 DEF StackInv, Restored, Grounded, Globals
<1>16. ArityChecked
  BY <1>1 DEF Idle, ArityChecked
<1>. QED
  BY <1>14, <1>15, <1>16 DEF Scoped

-----------------------------------------------------------------------------
(* The inductive invariant: the discipline of the stack, the checked calls *)
(* and ScopeInv hold each other up.  A body runs at the right depth because*)
(* the callee is a well-made function object, arguments are objects because*)
(* there are as many as parameters, and a visitor that is resumed finds    *)
(* the environment it left.                                                *)
Scoping == Scoped /\ ArityChecked

LEMMA InitScoping == Init => Scoping
BY InitScope DEF Scoping

LEMMA StepScoping ==
  ASSUME Scoping, ProgramStep
  PROVE  Scoping'
<1>1. StackInv'
  BY ProgramStepSteps, StepShapes, ShapesKeepStackInv DEF Scoping, Scoped, Shapes
<1>2. ScopeInv'
  BY StepKeepsScope DEF Scoping
<1>3. ArityChecked'
  BY ProgramStepSteps, StepCalls DEF Scoping, CallStep, ArityChecked
<1>. QED
  BY <1>1, <1>2, <1>3 DEF Scoping, Scoped

(* Wherever a function object is, in a table of any environment, among the *)
(* objects of a waiting visitor or as a result, its closure is an          *)
(* environment as deep as its declaration is in the text, and every list   *)
(* of statements that waits to be run belongs to the environment it will   *)
(* be run in: OBJECT_FUNCTION keeps interpreter->environment, and nothing  *)
(* that defines, assigns, rehashes, passes or returns it loses that.       *)
THEOREM FunctionsKnowTheirScope == Spec => []ScopeInv
<1>1. Scoping => ScopeInv
  BY DEF Scoping, Scoped
<1>2. Scoping /\ [Next]_vars => Scoping'
  BY NextIsProgramStep, StepScoping
<1>. QED
  BY <1>1, <1>2, InitScoping, PTL DEF Spec

(* For every program whose tree is whole, every depth of recursion and     *)
(* every session at the prompt, a statement runs in an environment nested  *)
(* as deeply as the statement is in the text: interpreter_call encloses    *)
(* the parameters in f->closure, not in interpreter->environment.          *)
THEOREM ScopingIsLexical == Spec => []LexicalScoping
<1>1. Scoping => LexicalScoping
  BY DEF Scoping, Scoped, ScopeInv, LexicalScoping, IsControl, IsBranch
<1>2. Scoping /\ [Next]_vars => Scoping'
  BY NextIsProgramStep, StepScoping
<1>. QED
  BY <1>1, <1>2, InitScoping, PTL DEF Spec

-----------------------------------------------------------------------------
(* The flags. *)
LEMMA NextFlags ==
  ASSUME {HadRuntimeError, raised, swallowed} \subseteq BOOLEAN, [Next]_vars
  PROVE  {HadRuntimeError', raised', swallowed'} \subseteq BOOLEAN
<1>1. raised' \in BOOLEAN
  BY NextSteps, StepFlag DEF FlagInv
<1>2. HadRuntimeError' \in BOOLEAN /\ swallowed' \in BOOLEAN
  <2>. USE DEF sessionVars
  <2>1. ASSUME NEW p, Interpret(p) PROVE HadRuntimeError' \in BOOLEAN /\ swallowed' \in BOOLEAN
    BY <2>1 DEF Interpret
  <2>2. CASE UNCHANGED <<HadRuntimeError, swallowed>>
    BY <2>2
  <2>3. CASE InterpretError
    BY <2>3 DEF InterpretError, library_runtime_error
  <2>4. CASE WhileBody
    BY <2>4 DEF WhileBody
  <2>5. CASE InterpretLoop \/ InterpretReturn \/ VisitLiteral \/ VisitVariable \/ VisitGrouping
             \/ AssignValue \/ BinaryLeft \/ BinaryRight \/ LogicalLeft \/ UnaryRight \/ CallOperand
             \/ lox_clock \/ StackOverflow \/ CallReturns \/ BlockLoop \/ BlockExit
    <3>1. UNCHANGED <<HadRuntimeError, swallowed>>
      BY <2>5 DEF InterpretLoop, InterpretReturn, VisitLiteral, VisitVariable, VisitGrouping,
             AssignValue, BinaryLeft, BinaryRight, LogicalLeft, UnaryRight, CallOperand,
             lox_clock, StackOverflow, CallReturns, BlockLoop, BlockExit
    <3>. QED
      BY <2>2, <3>1
  <2>6. CASE CallFunction \/ VisitBlock \/ VisitFunction
    <3>1. UNCHANGED <<HadRuntimeError, swallowed>>
      BY <2>6 DEF CallFunction, VisitBlock, VisitFunction, EnterBlock
    <3>. QED
      BY <2>2, <3>1
  <2>7. CASE VisitAssign \/ VisitBinary \/ VisitLogical \/ VisitUnary \/ VisitCall
             \/ VisitExpression \/ VisitPrint \/ VisitIf \/ VisitWhile \/ VisitReturn \/ VisitVar
    <3>1. UNCHANGED <<HadRuntimeError, swallowed>>
      BY <2>7 DEF VisitAssign, VisitBinary, VisitLogical, VisitUnary, VisitCall, VisitExpression,
              VisitPrint, VisitIf, VisitWhile, VisitReturn, VisitVar, Await
    <3>. QED
      BY <2>2, <3>1
  <2>8. CASE ExpressionValue \/ PrintValue \/ ReturnValue \/ IfCondition \/ VarValue \/ WhileCondition
    <3>1. UNCHANGED <<HadRuntimeError, swallowed>>
      BY <2>8 DEF ExpressionValue, PrintValue, ReturnValue, IfCondition, VarValue, WhileCondition
    <3>. QED
      BY <2>2, <3>1
  <2>9. CASE UNCHANGED vars
    BY <2>2, <2>9 DEF vars
  <2>. QED
    BY <2>1, <2>3, <2>4, <2>5, <2>6, <2>7, <2>8, <2>9 DEF Next, Run
<1>. QED
  BY <1>1, <1>2

Flags == {HadRuntimeError, raised, swallowed} \subseteq BOOLEAN

LEMMA ScopedIsTyped ==
  ASSUME Scoped, Flags
  PROVE  TypeOK
<1>0. ScopeInv /\ (ctl.tag = "idle" => stack = <<>>)
  BY DEF Scoped, StackInv
<1>1. ASSUME NEW obj, IsObjectOf(envs, obj) PROVE IsObject(obj)
  BY <1>1 DEF IsObjectOf, IsObject, IsClosure, IsEnvironmentOf, IsEnvironment
<1>2. ASSUME NEW l, AreObjectsOf(envs, l), NEW n \in 1 .. Len(l) PROVE IsObject(l[n])
  BY <1>1, <1>2 DEF AreObjectsOf, Elements
<1>3. IsEnvironment(environment)
  BY <1>0 DEF ScopeInv, IsEnvironmentOf, IsEnvironment
<1>4. ASSUME NEW e \in 1 .. Len(envs)
      PROVE  /\ envs[e].enclosing \in 0 .. e - 1
             /\ \A name \in Names : \A n \in 1 .. Len(envs[e].values.bindings[name]) :
                  IsObject(envs[e].values.bindings[name][n])
  <2>1. \A name \in Names : AreObjectsOf(envs, envs[e].values.bindings[name])
    BY <1>0 DEF ScopeInv, IsHeap, AreBindingsOf
  <2>2. envs[e].enclosing \in 0 .. e - 1
    BY <1>0 DEF ScopeInv, IsHeap, IsChain
  <2>. QED
    BY <1>2, <2>1, <2>2
<1>5. ASSUME NEW n \in 1 .. Len(stack)
      PROVE  /\ stack[n].fn \in AwaitsExpr \cup AwaitsStmt
             /\ stack[n].fn = "execute_block" => IsEnvironment(stack[n].previous)
             /\ \A m \in 1 .. Len(stack[n].objects) : IsObject(stack[n].objects[m])
  <2>1. IsFrame(envs, stack[n])
    BY <1>0 DEF ScopeInv, IsStack
  <2>2. stack[n].fn \in ExprVisitors \cup StmtVisitors \cup {"interpret"}
    BY <2>1 DEF IsFrame
  <2>3. stack[n].fn \in AwaitsExpr \cup AwaitsStmt
    BY <2>2 DEF ExprVisitors, StmtVisitors, AwaitsExpr, AwaitsStmt
  <2>4. stack[n].fn = "execute_block" => IsEnvironment(stack[n].previous)
    BY <2>1 DEF IsFrame, IsEnvironmentOf, IsEnvironment
  <2>5. AreObjectsOf(envs, stack[n].objects)
    BY <2>1 DEF IsFrame
  <2>. QED
    BY <1>2, <2>3, <2>4, <2>5
<1>6. (CASE ctl.tag = "idle" -> stack = <<>>
        [] ctl.tag \in {"evaluate", "call", "ok", "error"} -> Top.fn \in AwaitsExpr
        [] ctl.tag \in {"execute", "none", "runtime_error", "return"} -> Top.fn \in AwaitsStmt
        [] ctl.tag = "abort" -> TRUE)
  <2>1. ctl.tag \in ExprTags \cup StmtTags \cup {"idle", "abort"}
    BY <1>0 DEF ScopeInv, IsControl
  <2>2. "none" \notin AwaitsExpr \cup AwaitsStmt
    BY DEF AwaitsExpr, AwaitsStmt
  <2>3. ctl.tag \in ExprTags => Top.fn \in AwaitsExpr
    BY <1>0, <2>2 DEF ScopeInv, IsAwaited, FnOf, Top
  <2>4. ctl.tag \in StmtTags => Top.fn \in AwaitsStmt
    BY <1>0, <2>2 DEF ScopeInv, IsAwaited, FnOf, Top
  <2>. QED
    BY <1>0, <2>1, <2>3, <2>4 DEF ExprTags, StmtTags
<1>7. ctl.tag \in {"ok", "return"} => IsObject(ctl.value)
  BY <1>0, <1>1 DEF ScopeInv, IsControl
<1>8. \A n \in 1 .. Len(out) : IsObject(out[n])
  BY <1>0, <1>2 DEF ScopeInv
<1>. QED
  BY <1>3, <1>4, <1>5, <1>6, <1>7, <1>8 DEF TypeOK, Flags

(* The members of the unions object, interpret_result and execution_result *)
(* are read as what they were written as, every environment pointer points *)
(* into the heap, and the chain of enclosing environments ends, in every   *)
(* state of every session.                                                 *)
THEOREM InterpreterIsTyped == Spec => []TypeOK
<1> DEFINE Inv == Scoping /\ Flags
<1>1. Init => Inv
  <2>1. Init => Flags
    BY DEF Init, Flags
  <2>. QED
    BY <2>1, InitScoping
<1>2. ASSUME Inv, [Next]_vars
      PROVE  Inv'
  <2>1. Flags'
    BY <1>2, NextFlags DEF Flags
  <2>. QED
    BY <1>2, <2>1, NextIsProgramStep, StepScoping
<1>3. Inv => TypeOK
  BY ScopedIsTyped DEF Scoping
<1>. QED
  BY <1>1, <1>2, <1>3, PTL DEF Spec

-----------------------------------------------------------------------------
(* Names that stay bound.                                                  *)
BoundStays(es, fs) ==
  /\ Len(es) <= Len(fs)
  /\ \A e \in 1 .. Len(es) : \A name \in Names :
       B!IsBound(es[e].values.bindings, name) => B!IsBound(fs[e].values.bindings, name)

LEMMA BoundStaysOn ==
  ASSUME NEW es, NEW fs, NEW gs, Len(es) \in Nat, Len(fs) \in Nat, Len(gs) \in Nat,
         BoundStays(es, fs), BoundStays(fs, gs)
  PROVE  BoundStays(es, gs)
<1>1. 1 .. Len(es) \subseteq 1 .. Len(fs) /\ Len(es) <= Len(gs)
  BY DEF BoundStays
<1>. QED
  BY <1>1 DEF BoundStays

(* A rotation of a list is empty only if the list is.                      *)
LEMMA RotationLength ==
  ASSUME NEW es, NEW l, AreObjectsOf(es, l), NEW t, B!RotationOf(l, t), l # <<>>
  PROVE  t # <<>>
<1>1. PICK r \in 0 .. Len(l) : t = SubSeq(l, r + 1, Len(l)) \o SubSeq(l, 1, r)
  BY DEF B!RotationOf, B!Rotate
<1> DEFINE X == Elements(l)
           u == SubSeq(l, r + 1, Len(l))
           v == SubSeq(l, 1, r)
<1>2. l \in Seq(X)
  BY DEF AreObjectsOf
<1>. HIDE DEF X
<1>3. u \in Seq(X) /\ v \in Seq(X) /\ Len(u) = Len(l) - r /\ Len(v) = r
  BY <1>2
<1>4. t = u \o v
  BY <1>1
<1>. HIDE DEF u, v
<1>5. Len(u \o v) = Len(u) + Len(v) /\ u \o v \in Seq(X)
  BY <1>3
<1>6. Len(l) \in Nat /\ Len(l) # 0
  BY <1>2
<1>7. Len(u \o v) # 0
  BY <1>3, <1>5, <1>6
<1>. QED
  BY <1>4, <1>5, <1>7

LEMMA InsertBinds ==
  ASSUME NEW es, NEW table, AreBindingsOf(es, table.bindings), NEW name, NEW obj,
         NEW t \in hash_table_insert(table, name, obj)
  PROVE  /\ \A m \in Names : B!IsBound(table.bindings, m) => B!IsBound(t.bindings, m)
         /\ name \in Names => B!IsBound(t.bindings, name)
<1>1. PICK b, Y : /\ b \in [Names -> Y]
                  /\ t.bindings = B!Bind(b, name, obj)
                  /\ \A m \in Names : B!IsBound(table.bindings, m) => b[m] # <<>>
                  /\ \A m \in Names : AreObjectsOf(es, b[m])
  <2>1. CASE NeedsRehash(table)
    <3>1. PICK b \in B!Rehashed(table.bindings) : t.bindings = B!Bind(b, name, obj)
      BY <2>1 DEF hash_table_insert
    <3>2. PICK Y : b \in [Names -> Y] /\ \A k \in Names : B!RotationOf(table.bindings[k], b[k])
      BY <3>1 DEF B!Rehashed
    <3>3. \A m \in Names : B!IsBound(table.bindings, m) => b[m] # <<>>
      BY <3>2, RotationLength DEF AreBindingsOf, B!IsBound
    <3>4. \A m \in Names : AreObjectsOf(es, b[m])
      BY <3>2, RotateObjects DEF AreBindingsOf
    <3>. QED
      BY <3>1, <3>2, <3>3, <3>4
  <2>2. CASE ~NeedsRehash(table)
    <3>1. t.bindings = B!Bind(table.bindings, name, obj)
      BY <2>2 DEF hash_table_insert
    <3>. QED
      BY <3>1 DEF AreBindingsOf, B!IsBound
  <2>. QED
    BY <2>1, <2>2
<1>2. t.bindings = [b EXCEPT ![name] = Append(b[name], obj)]
  BY <1>1 DEF B!Bind
<1>3. ASSUME NEW m \in Names PROVE Append(b[m], obj) # <<>>
  <2>1. PICK X : b[m] \in Seq(X)
    BY <1>1 DEF AreObjectsOf
  <2>. QED
    BY <2>1
<1>4. ASSUME NEW m \in Names
      PROVE  t.bindings[m] = IF m = name THEN Append(b[m], obj) ELSE b[m]
  BY <1>1, <1>2
<1>. QED
  BY <1>1, <1>3, <1>4 DEF B!IsBound

LEMMA WithBinds ==
  ASSUME NEW es, IsHeap(es), NEW e \in 1 .. Len(es), NEW table,
         \A m \in Names : B!IsBound(es[e].values.bindings, m) => B!IsBound(table.bindings, m)
  PROVE  BoundStays(es, With(es, e, table)) /\ With(es, e, table)[e].values = table
<1> DEFINE fs == With(es, e, table)
           env == [enclosing |-> es[e].enclosing, values |-> table]
<1>1. es \in Seq(Elements(es))
  BY DEF IsHeap
<1>2. env.values = table
  OBVIOUS
<1>3. fs = [es EXCEPT ![e] = env]
  BY DEF With
<1>. HIDE DEF fs, env
<1>4. Len(fs) = Len(es) /\ Len(es) \in Nat
  BY <1>1, <1>3
<1>5. \A k \in 1 .. Len(es) : fs[k] = IF k = e THEN env ELSE es[k]
  BY <1>1, <1>3
<1>6. BoundStays(es, fs)
  BY <1>2, <1>4, <1>5 DEF BoundStays
<1>7. fs[e].values = table
  BY <1>2, <1>5
<1>. QED
  BY <1>6, <1>7 DEF fs

LEMMA DefineBinds ==
  ASSUME NEW es, IsHeap(es), NEW e \in 1 .. Len(es), NEW name, NEW obj,
         NEW fs \in environment_define(es, e, name, obj)
  PROVE  /\ BoundStays(es, fs)
         /\ name \in Names => B!IsBound(fs[e].values.bindings, name)
<1>1. PICK t \in hash_table_insert(es[e].values, name, obj) : fs = With(es, e, t)
  BY DEF environment_define, With
<1>2. AreBindingsOf(es, es[e].values.bindings)
  BY DEF IsHeap
<1>3. /\ \A m \in Names : B!IsBound(es[e].values.bindings, m) => B!IsBound(t.bindings, m)
      /\ name \in Names => B!IsBound(t.bindings, name)
  BY <1>1, <1>2, InsertBinds
<1>. QED
  BY <1>1, <1>3, WithBinds

LEMMA AssignBinds ==
  ASSUME NEW es, IsHeap(es), NEW e \in 1 .. Len(es), NEW name \in Names,
         Holder(es, e, name) # 0, NEW obj
  PROVE  BoundStays(es, environment_assign(es, e, name, obj))
<1> DEFINE h == Holder(es, e, name)
           old == es[h].values
           t == [len |-> old.len, cap |-> old.cap,
                 bindings |-> B!ReplaceFirst(old.bindings, name, obj)]
<1>1. IsChain(es) /\ e \in 0 .. Len(es)
  BY DEF IsHeap, IsChain
<1>2. h \in 0 .. Len(es) /\ B!IsBound(es[h].values.bindings, name)
  BY <1>1, HolderBinds
<1>3. environment_assign(es, e, name, obj) = With(es, h, t)
  BY DEF environment_assign, With
<1>4. t.bindings = B!ReplaceFirst(old.bindings, name, obj)
  OBVIOUS
<1>. HIDE DEF h, t
<1>5. h \in 1 .. Len(es) /\ old.bindings[name] # <<>>
  BY <1>2 DEF B!IsBound, h
<1>6. AreBindingsOf(es, old.bindings)
  BY <1>5 DEF IsHeap
<1> DEFINE r == <<obj>> \o Tail(old.bindings[name])
<1>7. r # <<>>
  <2>1. PICK X : old.bindings[name] \in Seq(X)
    BY <1>6 DEF AreBindingsOf, AreObjectsOf
  <2>2. Tail(old.bindings[name]) \in Seq(X)
    BY <1>5, <2>1
  <2>. QED
    BY <2>2
<1>8. t.bindings = [old.bindings EXCEPT ![name] = r]
  BY <1>4 DEF B!ReplaceFirst
<1>. HIDE DEF r
<1>9. \A m \in Names : t.bindings[m] = IF m = name THEN r ELSE old.bindings[m]
  BY <1>6, <1>8 DEF AreBindingsOf
<1>10. \A m \in Names : B!IsBound(old.bindings, m) => B!IsBound(t.bindings, m)
  BY <1>7, <1>9 DEF B!IsBound
<1>. QED
  BY <1>3, <1>5, <1>10, WithBinds

LEMMA OpenBinds ==
  ASSUME NEW es, IsHeap(es), NEW env
  PROVE  BoundStays(es, Append(es, env))
<1>1. es \in Seq(Elements(es))
  BY DEF IsHeap
<1> DEFINE fs == Append(es, env)
<1>2. Len(fs) = Len(es) + 1 /\ Len(es) \in Nat /\ \A k \in 1 .. Len(es) : fs[k] = es[k]
  BY <1>1
<1>. HIDE DEF fs
<1>3. BoundStays(es, fs)
  BY <1>2 DEF BoundStays
<1>. QED
  BY <1>3 DEF fs

LEMMA ParametersBind ==
  ASSUME NEW es, IsHeap(es), NEW e \in 1 .. Len(es), NEW params \in Seq(Names), NEW arguments,
         Len(arguments) = Len(params), AreObjectsOf(es, arguments),
         NEW fs \in WithParameters(es, e, params, arguments)
  PROVE  BoundStays(es, fs) /\ BindsAll(fs[e].values, params)
<1> DEFINE Bound(d, n) ==
             /\ IsHeap(d) /\ SameScopes(es, d) /\ BoundStays(es, d)
             /\ \A k \in 1 .. n : B!IsBound(d[e].values.bindings, params[k])
           C == CHOOSE f : IsDefined(es, e, params, arguments, Len(params), f)
           After(heaps, n) == UNION {environment_define(d, e, params[n], arguments[n]) : d \in heaps}
           T == {n \in 0 .. Len(params) : \E d \in C[n] : ~Bound(d, n)}
<1>0. Len(params) \in Nat /\ Len(es) \in Nat
  BY DEF IsHeap, IsChain
<1>1. WithParameters(es, e, params, arguments) = C[Len(params)]
  BY DEF WithParameters, IsDefined
<1>2. Len(params) \in 0 .. Len(params)
  BY <1>0
<1>3. IsDefined(es, e, params, arguments, Len(params), C)
  BY <1>0, <1>2, DefinedExists
<1>. HIDE DEF C
<1>3a. \A n \in 0 .. Len(params) : C[n] = IF n = 0 THEN {es} ELSE After(C[n - 1], n)
  BY <1>3 DEF IsDefined
<1>4. C[0] = {es}
  BY <1>3, <1>0 DEF IsDefined
<1>5. ASSUME NEW n \in 1 .. Len(params), NEW d \in C[n]
      PROVE  \E c \in C[n - 1] : d \in environment_define(c, e, params[n], arguments[n])
  <2>1. C[n] = After(C[n - 1], n)
    <3>. HIDE DEF After
    <3>. QED
      BY <1>3a, <1>0
  <2>. QED
    BY <2>1
<1>6. Bound(es, 0)
  BY <1>0 DEF SameScopes, BoundStays
<1>7. ASSUME NEW n \in 1 .. Len(params), NEW c, Bound(c, n - 1),
             NEW d \in environment_define(c, e, params[n], arguments[n])
      PROVE  Bound(d, n)
  <2>1. IsObjectOf(es, arguments[n])
    BY DEF AreObjectsOf, Elements
  <2>2. Grown(es, c)
    BY <1>7, SameScopesGrow DEF IsHeap
  <2>3. IsObjectOf(c, arguments[n])
    BY <2>1, <2>2, ObjectStays
  <2>4. e \in 1 .. Len(c) /\ Len(c) = Len(es)
    BY <1>7 DEF SameScopes
  <2>5. IsHeap(d) /\ SameScopes(c, d)
    BY <1>7, <2>3, <2>4, DefineKeepsHeap
  <2>6. SameScopes(es, d) /\ Len(d) = Len(c)
    BY <1>7, <2>5 DEF SameScopes
  <2>7. params[n] \in Names
    BY <1>0
  <2>8. BoundStays(c, d) /\ B!IsBound(d[e].values.bindings, params[n])
    BY <1>7, <2>4, <2>7, DefineBinds
  <2>9. BoundStays(es, d)
    BY <1>0, <1>7, <2>4, <2>6, <2>8, BoundStaysOn
  <2>10. ASSUME NEW k \in 1 .. n PROVE B!IsBound(d[e].values.bindings, params[k])
    <3>1. CASE k = n
      BY <2>8, <3>1
    <3>2. CASE k # n
      <4>1. k \in 1 .. n - 1 /\ params[k] \in Names
        BY <1>0, <3>2
      <4>2. B!IsBound(c[e].values.bindings, params[k])
        BY <1>7, <4>1
      <4>. QED
        BY <2>4, <2>8, <4>1, <4>2 DEF BoundStays
    <3>. QED
      BY <3>1, <3>2
  <2>. QED
    BY <2>5, <2>6, <2>9, <2>10
<1>. HIDE DEF Bound
<1>8. ASSUME T # {} PROVE FALSE
  <2>1. T \subseteq Nat
    BY <1>0
  <2>2. PICK m \in T : \A k \in T : m <= k
     <3>. HIDE DEF T
     <3>. QED
       BY <2>1, <1>8, Least
  <2>3. PICK d \in C[m] : m \in 0 .. Len(params) /\ ~Bound(d, m)
    BY <2>2
  <2>4. m # 0
    BY <2>3, <1>4, <1>6
  <2>5. m \in 1 .. Len(params)
    BY <1>0, <2>3, <2>4
  <2>6. PICK c \in C[m - 1] : d \in environment_define(c, e, params[m], arguments[m])
    BY <1>5, <2>3, <2>5
  <2>7. m - 1 \in 0 .. Len(params) /\ ~(m <= m - 1)
    BY <1>0, <2>5
  <2>8. m - 1 \notin T
    BY <2>2, <2>7
  <2>9. Bound(c, m - 1)
    BY <2>6, <2>7, <2>8
  <2>. QED
    BY <1>7, <2>3, <2>5, <2>6, <2>9
<1>9. Bound(fs, Len(params))
  BY <1>1, <1>2, <1>8
<1>. QED
  BY <1>9 DEF Bound, BindsAll

-----------------------------------------------------------------------------
(* The calls on a stack.                                                   *)

(* If the call below f is interpreter_call, f is the block of its body.    *)
CallBelow(es, f, frames) ==
  FnOf(frames) = "interpreter_call" =>
    /\ f.fn = "execute_block"
    /\ \A m \in 1 .. Len(frames) : frames[m].environment < f.environment
    /\ Head(frames).node.params \in Seq(Names)
    /\ BindsAll(es[f.environment].values, Head(frames).node.params)

CallsFit(es, frames) ==
  \A n \in 1 .. Len(frames) - 1 :
    frames[n + 1].fn = "interpreter_call" =>
      /\ frames[n].fn = "execute_block"
      /\ \A m \in n + 1 .. Len(frames) : frames[m].environment < frames[n].environment
      /\ frames[n + 1].node.params \in Seq(Names)
      /\ BindsAll(es[frames[n].environment].values, frames[n + 1].node.params)

LEMMA PushCalls ==
  ASSUME NEW S, NEW es, NEW frames \in Seq(S), NEW f, CallsFit(es, frames), CallBelow(es, f, frames)
  PROVE  CallsFit(es, <<f>> \o frames)
<1> DEFINE pushed == <<f>> \o frames
<1>1. /\ Len(pushed) = Len(frames) + 1 /\ Len(frames) \in Nat
      /\ pushed[1] = f
      /\ \A n \in 1 .. Len(frames) : pushed[n + 1] = frames[n]
      /\ frames # <<>> => Head(frames) = frames[1]
      /\ frames = <<>> => Len(frames) = 0
  OBVIOUS
<1>. HIDE DEF pushed
<1>2. ASSUME NEW n \in 1 .. Len(pushed) - 1, pushed[n + 1].fn = "interpreter_call"
      PROVE  /\ pushed[n].fn = "execute_block"
             /\ \A m \in n + 1 .. Len(pushed) : pushed[m].environment < pushed[n].environment
             /\ pushed[n + 1].node.params \in Seq(Names)
             /\ BindsAll(es[pushed[n].environment].values, pushed[n + 1].node.params)
  <2>1. ASSUME NEW m \in n + 1 .. Len(pushed)
        PROVE  m - 1 \in n .. Len(frames) /\ m - 1 \in 1 .. Len(frames) /\ pushed[m] = frames[m - 1]
    <3>1. m - 1 \in 1 .. Len(frames) /\ m - 1 \in n .. Len(frames) /\ (m - 1) + 1 = m
      BY <1>1
    <3>. QED
      BY <1>1, <3>1
  <2>2. CASE n = 1
    <3>1. frames # <<>> /\ Head(frames) = frames[1] /\ pushed[n + 1] = frames[1] /\ pushed[n] = f
      BY <1>1, <2>2
    <3>2. FnOf(frames) = "interpreter_call"
      BY <1>2, <3>1 DEF FnOf
    <3>. QED
      BY <2>1, <3>1, <3>2 DEF CallBelow
  <2>3. CASE n # 1
    <3>1. n - 1 \in 1 .. Len(frames) - 1 /\ (n - 1) + 1 = n /\ n \in 1 .. Len(frames)
      BY <1>1, <2>3
    <3>2. pushed[n] = frames[n - 1] /\ pushed[n + 1] = frames[(n - 1) + 1]
      BY <1>1, <3>1
    <3>3. /\ frames[n - 1].fn = "execute_block"
          /\ \A m \in (n - 1) + 1 .. Len(frames) : frames[m].environment < frames[n - 1].environment
          /\ frames[(n - 1) + 1].node.params \in Seq(Names)
          /\ BindsAll(es[frames[n - 1].environment].values, frames[(n - 1) + 1].node.params)
      BY <1>2, <3>1, <3>2 DEF CallsFit
    <3>. QED
      BY <2>1, <3>1, <3>2, <3>3
  <2>. QED
    BY <2>2, <2>3
<1>3. CallsFit(es, pushed)
  BY <1>2 DEF CallsFit
<1>. QED
  BY <1>3 DEF pushed

LEMMA PopCalls ==
  ASSUME NEW S, NEW es, NEW frames \in Seq(S), frames # <<>>, CallsFit(es, frames)
  PROVE  CallsFit(es, Tail(frames)) /\ CallBelow(es, Head(frames), Tail(frames))
<1> DEFINE rest == Tail(frames)
<1>1. /\ rest \in Seq(S)
      /\ Len(rest) = Len(frames) - 1
      /\ Len(frames) \in Nat
      /\ Len(frames) >= 1
      /\ Head(frames) = frames[1]
      /\ \A n \in 1 .. Len(rest) : rest[n] = frames[n + 1]
  OBVIOUS
<1>. HIDE DEF rest
<1>2. rest # <<>> => Head(rest) = rest[1] /\ Len(rest) >= 1
  BY <1>1
<1>3. ASSUME NEW n \in 1 .. Len(rest) - 1, rest[n + 1].fn = "interpreter_call"
      PROVE  /\ rest[n].fn = "execute_block"
             /\ \A m \in n + 1 .. Len(rest) : rest[m].environment < rest[n].environment
             /\ rest[n + 1].node.params \in Seq(Names)
             /\ BindsAll(es[rest[n].environment].values, rest[n + 1].node.params)
  <2>1. n + 1 \in 1 .. Len(frames) - 1 /\ rest[n] = frames[n + 1] /\ rest[n + 1] = frames[(n + 1) + 1]
    BY <1>1
  <2>2. \A m \in n + 1 .. Len(rest) : m + 1 \in (n + 1) + 1 .. Len(frames) /\ rest[m] = frames[m + 1]
    BY <1>1
  <2>. QED
    BY <1>3, <2>1, <2>2 DEF CallsFit
<1>4. CallsFit(es, rest)
  BY <1>3 DEF CallsFit
<1>5. ASSUME FnOf(rest) = "interpreter_call"
      PROVE  /\ frames[1].fn = "execute_block"
             /\ \A m \in 1 .. Len(rest) : rest[m].environment < frames[1].environment
             /\ Head(rest).node.params \in Seq(Names)
             /\ BindsAll(es[frames[1].environment].values, Head(rest).node.params)
  <2>1. rest # <<>> /\ Head(rest).fn = "interpreter_call"
    BY <1>5 DEF FnOf
  <2>2. 1 \in 1 .. Len(frames) - 1 /\ Head(rest) = frames[1 + 1]
    BY <1>1, <1>2, <2>1
  <2>3. \A m \in 1 .. Len(rest) : m + 1 \in 1 + 1 .. Len(frames) /\ rest[m] = frames[m + 1]
    BY <1>1
  <2>. QED
    BY <2>1, <2>2, <2>3 DEF CallsFit
<1>6. CallBelow(es, Head(frames), rest)
  BY <1>1, <1>5 DEF CallBelow
<1>. QED
  BY <1>4, <1>6 DEF rest

LEMMA CallsStay ==
  ASSUME NEW es, NEW fs, NEW frames, Len(frames) \in Nat, IsStack(es, frames), BoundStays(es, fs),
         CallsFit(es, frames)
  PROVE  CallsFit(fs, frames)
<1>1. ASSUME NEW n \in 1 .. Len(frames) - 1, frames[n + 1].fn = "interpreter_call"
      PROVE  BindsAll(fs[frames[n].environment].values, frames[n + 1].node.params)
  <2> DEFINE params == frames[n + 1].node.params
             e == frames[n].environment
  <2>1. e \in 1 .. Len(es)
    BY DEF IsStack, IsFrame, IsEnvironmentOf
  <2>2. params \in Seq(Names) /\ BindsAll(es[e].values, params)
    BY <1>1 DEF CallsFit
  <2>. HIDE DEF params, e
  <2>3. ASSUME NEW k \in 1 .. Len(params) PROVE B!IsBound(fs[e].values.bindings, params[k])
    <3>1. params[k] \in Names
      BY <2>2
    <3>2. B!IsBound(es[e].values.bindings, params[k])
      BY <2>2 DEF BindsAll
    <3>. QED
      BY <2>1, <3>1, <3>2 DEF BoundStays
  <2>4. BindsAll(fs[e].values, params)
    BY <2>3 DEF BindsAll
  <2>. QED
    BY <2>4 DEF params, e
<1>. QED
  BY <1>1 DEF CallsFit

-----------------------------------------------------------------------------
(* What a step does to the calls in progress, other than making one.  A    *)
(* statement is begun only by the loops over lists and by if and while, so *)
(* interpreter_call waits for nothing but the block of its body.           *)
CallInv ==
  /\ CallsFit(envs, stack)
  /\ ctl.tag = "execute" => FnOf(stack) # "interpreter_call"

PushesVisitor(f) ==
  /\ stack' = <<f>> \o stack
  /\ ctl.tag \in {"idle", "evaluate", "execute"}
  /\ f.fn # "interpreter_call"

SwapsVisitor(f) ==
  /\ stack # <<>>
  /\ stack' = <<f>> \o Tail(stack)
  /\ f.fn # "interpreter_call"
  /\ f.environment = Top.environment
  /\ Top.fn = "execute_block" => f.fn = "execute_block"

PopsVisitor ==
  /\ stack # <<>>
  /\ stack' = Tail(stack)
  /\ ctl'.tag = "execute" => Top.fn # "execute_block"

StaysVisitor ==
  /\ stack' = stack
  /\ ctl'.tag = "execute" => ctl.tag = "execute"

Moves ==
  \/ \E f : PushesVisitor(f)
  \/ \E f : SwapsVisitor(f)
  \/ PopsVisitor
  \/ StaysVisitor

LEMMA AwaitMoves ==
  ASSUME NEW fn, NEW node, NEW child, Await(Frame(fn, node, <<>>), child),
         fn # "interpreter_call", ctl.tag \in {"evaluate", "execute"}
  PROVE  Moves
<1> DEFINE f == Frame(fn, node, <<>>)
<1>1. f.fn = fn
  BY FrameFields
<1>2. PushesVisitor(f)
  BY <1>1 DEF Await, PushesVisitor
<1>. QED
  BY <1>2 DEF Moves

LEMMA ContinueMoves ==
  ASSUME Scoped, stack # <<>>, Top.fn # "execute_block", NEW fn, NEW node, NEW objects,
         stack' = <<Frame(fn, node, objects)>> \o Tail(stack), fn # "interpreter_call"
  PROVE  Moves
<1> DEFINE f == Frame(fn, node, objects)
<1>1. f.fn = fn /\ f.environment = environment
  BY FrameFields
<1>2. Top.environment = environment
  BY ResumeTop DEF Resumable
<1>3. SwapsVisitor(f)
  BY <1>1, <1>2 DEF SwapsVisitor
<1>. QED
  BY <1>3 DEF Moves

LEMMA AdvanceMoves ==
  ASSUME stack # <<>>, Top.fn # "interpreter_call", stack' = <<Advanced(Top)>> \o Tail(stack)
  PROVE  Moves
<1> DEFINE f == Advanced(Top)
<1>1. f.fn = Top.fn /\ f.environment = Top.environment
  BY DEF Advanced
<1>2. SwapsVisitor(f)
  BY <1>1 DEF SwapsVisitor
<1>. QED
  BY <1>2 DEF Moves

LEMMA PopMoves ==
  ASSUME stack # <<>>, Pop, Top.fn # "execute_block"
  PROVE  Moves
BY DEF Pop, PopsVisitor, Moves

LEMMA StepMoves ==
  ASSUME Scoped, ProgramStep, ~CallFunction
  PROVE  Moves
<1>. USE DEF Waiting, Resuming
<1>1. ASSUME NEW p, Interpret(p) PROVE Moves
  <2> DEFINE f == Frame("interpret", p, <<>>)
  <2>1. f.fn = "interpret"
    BY FrameFields
  <2>2. PushesVisitor(f)
    BY <1>1, <2>1 DEF Interpret, PushesVisitor
  <2>. QED
    BY <2>2 DEF Moves
<1>2. CASE InterpretLoop
  <2>1. CASE Top.i < Len(Top.node)
    BY <1>2, <2>1, AdvanceMoves DEF InterpretLoop
  <2>2. CASE ~(Top.i < Len(Top.node))
    BY <1>2, <2>2, PopMoves DEF InterpretLoop
  <2>. QED
    BY <2>1, <2>2
<1>3. CASE InterpretReturn \/ StackOverflow
  <2>1. ctl'.tag = "abort" /\ stack' = stack
    BY <1>3, MessageTags DEF InterpretReturn, StackOverflow
  <2>. QED
    BY <2>1 DEF StaysVisitor, Moves
<1>4. CASE VisitLiteral \/ VisitGrouping \/ lox_clock
  BY <1>4 DEF VisitLiteral, VisitGrouping, lox_clock, INTERPRET_OK, Success, Evaluate,
              StaysVisitor, Moves
<1>5. CASE VisitVariable
  <2>1. ctl'.tag \in {"ok", "error"} /\ stack' = stack
    BY <1>5 DEF VisitVariable, Result, INTERPRET_OK, INTERPRET_ERROR, Success, Failure
  <2>. QED
    BY <2>1 DEF StaysVisitor, Moves
<1>6. CASE VisitFunction \/ UNCHANGED vars
  BY <1>6 DEF VisitFunction, VisitingStmt, vars, StaysVisitor, Moves
<1>7. CASE VisitAssign \/ VisitBinary \/ VisitLogical \/ VisitUnary \/ VisitCall
  BY <1>7, AwaitMoves DEF VisitAssign, VisitBinary, VisitLogical, VisitUnary, VisitCall,
                          VisitingExpr
<1>8. CASE VisitExpression \/ VisitPrint \/ VisitIf \/ VisitWhile
  BY <1>8, AwaitMoves DEF VisitExpression, VisitPrint, VisitIf, VisitWhile, VisitingStmt
<1>9. CASE VisitReturn
  <2>1. CASE ctl.stmt.value # NULL
    BY <1>9, <2>1, AwaitMoves DEF VisitReturn, VisitingStmt
  <2>2. CASE ctl.stmt.value = NULL
    BY <1>9, <2>2 DEF VisitReturn, VisitingStmt, StaysVisitor, Moves
  <2>. QED
    BY <2>1, <2>2
<1>10. CASE VisitVar
  <2>1. CASE ctl.stmt.initializer # NULL
    BY <1>10, <2>1, AwaitMoves DEF VisitVar, VisitingStmt
  <2>2. CASE ctl.stmt.initializer = NULL
    BY <1>10, <2>2 DEF VisitVar, VisitingStmt, StaysVisitor, Moves
  <2>. QED
    BY <2>1, <2>2
<1>11. CASE \/ InterpretError \/ AssignValue \/ BinaryRight \/ LogicalLeft \/ UnaryRight
            \/ CallReturns \/ ExpressionValue \/ PrintValue \/ ReturnValue \/ IfCondition \/ VarValue
  <2>1. stack # <<>> /\ Pop /\ Top.fn # "execute_block"
    BY <1>11 DEF InterpretError, AssignValue, BinaryRight, LogicalLeft, UnaryRight, CallReturns,
                 ExpressionValue, PrintValue, ReturnValue, IfCondition, VarValue
  <2>. QED
    BY <2>1, PopMoves
<1>12. CASE BinaryLeft
  <2>1. CASE Pop
    BY <1>12, <2>1, PopMoves DEF BinaryLeft
  <2>2. CASE ~Pop
    BY <1>12, <2>2, ContinueMoves DEF BinaryLeft
  <2>. QED
    BY <2>1, <2>2
<1>13. CASE CallOperand
  <2> DEFINE objects == Append(Top.objects, ctl.value)
  <2>1. stack # <<>> /\ Top.fn = "call"
    BY <1>13 DEF CallOperand
  <2>2. Pop \/ stack' = <<Frame("call", Top.node, objects)>> \o Tail(stack)
    <3>. HIDE DEF objects
    <3>. QED
      BY <1>13 DEF CallOperand, objects
  <2>. HIDE DEF objects
  <2>. QED
    BY <2>1, <2>2, PopMoves, ContinueMoves
<1>14. CASE VisitBlock
  <2> DEFINE f == BlockFrame(ctl.stmt.statements, Len(envs) + 1)
  <2>1. f.fn = "execute_block"
    BY DEF BlockFrame
  <2>2. PushesVisitor(f)
    BY <1>14, <2>1 DEF VisitBlock, VisitingStmt, EnterBlock, PushesVisitor
  <2>. QED
    BY <2>2 DEF Moves
<1>15. CASE BlockLoop
  BY <1>15, AdvanceMoves DEF BlockLoop
<1>16. CASE BlockExit
  <2>1. ctl'.tag # "execute" /\ stack # <<>> /\ Pop
    BY <1>16 DEF BlockExit
  <2>. QED
    BY <2>1 DEF Pop, PopsVisitor, Moves
<1>17. CASE WhileCondition
  <2>1. CASE Pop
    BY <1>17, <2>1, PopMoves DEF WhileCondition
  <2>2. CASE ~Pop
    BY <1>17, <2>2, ContinueMoves DEF WhileCondition
  <2>. QED
    BY <2>1, <2>2
<1>18. CASE WhileBody
  BY <1>18, ContinueMoves DEF WhileBody
<1>. QED
  BY <1>1, <1>2, <1>3, <1>4, <1>5, <1>6, <1>7, <1>8, <1>9, <1>10, <1>11, <1>12, <1>13, <1>14,
     <1>15, <1>16, <1>17, <1>18 DEF ProgramStep, Run

(* No step unbinds a name.                                                 *)
LEMMA StepBinds ==
  ASSUME Scoped, ProgramStep, ~CallFunction
  PROVE  BoundStays(envs, envs')
<1>. USE DEF scopeVars
<1>0. IsHeap(envs) /\ environment \in 1 .. Len(envs)
  BY DEF Scoped, ScopeInv, IsEnvironmentOf
<1>1. CASE UNCHANGED envs
  BY <1>0, <1>1 DEF BoundStays, IsHeap, IsChain
<1>2. ASSUME NEW name, NEW obj, envs' \in environment_define(envs, environment, name, obj)
      PROVE  BoundStays(envs, envs')
  BY <1>0, <1>2, DefineBinds
<1>3. ASSUME NEW p, Interpret(p) PROVE BoundStays(envs, envs')
  BY <1>1, <1>3 DEF Interpret
<1>4. CASE AssignValue
  <2> DEFINE name == Top.node.name
  <2>1. CASE Holder(envs, environment, name) = 0 \/ ctl.tag # "ok"
    <3>1. UNCHANGED envs
      BY <1>4, <2>1 DEF AssignValue
    <3>. QED
      BY <1>1, <3>1
  <2>2. CASE Holder(envs, environment, name) # 0 /\ ctl.tag = "ok"
    <3>1. envs' = environment_assign(envs, environment, name, ctl.value)
      BY <1>4, <2>2 DEF AssignValue, ExprFails
    <3>2. name \in Names
      <4>1. Resuming("assign")
        BY <1>4 DEF AssignValue
      <4>2. Top.node \in Expressions /\ Top.node.type = "assign"
        BY <4>1, Resumed DEF Resumable, IsFrame, NodeOf
      <4>. QED
        BY <4>2, TreesAssumption DEF IsExpression
    <3>. HIDE DEF name
    <3>. QED
      BY <1>0, <2>2, <3>1, <3>2, AssignBinds
  <2>. QED
    BY <2>1, <2>2
<1>5. CASE VisitFunction
  BY <1>2, <1>5 DEF VisitFunction
<1>6. CASE VisitVar
  <2>1. CASE UNCHANGED envs
    BY <1>1, <2>1
  <2>2. CASE ~UNCHANGED envs
    BY <1>2, <1>6, <2>2 DEF VisitVar, Await
  <2>. QED
    BY <2>1, <2>2
<1>7. CASE VarValue
  <2>1. CASE UNCHANGED envs
    BY <1>1, <2>1
  <2>2. CASE ~UNCHANGED envs
    BY <1>2, <1>7, <2>2 DEF VarValue
  <2>. QED
    BY <2>1, <2>2
<1>8. CASE VisitBlock
  BY <1>0, <1>8, OpenBinds DEF VisitBlock
<1>9. CASE \/ InterpretLoop \/ InterpretError \/ InterpretReturn \/ VisitLiteral \/ VisitVariable
           \/ VisitGrouping \/ BinaryLeft \/ BinaryRight \/ LogicalLeft \/ UnaryRight \/ CallOperand
           \/ lox_clock \/ StackOverflow \/ CallReturns \/ BlockLoop \/ BlockExit
  <2>1. UNCHANGED envs
    BY <1>9 DEF InterpretLoop, InterpretError, InterpretReturn, VisitLiteral, VisitVariable,
           VisitGrouping, BinaryLeft, BinaryRight, LogicalLeft, UnaryRight, CallOperand,
           lox_clock, StackOverflow, CallReturns, BlockLoop, BlockExit
  <2>. QED
    BY <1>1, <2>1
<1>10. CASE VisitAssign \/ VisitBinary \/ VisitLogical \/ VisitUnary \/ VisitCall
            \/ VisitExpression \/ VisitPrint \/ VisitIf \/ VisitWhile \/ VisitReturn
  <2>1. UNCHANGED envs
    BY <1>10 DEF VisitAssign, VisitBinary, VisitLogical, VisitUnary, VisitCall, VisitExpression,
            VisitPrint, VisitIf, VisitWhile, VisitReturn, Await
  <2>. QED
    BY <1>1, <2>1
<1>11. CASE ExpressionValue \/ PrintValue \/ ReturnValue \/ IfCondition \/ WhileCondition \/ WhileBody
  <2>1. UNCHANGED envs
    BY <1>11 DEF ExpressionValue, PrintValue, ReturnValue, IfCondition, WhileCondition, WhileBody
  <2>. QED
    BY <1>1, <2>1
<1>12. CASE UNCHANGED vars
  BY <1>1, <1>12 DEF vars
<1>. QED
  BY <1>3, <1>4, <1>5, <1>6, <1>7, <1>8, <1>9, <1>10, <1>11, <1>12 DEF ProgramStep, Run

LEMMA MovesKeepCalls ==
  ASSUME Scoped, CallInv, Moves, BoundStays(envs, envs')
  PROVE  CallInv'
<1>1. PICK S : stack \in Seq(S)
  BY DEF Scoped, StackInv
<1>2. IsStack(envs, stack) /\ (ctl.tag = "idle" => stack = <<>>)
      /\ (ctl.tag = "evaluate" => FnOf(stack) \in AwaitsExpr)
  BY DEF Scoped, StackInv, ScopeInv, IsAwaited, ExprTags
<1>3. CallsFit(envs', stack)
  BY <1>1, <1>2, CallsStay DEF CallInv
<1>4. ASSUME stack # <<>>
      PROVE  /\ Tail(stack) \in Seq(S) /\ CallsFit(envs', Tail(stack))
             /\ CallBelow(envs', Top, Tail(stack))
  BY <1>1, <1>3, <1>4, PopCalls DEF Top
<1>5. ASSUME NEW f, NEW frames \in Seq(S) PROVE FnOf(<<f>> \o frames) = f.fn
  BY DEF FnOf
<1>6. ASSUME NEW f, PushesVisitor(f) PROVE CallInv'
  <2>1. FnOf(stack) # "interpreter_call"
    BY <1>2, <1>6 DEF PushesVisitor, CallInv, FnOf, AwaitsExpr
  <2>2. CallBelow(envs', f, stack)
    BY <2>1 DEF CallBelow
  <2>3. CallsFit(envs', <<f>> \o stack)
    BY <1>1, <1>3, <2>2, PushCalls
  <2>. QED
    BY <1>1, <1>5, <1>6, <2>3 DEF PushesVisitor, CallInv
<1>7. ASSUME NEW f, SwapsVisitor(f) PROVE CallInv'
  <2> DEFINE rest == Tail(stack)
  <2>1. rest \in Seq(S) /\ CallsFit(envs', rest) /\ CallBelow(envs', Top, rest)
    BY <1>4, <1>7 DEF SwapsVisitor
  <2>2. stack' = <<f>> \o rest
    BY <1>7 DEF SwapsVisitor
  <2>. HIDE DEF rest
  <2>3. CallBelow(envs', f, rest)
    BY <1>7, <2>1 DEF SwapsVisitor, CallBelow
  <2>4. CallsFit(envs', <<f>> \o rest)
    BY <2>1, <2>3, PushCalls
  <2>. QED
    BY <1>5, <1>7, <2>1, <2>2, <2>4 DEF SwapsVisitor, CallInv
<1>8. CASE PopsVisitor
  BY <1>4, <1>8 DEF PopsVisitor, CallInv, CallBelow
<1>9. CASE StaysVisitor
  BY <1>3, <1>9 DEF StaysVisitor, CallInv
<1>. QED
  BY <1>6, <1>7, <1>8, <1>9 DEF Moves

(* interpreter_call makes a scope that is younger than all in use, and     *)
(* binds every parameter there before the body begins.                     *)
LEMMA CallKeepsCalls ==
  ASSUME Scoped, ArityChecked, CallInv, CallFunction
  PROVE  CallInv'
<1> DEFINE declaration == ctl.callee.f.declaration
           closure == ctl.callee.f.closure
           e == Len(envs) + 1
           opened == Append(envs, environment_new_enclosed(closure))
           f == Frame("interpreter_call", declaration, <<>>)
           g == BlockFrame(declaration.body, e)
           below == <<f>> \o stack
<1>1. /\ ctl.tag = "call" /\ ctl.callee.type = "function"
      /\ envs' \in WithParameters(opened, e, declaration.params, ctl.arguments)
      /\ stack' = <<g>> \o below /\ ctl'.tag = "none"
  BY DEF CallFunction, EnterBlock, EXECUTION_RESULT_NONE
<1>2. /\ IsHeap(envs) /\ environment \in 1 .. Len(envs) /\ IsStack(envs, stack)
      /\ IsObjectOf(envs, ctl.callee) /\ AreObjectsOf(envs, ctl.arguments)
      /\ FnOf(stack) \in AwaitsExpr
  BY <1>1 DEF Scoped, ScopeInv, IsEnvironmentOf, IsControl, IsAwaited, ExprTags
<1>3. closure \in 1 .. Len(envs) /\ declaration \in Statements /\ declaration.type = "function"
  BY <1>1, <1>2 DEF IsObjectOf, IsClosure, IsEnvironmentOf
<1>4. declaration.params \in Seq(Names)
  BY <1>3, TreesAssumption DEF IsStatement
<1>5. Len(ctl.arguments) = Len(declaration.params)
  BY <1>1 DEF ArityChecked, object_arity
<1>6. /\ f.fn = "interpreter_call" /\ f.node = declaration /\ f.environment = environment
      /\ g.fn = "execute_block" /\ g.environment = e
  BY FrameFields DEF BlockFrame
<1>7. PICK S : stack \in Seq(S)
  BY DEF Scoped, StackInv
<1>. HIDE DEF declaration, closure, f, g
<1>8. IsHeap(opened) /\ Grown(envs, opened) /\ Len(opened) = e /\ BoundStays(envs, opened)
  BY <1>2, <1>3, OpenKeepsHeap, OpenBinds
<1>. HIDE DEF opened
<1>9. Len(envs) \in Nat /\ e \in 1 .. Len(opened)
  <2>1. Len(envs) \in Nat
    BY <1>2 DEF IsHeap, IsChain
  <2>. QED
    BY <1>8, <2>1
<1>10. AreObjectsOf(opened, ctl.arguments)
  BY <1>2, <1>8, ObjectsStay
<1>11. BoundStays(opened, envs') /\ BindsAll(envs'[e].values, declaration.params)
  BY <1>1, <1>4, <1>5, <1>8, <1>9, <1>10, ParametersBind
<1>12. BoundStays(envs, envs')
  <2>1. IsHeap(envs')
    BY <1>1, <1>4, <1>5, <1>8, <1>9, <1>10, ParametersKeepHeap
  <2>2. Len(envs') \in Nat /\ Len(opened) \in Nat
    BY <1>8, <2>1 DEF IsHeap, IsChain
  <2>. QED
    BY <1>8, <1>9, <1>11, <2>2, BoundStaysOn
<1>13. CallsFit(envs', stack)
  BY <1>2, <1>7, <1>12, CallsStay DEF CallInv
<1>14. CallBelow(envs', f, stack)
  BY <1>2 DEF CallBelow, AwaitsExpr
<1>15. CallsFit(envs', below)
  BY <1>7, <1>13, <1>14, PushCalls
<1>16. /\ below \in Seq(S \cup {f}) /\ Len(below) = Len(stack) + 1 /\ Len(stack) \in Nat
       /\ below[1] = f /\ Head(below) = f
       /\ \A n \in 1 .. Len(stack) : below[n + 1] = stack[n]
  BY <1>7
<1>. HIDE DEF below
<1>17. ASSUME NEW m \in 1 .. Len(below) PROVE below[m].environment < e
  <2>1. CASE m = 1
    BY <1>2, <1>6, <1>9, <1>16, <2>1
  <2>2. CASE m # 1
    <3>1. m - 1 \in 1 .. Len(stack) /\ below[m] = stack[m - 1]
      <4>1. m - 1 \in 1 .. Len(stack) /\ (m - 1) + 1 = m
        BY <1>16, <2>2
      <4>. QED
        BY <1>16, <4>1
    <3>2. stack[m - 1].environment \in 1 .. Len(envs)
      BY <1>2, <3>1 DEF IsStack, IsFrame, IsEnvironmentOf
    <3>. QED
      BY <1>9, <3>1, <3>2
  <2>. QED
    BY <2>1, <2>2
<1>18. CallBelow(envs', g, below)
  BY <1>4, <1>6, <1>11, <1>16, <1>17 DEF CallBelow
<1>19. CallsFit(envs', <<g>> \o below)
  BY <1>15, <1>16, <1>18, PushCalls
<1>. QED
  BY <1>1, <1>19 DEF CallInv

(* For all programs and however calls recurse, a call in progress has a    *)
(* scope of its own, younger than all those in use below it, and each of   *)
(* its parameters is bound there until it returns: interpreter_call gives  *)
(* every call a new environment, and nothing that is defined, assigned or  *)
(* copied to a larger table afterwards takes a binding away.               *)
THEOREM CallsHaveTheirOwnScopes == Spec => []CallsOwnScopes
<1> DEFINE Inv == Scoping /\ CallInv
<1>1. Init => CallInv
  <2>1. Init => Len(stack) = 0 /\ ctl.tag = "idle"
    BY DEF Init, Idle
  <2>. QED
    BY <2>1 DEF CallInv, CallsFit
<1>2. ASSUME Inv, [Next]_vars PROVE Inv'
  <2>1. ProgramStep
    BY <1>2, NextIsProgramStep
  <2>2. Scoping'
    BY <1>2, <2>1, StepScoping
  <2>3. CASE CallFunction
    BY <1>2, <2>2, <2>3, CallKeepsCalls DEF Scoping
  <2>4. CASE ~CallFunction
    BY <1>2, <2>1, <2>2, <2>4, StepMoves, StepBinds, MovesKeepCalls DEF Scoping
  <2>. QED
    BY <2>3, <2>4
<1>3. Inv => CallsOwnScopes
  BY DEF CallInv, CallsFit, CallsOwnScopes
<1>. QED
  BY <1>1, <1>2, <1>3, InitScoping, PTL DEF Spec
=============================================================================

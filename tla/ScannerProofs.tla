--------------------------- MODULE ScannerProofs ----------------------------
(***************************************************************************)
(* TLAPS proofs about the lists of module Lists and about module Scanner,  *)
(* for every text and every table of keywords.                             *)
(***************************************************************************)
EXTENDS Scanner, FiniteSetTheorems, TLAPS

-----------------------------------------------------------------------------
(* Lists.                                                                  *)
WellFormed(list) ==
  /\ list = [pointer |-> list.pointer, length |-> list.length, capacity |-> list.capacity]
  /\ list.capacity \in Nat
  /\ list.length \in 0 .. list.capacity
  /\ list.pointer = [n \in 1 .. list.capacity |-> list.pointer[n]]

(* A full list that is to hold one element more finds a larger size. *)
LEMMA DoubledFacts ==
  ASSUME NEW capacity \in Nat
  PROVE  /\ Doubled(capacity, capacity + 1) \in Nat
         /\ Doubled(capacity, capacity + 1) >= capacity + 1
<1> DEFINE needed == capacity + 1
           first == IF capacity = 0 THEN LIST_INITIAL_CAPACITY ELSE capacity
           Stops(k) == /\ first * 2 ^ k \in needed .. 2 * needed + LIST_INITIAL_CAPACITY
                       /\ k > 0 => first * 2 ^ (k - 1) < needed
           doublings == CHOOSE k \in 0 .. needed : Stops(k)
<1>1. \E k \in 0 .. needed : Stops(k)
  <2>1. CASE capacity = 0
    <3>1. first * 2 ^ 0 = 8 /\ ~(0 > 0)
      BY <2>1 DEF LIST_INITIAL_CAPACITY
    <3>2. 8 \in needed .. 2 * needed + LIST_INITIAL_CAPACITY /\ 0 \in 0 .. needed
      BY <2>1 DEF LIST_INITIAL_CAPACITY
    <3>. QED
      BY <3>1, <3>2
  <2>2. CASE capacity # 0
    <3>1. first * 2 ^ 1 = 2 * capacity /\ first * 2 ^ (1 - 1) < needed
      BY <2>2
    <3>2. 2 * capacity \in needed .. 2 * needed + LIST_INITIAL_CAPACITY /\ 1 \in 0 .. needed
      BY <2>2 DEF LIST_INITIAL_CAPACITY
    <3>. QED
      BY <3>1, <3>2
  <2>. QED
    BY <2>1, <2>2
<1>2. Stops(doublings)
  <2>. HIDE DEF Stops, needed
  <2>. QED
    BY <1>1
<1>3. Doubled(capacity, needed) = first * 2 ^ doublings
  BY DEF Doubled
<1>4. Doubled(capacity, needed) \in needed .. 2 * needed + LIST_INITIAL_CAPACITY
  BY <1>2, <1>3
<1>. QED
  BY <1>4 DEF LIST_INITIAL_CAPACITY

LEMMA ReserveFacts ==
  ASSUME NEW list, WellFormed(list)
  PROVE  LET reserved == list_reserve_(list, list.length + 1)
         IN  /\ WellFormed(reserved)
             /\ reserved.length = list.length
             /\ reserved.capacity > list.length
             /\ \A n \in 1 .. list.length : reserved.pointer[n] = list.pointer[n]
<1> DEFINE reserved == list_reserve_(list, list.length + 1)
<1>1. CASE ~(list.capacity < list.length + 1)
  <2>1. reserved = list
    BY <1>1 DEF list_reserve_
  <2>. QED
    BY <1>1, <2>1 DEF WellFormed
<1>2. CASE list.capacity < list.length + 1
  <2> DEFINE size == Doubled(list.capacity, list.length + 1)
             cells == GC_REALLOC(list.pointer, size)
  <2>1. list.capacity = list.length /\ list.length \in Nat
    BY <1>2 DEF WellFormed
  <2>2. size \in Nat /\ size >= list.length + 1
    BY <2>1, DoubledFacts
  <2>3. reserved = [pointer |-> cells, length |-> list.length, capacity |-> size]
    BY <1>2 DEF list_reserve_
  <2>. HIDE DEF size, reserved
  <2>4. cells = [n \in 1 .. size |-> cells[n]]
    BY DEF GC_REALLOC
  <2>5. Len(list.pointer) = list.length
    BY <2>1 DEF WellFormed
  <2>6. \A n \in 1 .. list.length : cells[n] = list.pointer[n]
    BY <2>1, <2>2, <2>5 DEF GC_REALLOC
  <2>. HIDE DEF cells
  <2>7. reserved.pointer = cells /\ reserved.length = list.length /\ reserved.capacity = size
    BY <2>3
  <2>8. WellFormed(reserved)
    BY <2>1, <2>2, <2>3, <2>4, <2>7 DEF WellFormed
  <2>. QED
    BY <2>1, <2>2, <2>6, <2>7, <2>8 DEF reserved
<1>. QED
  BY <1>1, <1>2

(* LIST_PUSH appends, writes inside of the block, and moves nothing. *)
LEMMA PushFacts ==
  ASSUME NEW list, WellFormed(list), NEW elem
  PROVE  LET pushed == LIST_PUSH(list, elem)
         IN  /\ WellFormed(pushed)
             /\ pushed.length = list.length + 1
             /\ pushed.pointer[list.length + 1] = elem
             /\ \A n \in 1 .. list.length : pushed.pointer[n] = list.pointer[n]
<1> DEFINE reserved == list_reserve_(list, list.length + 1)
           pushed == LIST_PUSH(list, elem)
           cells == [reserved.pointer EXCEPT ![reserved.length + 1] = elem]
<1>1. /\ WellFormed(reserved)
      /\ reserved.length = list.length
      /\ reserved.capacity > list.length
      /\ \A n \in 1 .. list.length : reserved.pointer[n] = list.pointer[n]
  BY ReserveFacts
<1>2. pushed = [reserved EXCEPT !.pointer = cells, !.length = reserved.length + 1]
  BY DEF LIST_PUSH
<1>. HIDE DEF reserved, pushed
<1>3. list.length \in Nat
  BY DEF WellFormed
<1>4. /\ cells = [n \in 1 .. reserved.capacity |-> cells[n]]
      /\ cells[list.length + 1] = elem
      /\ \A n \in 1 .. list.length : cells[n] = list.pointer[n]
  <2>1. reserved.pointer = [n \in 1 .. reserved.capacity |-> reserved.pointer[n]] /\ reserved.capacity \in Nat
    BY <1>1 DEF WellFormed
  <2>2. list.length + 1 \in 1 .. reserved.capacity
    BY <1>1, <1>3, <2>1
  <2>3. DOMAIN reserved.pointer = 1 .. reserved.capacity
    BY <2>1
  <2>4. DOMAIN cells = 1 .. reserved.capacity /\ cells = [n \in DOMAIN cells |-> cells[n]]
    BY <2>3
  <2>5. cells[list.length + 1] = elem
    BY <1>1, <2>2, <2>3
  <2>6. ASSUME NEW n \in 1 .. list.length
        PROVE  cells[n] = list.pointer[n]
    <3>1. n \in 1 .. reserved.capacity /\ n # list.length + 1
      BY <1>1, <1>3, <2>1
    <3>2. cells[n] = reserved.pointer[n]
      BY <1>1, <2>3, <3>1
    <3>. QED
      BY <1>1, <3>2
  <2>7. cells = [n \in 1 .. reserved.capacity |-> cells[n]]
    BY <2>4
  <2>. HIDE DEF cells
  <2>. QED
    BY <2>5, <2>6, <2>7
<1>. HIDE DEF cells
<1>5. pushed = [pointer |-> cells, length |-> list.length + 1, capacity |-> reserved.capacity]
  <2>1. reserved = [pointer |-> reserved.pointer, length |-> reserved.length, capacity |-> reserved.capacity]
    BY <1>1 DEF WellFormed
  <2>. QED
    BY <1>1, <1>2, <2>1
<1>6. /\ pushed.pointer = cells /\ pushed.length = list.length + 1
      /\ pushed.capacity = reserved.capacity
  BY <1>5
<1>7. reserved.capacity \in Nat
  BY <1>1 DEF WellFormed
<1>8. WellFormed(pushed)
  BY <1>1, <1>3, <1>4, <1>5, <1>6, <1>7 DEF WellFormed
<1>. QED
  BY <1>4, <1>6, <1>8 DEF pushed

-----------------------------------------------------------------------------
(* Lines.                                                                  *)
LEMMA NewlinesStart == ASSUME NEW t PROVE Newlines(t, 0) = 0
<1>1. {n \in 1 .. 0 : t[n] = "LF"} = {}
  OBVIOUS
<1>. QED
  BY <1>1, FS_EmptySet DEF Newlines

LEMMA NewlinesStep ==
  ASSUME NEW t, NEW p \in Nat
  PROVE  /\ Newlines(t, p) \in Nat
         /\ Newlines(t, p + 1) = IF t[p + 1] = "LF" THEN Newlines(t, p) + 1 ELSE Newlines(t, p)
<1> DEFINE before == {n \in 1 .. p : t[n] = "LF"}
           upto == {n \in 1 .. p + 1 : t[n] = "LF"}
<1>1. IsFiniteSet(before)
  <2>1. IsFiniteSet(1 .. p)
    BY FS_Interval
  <2>. QED
    BY <2>1, FS_Subset
<1>2. Cardinality(before) \in Nat
  BY <1>1, FS_CardinalityType
<1>3. CASE t[p + 1] = "LF"
  <2>1. upto = before \cup {p + 1} /\ p + 1 \notin before
    BY <1>3
  <2>. QED
    BY <1>1, <1>2, <1>3, <2>1, FS_AddElement DEF Newlines
<1>4. CASE t[p + 1] # "LF"
  <2>1. upto = before
    BY <1>4
  <2>. QED
    BY <1>2, <1>4, <2>1 DEF Newlines
<1>. QED
  BY <1>3, <1>4

-----------------------------------------------------------------------------
(* The tokens of a list, none of them beyond `bound`.                      *)
Fit(t, list, bound, at) ==
  /\ WellFormed(list)
  /\ \A n \in 1 .. list.length :
       /\ list.pointer[n].start \in Nat
       /\ list.pointer[n].stop \in 0 .. bound
       /\ list.pointer[n].line = 1 + Newlines(t, list.pointer[n].stop)
       /\ list.pointer[n].type = "EOF" => at = "done" /\ n = list.length
       /\ list.pointer[n].type # "EOF" => list.pointer[n].start < list.pointer[n].stop
  /\ \A n \in 1 .. list.length - 1 : list.pointer[n].stop <= list.pointer[n + 1].start

LEMMA FitLater ==
  ASSUME NEW t, NEW list, NEW bound \in Nat, NEW later \in Nat, later >= bound,
         NEW at, at # "done", Fit(t, list, bound, at), NEW where
  PROVE  Fit(t, list, later, where)
BY DEF Fit

(* A token that may come next, the scanner going on at `to` in `where`. *)
Fresh(t, bound, token, to, where) ==
  /\ bound \in Nat /\ to \in Nat /\ to >= bound
  /\ token.start \in Nat /\ token.start >= bound
  /\ token.stop \in 0 .. to
  /\ token.line = 1 + Newlines(t, token.stop)
  /\ token.type = "EOF" => where = "done"
  /\ token.type # "EOF" => token.start < token.stop

LEMMA FitPush ==
  ASSUME NEW t, NEW list, NEW bound, NEW at, at # "done", Fit(t, list, bound, at),
         NEW token, NEW to, NEW where, Fresh(t, bound, token, to, where),
         NEW pushed, pushed = LIST_PUSH(list, token)
  PROVE  /\ Fit(t, pushed, to, where)
         /\ pushed.length = list.length + 1
         /\ pushed.pointer[pushed.length] = token
<1>1. WellFormed(list) /\ list.length \in Nat
  BY DEF Fit, WellFormed
<1>2. /\ WellFormed(pushed)
      /\ pushed.length = list.length + 1
      /\ pushed.pointer[list.length + 1] = token
      /\ \A n \in 1 .. list.length : pushed.pointer[n] = list.pointer[n]
  BY <1>1, PushFacts
<1>3. ASSUME NEW n \in 1 .. pushed.length
      PROVE  /\ pushed.pointer[n].start \in Nat
             /\ pushed.pointer[n].stop \in 0 .. to
             /\ pushed.pointer[n].line = 1 + Newlines(t, pushed.pointer[n].stop)
             /\ pushed.pointer[n].type = "EOF" => where = "done" /\ n = pushed.length
             /\ pushed.pointer[n].type # "EOF" => pushed.pointer[n].start < pushed.pointer[n].stop
  <2>1. CASE n = list.length + 1
    BY <1>2, <2>1 DEF Fresh
  <2>2. CASE n # list.length + 1
    <3>1. n \in 1 .. list.length /\ pushed.pointer[n] = list.pointer[n]
      BY <1>1, <1>2, <2>2
    <3>. QED
      BY <3>1 DEF Fit, Fresh
  <2>. QED
    BY <2>1, <2>2
<1>4. ASSUME NEW n \in 1 .. pushed.length - 1
      PROVE  pushed.pointer[n].stop <= pushed.pointer[n + 1].start
  <2>1. n \in 1 .. list.length /\ pushed.pointer[n] = list.pointer[n]
    BY <1>1, <1>2
  <2>2. CASE n = list.length
    <3>1. list.pointer[n].stop \in 0 .. bound
      BY <2>1 DEF Fit
    <3>. QED
      BY <1>2, <2>1, <2>2, <3>1 DEF Fresh
  <2>3. CASE n # list.length
    <3>1. n \in 1 .. list.length - 1 /\ n + 1 \in 1 .. list.length
      BY <1>1, <2>1, <2>3
    <3>. QED
      BY <1>2, <2>1, <3>1 DEF Fit
  <2>. QED
    BY <2>2, <2>3
<1>. QED
  BY <1>2, <1>3, <1>4 DEF Fit

-----------------------------------------------------------------------------
(* The inductive invariant.  Inside of a token no token goes further than  *)
(* its start, and between tokens none goes further than the cursor.        *)
InToken == {"string", "number", "fraction", "identifier"}

ScannerInv ==
  /\ text \in Texts
  /\ current \in 0 .. Len(text)
  /\ start \in 0 .. current
  /\ HadError \in BOOLEAN
  /\ pc \in {"scan", "comment", "done"} \cup InToken
  /\ pc \in InToken => start < current
  /\ line = 1 + Newlines(text, current)
  /\ Fit(text, tokens, IF pc \in InToken THEN start ELSE current, pc)
  /\ pc = "done" => tokens.length > 0 /\ Token(tokens.length).type = "EOF"
  /\ \A word \in DOMAIN Keywords : Keywords[word] # "EOF"

LEMMA PlaceFacts ==
  ASSUME ScannerInv
  PROVE  /\ Len(text) \in Nat /\ current \in Nat /\ start \in Nat
         /\ scanner_is_at_end(current) <=> current = Len(text)
         /\ ~scanner_is_at_end(current) => current + 1 \in current .. Len(text)
BY TextsAssumption DEF ScannerInv, scanner_is_at_end

(* A character that is read is on the text, and ends no line unless it is  *)
(* a newline.                                                              *)
LEMMA ReadFacts ==
  ASSUME ScannerInv, NEW p \in Nat, ~scanner_is_at_end(p)
  PROVE  /\ p + 1 <= Len(text)
         /\ scanner_peek(p) = source_begin(p)
         /\ Newlines(text, p) \in Nat
         /\ Newlines(text, p + 1) =
              IF source_begin(p) = "LF" THEN Newlines(text, p) + 1 ELSE Newlines(text, p)
<1>1. p < Len(text) /\ Len(text) \in Nat
  BY PlaceFacts DEF scanner_is_at_end
<1>2. source_begin(p) = text[p + 1] /\ scanner_peek(p) = source_begin(p)
  BY <1>1 DEF source_begin, scanner_peek, scanner_is_at_end
<1>3. /\ Newlines(text, p) \in Nat
      /\ Newlines(text, p + 1) = IF text[p + 1] = "LF" THEN Newlines(text, p) + 1 ELSE Newlines(text, p)
  BY NewlinesStep
<1>. QED
  BY <1>1, <1>2, <1>3

LEMMA PeekFacts ==
  ASSUME ScannerInv, scanner_peek(current) \in Digits \cup Letters \cup {".", "QUOTE"}
  PROVE  /\ ~scanner_is_at_end(current)
         /\ current + 1 \in current .. Len(text)
         /\ Newlines(text, current + 1) = Newlines(text, current)
<1>1. scanner_peek(current) # "NUL" /\ scanner_peek(current) # "LF"
  BY DEF Digits, Letters
<1>2. ~scanner_is_at_end(current)
  BY <1>1 DEF scanner_peek
<1>. QED
  BY <1>1, <1>2, PlaceFacts, ReadFacts

(* A step that adds no token. *)
LEMMA Moves ==
  ASSUME ScannerInv, pc # "done", UNCHANGED <<text, tokens, Keywords>>, HadError' \in BOOLEAN,
         current' \in current .. Len(text), start' \in 0 .. current',
         line' = 1 + Newlines(text, current'),
         pc' \in {"scan", "comment"} \cup InToken,
         pc' \in InToken => start' < current' /\ start' = IF pc \in InToken THEN start ELSE current
  PROVE  ScannerInv'
<1> DEFINE bound == IF pc \in InToken THEN start ELSE current
           later == IF pc' \in InToken THEN start' ELSE current'
<1>1. Fit(text, tokens, bound, pc)
  BY DEF ScannerInv
<1>2. bound \in Nat /\ later \in Nat /\ later >= bound
  BY PlaceFacts DEF ScannerInv
<1>3. pc' # "done"
  BY DEF InToken
<1>4. Fit(text, tokens, later, pc')
  <2>. HIDE DEF bound, later
  <2>. QED
    BY <1>1, <1>2, FitLater
<1>5. current' \in 0 .. Len(text')
  BY PlaceFacts
<1>. QED
  BY <1>3, <1>4, <1>5 DEF ScannerInv

(* A step that adds the token that ends where the cursor comes to. *)
LEMMA Adds ==
  ASSUME ScannerInv, pc # "done", text' = text, HadError' = HadError, line' = line,
         \A word \in DOMAIN Keywords' : Keywords'[word] # "EOF",
         NEW type, NEW from, NEW to, NEW literal,
         scanner_add_token(type, from, to, literal), current' = to, start' \in {from, start},
         from = IF pc \in InToken THEN start ELSE current,
         to \in current .. Len(text), from < to \/ type = "EOF",
         Newlines(text, to) = Newlines(text, current),
         type # "EOF" => pc' = "scan", type = "EOF" => pc' = "done"
  PROVE  ScannerInv'
<1> DEFINE bound == IF pc \in InToken THEN start ELSE current
           token == [type |-> type, start |-> from, stop |-> to, line |-> line, literal |-> literal]
<1>1. Fit(text, tokens, bound, pc)
  BY DEF ScannerInv
<1>2. bound \in Nat /\ to \in Nat /\ to >= bound /\ bound \in 0 .. to
  BY PlaceFacts DEF ScannerInv
<1>3. token.start = bound /\ token.stop = to /\ token.line = line /\ token.type = type
  OBVIOUS
<1>4. tokens' = LIST_PUSH(tokens, token)
  BY DEF scanner_add_token
<1>5. line = 1 + Newlines(text, to) /\ pc' \notin InToken /\ tokens.length \in Nat
  BY DEF ScannerInv, InToken, Fit, WellFormed
<1>6. /\ Fit(text, tokens', to, pc')
      /\ tokens'.length = tokens.length + 1
      /\ tokens'.pointer[tokens'.length] = token
  <2>1. token.start \in Nat /\ token.start >= bound /\ token.stop \in 0 .. to
    BY <1>2, <1>3
  <2>2. IF token.type = "EOF" THEN pc' = "done" ELSE token.start < token.stop
    BY <1>3
  <2>3. token.line = 1 + Newlines(text, token.stop)
    BY <1>3, <1>5
  <2>4. Fresh(text, bound, token, to, pc')
    BY <1>2, <2>1, <2>2, <2>3 DEF Fresh
  <2>. HIDE DEF token, bound
  <2>. QED
    BY <1>1, <1>4, <2>4, FitPush
<1>7. pc' = "done" => tokens'.length > 0 /\ tokens'.pointer[tokens'.length].type = "EOF"
  BY <1>3, <1>5, <1>6
<1>8. start' \in 0 .. to /\ to \in 0 .. Len(text)
  BY <1>2, PlaceFacts DEF ScannerInv
<1>9. pc' \in {"scan", "done"}
  OBVIOUS
<1>. HIDE DEF token
<1>. QED
  BY <1>5, <1>6, <1>7, <1>8, <1>9 DEF ScannerInv, Token

(* A scanner that starts on a text, the keywords entered already or not.   *)
Starts ==
  /\ text \in Texts
  /\ start = 0 /\ current = 0 /\ line = 1 /\ tokens = LIST_INIT
  /\ HadError = FALSE
  /\ pc = "scan"
  /\ Keywords \in {<<>>, Keyword}

LEMMA InitStarts == Init => Starts
BY DEF Init, Starts

LEMMA StartsScannerInv == Starts => ScannerInv
<1>1. WellFormed(LIST_INIT) /\ LIST_INIT.length = 0
  BY DEF WellFormed, LIST_INIT
<1>2. ASSUME NEW t PROVE Fit(t, LIST_INIT, 0, "scan")
  BY <1>1 DEF Fit
<1>3. ASSUME NEW t \in Texts PROVE Len(t) \in Nat
  BY TextsAssumption
<1>4. ASSUME Starts
      PROVE  /\ text \in Texts /\ current = 0 /\ start = 0 /\ line = 1 /\ HadError = FALSE
             /\ pc = "scan" /\ pc \notin InToken /\ tokens = LIST_INIT
             /\ \A word \in DOMAIN Keywords : Keywords[word] # "EOF"
  <2>1. DOMAIN <<>> = {}
    OBVIOUS
  <2>. QED
    BY <1>4, <2>1, KeywordAssumption DEF Starts, InToken
<1>5. ASSUME Starts
      PROVE  Fit(text, tokens, IF pc \in InToken THEN start ELSE current, pc)
  BY <1>2, <1>4, <1>5
<1>. QED
  BY <1>3, <1>4, <1>5, NewlinesStart DEF ScannerInv

-----------------------------------------------------------------------------
LEMMA FirstCharactersKeepInv ==
  ASSUME ScannerInv,
         \/ SingleToken \/ ComparingToken \/ Blank \/ Newline \/ Slash
         \/ Enter({"QUOTE"}, "string") \/ Enter(Digits, "number") \/ Enter(Letters, "identifier")
         \/ Unexpected
  PROVE  ScannerInv'
<1>1. /\ pc = "scan" /\ pc # "done" /\ pc \notin InToken /\ ~scanner_is_at_end(current) /\ start' = current
  BY DEF SingleToken, ComparingToken, Blank, Newline, Slash, Enter, Unexpected, Scan, InToken
<1>2. /\ current \in Nat /\ Len(text) \in Nat /\ current + 1 \in current .. Len(text) /\ current < current + 1
      /\ current + 1 \in Nat /\ current \in 0 .. current + 1
      /\ line = 1 + Newlines(text, current) /\ HadError \in BOOLEAN
      /\ \A word \in DOMAIN Keywords : Keywords[word] # "EOF"
  BY <1>1, PlaceFacts DEF ScannerInv
<1>3. /\ Newlines(text, current) \in Nat
      /\ source_begin(current) # "LF" => Newlines(text, current + 1) = Newlines(text, current)
      /\ source_begin(current) = "LF" => Newlines(text, current + 1) = Newlines(text, current) + 1
  BY <1>1, <1>2, ReadFacts
<1>4. CASE SingleToken
  <2>1. source_begin(current) # "LF" /\ SingleType(source_begin(current)) # "EOF"
    BY <1>4 DEF SingleToken, Scan, Single, SingleType
  <2>. QED
    BY <1>1, <1>2, <1>3, <1>4, <2>1, Adds DEF SingleToken, Advance
<1>5. CASE ComparingToken
  <2> DEFINE equal == scanner_match(current + 1, "=")
             p == IF equal THEN current + 2 ELSE current + 1
             type == ComparingType(source_begin(current), equal)
  <2>1. source_begin(current) # "LF" /\ type # "EOF"
    BY <1>5 DEF ComparingToken, Scan, Comparing, ComparingType
  <2>2. p \in current .. Len(text) /\ current < p /\ Newlines(text, p) = Newlines(text, current)
    <3>1. CASE equal
      <4>1. ~scanner_is_at_end(current + 1) /\ source_begin(current + 1) = "="
        BY <3>1 DEF scanner_match
      <4>2. (current + 1) + 1 <= Len(text) /\ Newlines(text, (current + 1) + 1) = Newlines(text, current + 1)
        BY <1>2, <4>1, ReadFacts
      <4>3. (current + 1) + 1 = current + 2
        BY <1>2
      <4>. QED
        BY <1>2, <1>3, <2>1, <3>1, <4>2, <4>3
    <3>2. CASE ~equal
      BY <1>2, <1>3, <2>1, <3>2
    <3>. QED
      BY <3>1, <3>2
  <2>3. /\ scanner_add_token(type, start', p, OBJECT_NULL) /\ current' = p /\ pc' = "scan"
        /\ UNCHANGED <<text, line, HadError, Keywords>>
    BY <1>5 DEF ComparingToken, Advance
  <2>. HIDE DEF p, type
  <2>. QED
    BY <1>1, <1>2, <2>1, <2>2, <2>3, Adds
<1>6. CASE Blank
  <2>1. source_begin(current) # "LF"
    BY <1>6 DEF Blank, Scan, Blanks
  <2>. QED
    BY <1>1, <1>2, <1>3, <1>6, <2>1, Moves DEF Blank, Advance, InToken
<1>7. CASE Newline
  <2>1. source_begin(current) = "LF"
    BY <1>7 DEF Newline, Scan
  <2>2. line' = 1 + Newlines(text, current + 1)
    BY <1>2, <1>3, <1>7, <2>1 DEF Newline
  <2>. QED
    BY <1>1, <1>2, <1>7, <2>2, Moves DEF Newline, Advance, InToken
<1>8. CASE Slash
  <2>1. source_begin(current) # "LF"
    BY <1>8 DEF Slash, Scan
  <2>2. CASE scanner_match(current + 1, "/")
    <3>1. ~scanner_is_at_end(current + 1) /\ source_begin(current + 1) = "/"
      BY <2>2 DEF scanner_match
    <3>2. (current + 1) + 1 <= Len(text) /\ Newlines(text, (current + 1) + 1) = Newlines(text, current + 1)
      BY <1>2, <3>1, ReadFacts
    <3>3. (current + 1) + 1 = current + 2
      BY <1>2
    <3>4. current + 2 \in current .. Len(text) /\ line = 1 + Newlines(text, current + 2)
      BY <1>2, <1>3, <2>1, <3>2, <3>3
    <3>5. current' = current + 2 /\ pc' = "comment" /\ UNCHANGED <<text, tokens, Keywords, line, HadError>>
      BY <1>8, <2>2 DEF Slash, Advance
    <3>6. start' \in 0 .. current' /\ pc' \notin InToken
      BY <1>1, <1>2, <3>5 DEF InToken
    <3>. QED
      BY <1>1, <1>2, <3>4, <3>5, <3>6, Moves
  <2>3. CASE ~scanner_match(current + 1, "/")
    BY <1>1, <1>2, <1>3, <1>8, <2>1, <2>3, Adds DEF Slash, Advance
  <2>. QED
    BY <2>2, <2>3
<1>9. CASE \/ Enter({"QUOTE"}, "string") \/ Enter(Digits, "number") \/ Enter(Letters, "identifier")
  <2>1. source_begin(current) # "LF" /\ pc' \in InToken
    BY <1>9 DEF Enter, Advance, Scan, Digits, Letters, InToken
  <2>2. UNCHANGED <<text, line, tokens, HadError, Keywords>> /\ current' = current + 1
    BY <1>9 DEF Enter, Advance
  <2>. QED
    BY <1>1, <1>2, <1>3, <2>1, <2>2, Moves
<1>10. CASE Unexpected
  <2>1. source_begin(current) # "LF"
    BY <1>10 DEF Unexpected, Scan, Expected
  <2>. QED
    BY <1>1, <1>2, <1>3, <1>10, <2>1, Moves DEF Unexpected, Advance, InToken
<1>. QED
  BY <1>4, <1>5, <1>6, <1>7, <1>8, <1>9, <1>10

LEMMA LoopsKeepInv ==
  ASSUME ScannerInv,
         \/ Comment \/ StringCharacter \/ StringUnterminated \/ StringEnds
         \/ NumberDigit \/ NumberPoint \/ NumberEnds
         \/ IdentifierCharacter \/ IdentifierEnds \/ EndOfText
  PROVE  ScannerInv'
<1>1. /\ current \in Nat /\ start \in Nat /\ Len(text) \in Nat /\ start \in 0 .. current
      /\ current \in current .. Len(text)
      /\ line = 1 + Newlines(text, current) /\ HadError \in BOOLEAN
      /\ \A word \in DOMAIN Keywords : Keywords[word] # "EOF"
      /\ pc \in InToken => start < current /\ start < current + 1
      /\ start \in 0 .. current + 1
  BY PlaceFacts DEF ScannerInv
<1>2. CASE Comment
  <2>1. CASE scanner_peek(current) # "LF" /\ ~scanner_is_at_end(current)
    <3>1. current + 1 \in current .. Len(text) /\ Newlines(text, current + 1) = Newlines(text, current)
      BY <1>1, <2>1, PlaceFacts, ReadFacts
    <3>. QED
      BY <1>1, <1>2, <2>1, <3>1, Moves DEF Comment, Advance, InToken
  <2>2. CASE ~(scanner_peek(current) # "LF" /\ ~scanner_is_at_end(current))
    BY <1>1, <1>2, <2>2, Moves DEF Comment, Advance, InToken
  <2>. QED
    BY <2>1, <2>2
<1>3. CASE StringCharacter
  <2>1. /\ current + 1 \in current .. Len(text) /\ Newlines(text, current) \in Nat
        /\ Newlines(text, current + 1) =
             IF scanner_peek(current) = "LF" THEN Newlines(text, current) + 1 ELSE Newlines(text, current)
    BY <1>1, <1>3, PlaceFacts, ReadFacts DEF StringCharacter
  <2>2. line' = 1 + Newlines(text, current + 1)
    BY <1>1, <1>3, <2>1 DEF StringCharacter
  <2>. QED
    BY <1>1, <1>3, <2>1, <2>2, Moves DEF StringCharacter, Advance, InToken
<1>4. CASE StringUnterminated
  BY <1>1, <1>4, Moves DEF StringUnterminated, Advance, InToken
<1>5. CASE StringEnds
  <2>1. /\ current + 1 \in current .. Len(text)
        /\ Newlines(text, current + 1) = Newlines(text, current)
    BY <1>5, PeekFacts DEF StringEnds
  <2>2. pc \in InToken /\ pc # "done"
    BY <1>5 DEF StringEnds, InToken
  <2> DEFINE literal == OBJECT_STRING(CString(Span(start + 1, current)))
  <2>3. /\ scanner_add_token("STRING", start', current + 1, literal)
        /\ current' = current + 1 /\ pc' = "scan" /\ start' = start
        /\ UNCHANGED <<text, line, HadError, Keywords>>
    BY <1>5 DEF StringEnds, Advance
  <2>. HIDE DEF literal
  <2>. QED
    BY <1>1, <2>1, <2>2, <2>3, Adds
<1>6. CASE NumberDigit
  <2>1. /\ current + 1 \in current .. Len(text)
        /\ Newlines(text, current + 1) = Newlines(text, current)
    BY <1>6, PeekFacts DEF NumberDigit, isdigit
  <2>. QED
    BY <1>1, <1>6, <2>1, Moves DEF NumberDigit, Advance, InToken
<1>7. CASE NumberPoint
  <2>1. /\ current + 1 \in current .. Len(text)
        /\ Newlines(text, current + 1) = Newlines(text, current)
    BY <1>7, PeekFacts DEF NumberPoint, FractionStarts
  <2>. QED
    BY <1>1, <1>7, <2>1, Moves DEF NumberPoint, Advance, InToken
<1>8. CASE NumberEnds
  <2>2. pc \in InToken /\ pc # "done"
    BY <1>8 DEF NumberEnds, InToken
  <2> DEFINE literal == OBJECT_NUMBER(strtod(Span(start, current)))
  <2>3. /\ scanner_add_token("NUMBER", start', current, literal)
        /\ current' = current /\ pc' = "scan" /\ start' = start
        /\ UNCHANGED <<text, line, HadError, Keywords>>
    BY <1>8 DEF NumberEnds, Advance
  <2>. HIDE DEF literal
  <2>. QED
    BY <1>1, <2>2, <2>3, Adds
<1>9. CASE IdentifierCharacter
  <2>1. /\ current + 1 \in current .. Len(text)
        /\ Newlines(text, current + 1) = Newlines(text, current)
    BY <1>9, PeekFacts DEF IdentifierCharacter, is_alphanumeric, isdigit, is_alpha
  <2>. QED
    BY <1>1, <1>9, <2>1, Moves DEF IdentifierCharacter, Advance, InToken
<1>10. CASE IdentifierEnds
  <2>1. pc \in InToken /\ pc # "done"
    BY <1>10 DEF IdentifierEnds, InToken
  <2>2. \A word \in DOMAIN Keywords' : Keywords'[word] # "EOF"
    BY <1>1, <1>10, KeywordAssumption DEF IdentifierEnds
  <2> DEFINE word == Span(start, current)
             type == IF word \in DOMAIN Keywords' THEN Keywords'[word] ELSE "IDENTIFIER"
  <2>3. /\ scanner_add_token(type, start', current, OBJECT_NULL)
        /\ current' = current /\ pc' = "scan" /\ start' = start
        /\ UNCHANGED <<text, line, HadError>>
    BY <1>10 DEF IdentifierEnds, Advance
  <2>4. type # "EOF"
    BY <2>2
  <2>. HIDE DEF type
  <2>. QED
    BY <1>1, <2>1, <2>2, <2>3, <2>4, Adds
<1>11. CASE EndOfText
  <2>1. pc = "scan" /\ pc \notin InToken /\ pc # "done"
    BY <1>11 DEF EndOfText, InToken
  <2>. QED
    BY <1>1, <1>11, <2>1, Adds DEF EndOfText, Advance
<1>. QED
  BY <1>2, <1>3, <1>4, <1>5, <1>6, <1>7, <1>8, <1>9, <1>10, <1>11

-----------------------------------------------------------------------------
(* Words.  Between two tokens the cursor is not inside of a word, in a     *)
(* number no letter is behind it, and in an identifier everything behind   *)
(* it is the word.                                                         *)
TokenTypes ==
  {SingleType(c) : c \in Single} \cup {ComparingType(c, equal) : c \in Comparing, equal \in BOOLEAN}
  \cup {Keyword[word] : word \in DOMAIN Keyword} \cup {"SLASH", "STRING", "NUMBER", "IDENTIFIER", "EOF"}
Literals ==
  {OBJECT_NULL}
  \cup {OBJECT_NUMBER(strtod(SubSeq(t, i, j))) : t \in Texts, i \in Nat, j \in Nat}
  \cup {OBJECT_STRING(CString(SubSeq(t, i, j))) : t \in Texts, i \in Nat, j \in Nat}
Scanned == [type : TokenTypes, start : Nat, stop : Nat, line : Nat, literal : Literals]

Between(p) == p > 0 /\ is_alpha(text[p]) => ~is_alphanumeric(source_begin(p))
WordInv ==
  /\ Keywords \in {<<>>, Keyword}
  /\ WordsWhole
  /\ \A n \in 1 .. tokens.length : Token(n) \in Scanned
  /\ pc = "scan" => Between(current)
  /\ pc = "string" => source_begin(start) = "QUOTE"
  /\ pc \in {"number", "fraction"} => isdigit(source_begin(start)) /\ ~is_alpha(text[current])
  /\ pc = "identifier" =>
       /\ is_alpha(source_begin(start))
       /\ start > 0 => ~is_alpha(text[start])
       /\ \A n \in start + 1 .. current : is_alphanumeric(text[n])

(* No character is of two kinds.                                           *)
LEMMA Characters ==
  /\ \A c \in Digits \cup Single \cup Comparing \cup Blanks \cup {"QUOTE", "/", ".", "=", "LF", "NUL"} : ~is_alpha(c)
  /\ \A c \in Letters : is_alpha(c)
  /\ \A c \in {"LF", "NUL", "QUOTE"} : ~is_alphanumeric(c)
  /\ \A c : is_alpha(c) => is_alphanumeric(c)
  /\ \A c : c \notin Expected => ~is_alpha(c)
<1>1. \A c \in Digits \cup {"QUOTE", "/", ".", "=", "LF", "NUL"} : c \notin Letters
  <2>1. "0" \notin Letters /\ "1" \notin Letters /\ "2" \notin Letters /\ "3" \notin Letters
    BY DEF Letters
  <2>2. "4" \notin Letters /\ "5" \notin Letters /\ "6" \notin Letters /\ "7" \notin Letters
    BY DEF Letters
  <2>3. "8" \notin Letters /\ "9" \notin Letters /\ "QUOTE" \notin Letters /\ "/" \notin Letters
    BY DEF Letters
  <2>4. "." \notin Letters /\ "=" \notin Letters /\ "LF" \notin Letters /\ "NUL" \notin Letters
    BY DEF Letters
  <2>. QED
    BY <2>1, <2>2, <2>3, <2>4 DEF Digits
<1>2. \A c \in Single \cup Comparing \cup Blanks : c \notin Letters
  <2>1. "(" \notin Letters /\ ")" \notin Letters /\ "{" \notin Letters /\ "}" \notin Letters
    BY DEF Letters
  <2>2. "," \notin Letters /\ "." \notin Letters /\ "-" \notin Letters /\ "+" \notin Letters
    BY DEF Letters
  <2>3. ";" \notin Letters /\ "*" \notin Letters /\ "!" \notin Letters /\ "=" \notin Letters
    BY DEF Letters
  <2>4. "<" \notin Letters /\ ">" \notin Letters /\ "SP" \notin Letters /\ "CR" \notin Letters
    BY DEF Letters
  <2>5. "TAB" \notin Letters
    BY DEF Letters
  <2>. QED
    BY <2>1, <2>2, <2>3, <2>4, <2>5 DEF Single, Comparing, Blanks
<1>3. \A c \in {"LF", "NUL", "QUOTE"} : c \notin Digits
  BY DEF Digits
<1>4. \A c : c \notin Expected => c \notin Letters
  BY DEF Expected
<1>. QED
  BY <1>1, <1>2, <1>3, <1>4, Zenon DEF is_alpha, is_alphanumeric, isdigit

LEMMA LiteralsRead ==
  ASSUME NEW t \in Texts, NEW i \in Nat, NEW j \in Nat, NEW s, s = SubSeq(t, i, j)
  PROVE  OBJECT_NUMBER(strtod(s)) \in Literals /\ OBJECT_STRING(CString(s)) \in Literals
BY DEF Literals

LEMMA LineFacts == ScannerInv => line \in Nat
<1>1. ASSUME ScannerInv PROVE line \in Nat
  <2>1. current \in Nat /\ line = 1 + Newlines(text, current)
    BY <1>1, PlaceFacts DEF ScannerInv
  <2>2. Newlines(text, current) \in Nat
    BY <2>1, NewlinesStep
  <2>. QED
    BY <2>1, <2>2
<1>. QED
  BY <1>1

LEMMA SourceFacts ==
  ASSUME ScannerInv, NEW p \in Nat, p <= Len(text)
  PROVE  /\ p < Len(text) => source_begin(p) = text[p + 1]
         /\ ~(p < Len(text)) => source_begin(p) = "NUL"
         /\ scanner_peek(p) = source_begin(p)
BY PlaceFacts DEF source_begin, scanner_peek, scanner_is_at_end

(* Tokens that start with another character than a letter. *)
LEMMA OtherTokens ==
  ASSUME NEW token, ~is_alpha(source_begin(token.start)), token.type # "IDENTIFIER"
  PROVE  WholeWord(token)
BY DEF WholeWord

(* What a step adds is whole. *)
LEMMA WordsPushed ==
  ASSUME ScannerInv, WordsWhole, text' = text,
         \A n \in 1 .. tokens.length : Token(n) \in Scanned,
         NEW token \in Scanned, WholeWord(token),
         tokens' = LIST_PUSH(tokens, token)
  PROVE  /\ WordsWhole'
         /\ (\A n \in 1 .. tokens.length : Token(n) \in Scanned)'
<1>1. WellFormed(tokens) /\ tokens.length \in Nat
  BY DEF ScannerInv, Fit, WellFormed
<1>2. /\ tokens'.length = tokens.length + 1
      /\ tokens'.pointer[tokens.length + 1] = token
      /\ \A n \in 1 .. tokens.length : tokens'.pointer[n] = tokens.pointer[n]
  BY <1>1, PushFacts
<1>3. ASSUME NEW n \in 1 .. tokens'.length
      PROVE  \/ tokens'.pointer[n] = token
             \/ n \in 1 .. tokens.length /\ tokens'.pointer[n] = tokens.pointer[n]
  BY <1>1, <1>2
<1>. QED
  BY <1>3 DEF WordsWhole, WholeWord, Token, Span, source_begin

LEMMA WordsStay ==
  ASSUME WordInv, text' = text, tokens' = tokens
  PROVE  /\ WordsWhole'
         /\ (\A n \in 1 .. tokens.length : Token(n) \in Scanned)'
BY DEF WordInv, WordsWhole, WholeWord, Token, Span, source_begin

(* A step to the next token, with no word at the cursor or none behind it. *)
LEMMA ScansOn ==
  ASSUME ScannerInv, WordInv, text' = text, Keywords' = Keywords, pc' \in {"scan", "done", "comment"},
         current' \in Nat,
         \/ tokens' = tokens
         \/ \E token \in Scanned : WholeWord(token) /\ tokens' = LIST_PUSH(tokens, token),
         pc' = "scan" => Between(current')
  PROVE  WordInv'
<1>1. /\ WordsWhole'
      /\ (\A n \in 1 .. tokens.length : Token(n) \in Scanned)'
  <2>1. CASE tokens' = tokens
    BY <2>1, WordsStay
  <2>2. CASE \E token \in Scanned : WholeWord(token) /\ tokens' = LIST_PUSH(tokens, token)
    <3>1. PICK token \in Scanned : WholeWord(token) /\ tokens' = LIST_PUSH(tokens, token)
      BY <2>2
    <3>2. WordsWhole /\ \A n \in 1 .. tokens.length : Token(n) \in Scanned
      BY DEF WordInv
    <3>. QED
      BY <3>1, <3>2, WordsPushed
  <2>. QED
    BY <2>1, <2>2
<1>2. (pc = "scan" => Between(current))'
  BY DEF Between, source_begin
<1>3. Keywords' \in {<<>>, Keyword}
  BY DEF WordInv
<1>. QED
  BY <1>1, <1>2, <1>3 DEF WordInv

LEMMA FirstCharactersKeepWords ==
  ASSUME ScannerInv, WordInv,
         \/ SingleToken \/ ComparingToken \/ Blank \/ Newline \/ Slash
         \/ Enter({"QUOTE"}, "string") \/ Enter(Digits, "number") \/ Enter(Letters, "identifier")
         \/ Unexpected
  PROVE  WordInv'
<1>1. /\ pc = "scan" /\ ~scanner_is_at_end(current) /\ start' = current
      /\ text' = text /\ Keywords' = Keywords
  BY DEF SingleToken, ComparingToken, Blank, Newline, Slash, Enter, Unexpected, Scan
<1>2. /\ current \in Nat /\ Len(text) \in Nat /\ current < Len(text)
      /\ source_begin(current) = text[current + 1]
      /\ current + 1 \in Nat /\ current + 2 \in Nat /\ (current + 1) + 1 = current + 2
  BY <1>1, PlaceFacts, SourceFacts
<1>3. Between(current)
  BY <1>1 DEF WordInv
<1>4. ~is_alpha(source_begin(current)) => Between(current + 1)
  BY <1>2 DEF Between
<1> DEFINE made(type, to) ==
      [type |-> type, start |-> current, stop |-> to, line |-> line, literal |-> OBJECT_NULL]
<1>5. ASSUME NEW type \in TokenTypes, NEW to \in Nat, type # "IDENTIFIER", ~is_alpha(source_begin(current))
      PROVE  WholeWord(made(type, to)) /\ made(type, to) \in Scanned
  <2>1. made(type, to).start = current /\ made(type, to).type = type
    OBVIOUS
  <2>2. made(type, to) \in Scanned
    <3>1. OBJECT_NULL \in Literals
      BY DEF Literals
    <3>. QED
      BY <1>2, <3>1, LineFacts DEF Scanned
  <2>. HIDE DEF made
  <2>. QED
    BY <1>5, <2>1, <2>2, OtherTokens
<1>6. CASE SingleToken
  <2>1. ~is_alpha(source_begin(current)) /\ SingleType(source_begin(current)) # "IDENTIFIER"
    BY <1>6, Characters DEF SingleToken, Scan, Single, SingleType
  <2>3. SingleType(source_begin(current)) \in TokenTypes
    BY <1>6 DEF SingleToken, Scan, TokenTypes
  <2>2. /\ tokens' = LIST_PUSH(tokens, made(SingleType(source_begin(current)), current + 1))
        /\ pc' = "scan" /\ current' = current + 1
    BY <1>1, <1>6 DEF SingleToken, Advance, scanner_add_token
  <2>. HIDE DEF made
  <2>. QED
    BY <1>1, <1>2, <1>4, <1>5, <2>1, <2>2, <2>3, ScansOn
<1>7. CASE ComparingToken
  <2> DEFINE equal == scanner_match(current + 1, "=")
             p == IF equal THEN current + 2 ELSE current + 1
             type == ComparingType(source_begin(current), equal)
  <2>1. ~is_alpha(source_begin(current)) /\ type # "IDENTIFIER"
    BY <1>7, Characters DEF ComparingToken, Scan, Comparing, ComparingType
  <2>4. type \in TokenTypes
    <3>1. equal \in BOOLEAN
      BY DEF scanner_match
    <3>. QED
      BY <1>7, <3>1 DEF ComparingToken, Scan, TokenTypes
  <2>2. tokens' = LIST_PUSH(tokens, made(type, p)) /\ pc' = "scan" /\ current' = p
    BY <1>1, <1>7 DEF ComparingToken, Advance, scanner_add_token
  <2>3. p \in Nat /\ Between(p)
    <3>1. CASE equal
      <4>1. source_begin(current + 1) = "=" /\ current + 1 < Len(text)
        BY <1>2, <3>1 DEF scanner_match, scanner_is_at_end
      <4>2. text[current + 2] = "="
        BY <1>2, <4>1, SourceFacts
      <4>. QED
        BY <1>2, <3>1, <4>2, Characters DEF Between
    <3>2. CASE ~equal
      BY <1>2, <1>4, <2>1, <3>2
    <3>. QED
      BY <3>1, <3>2
  <2>. HIDE DEF made, p, type
  <2>. QED
    BY <1>1, <1>5, <2>1, <2>2, <2>3, <2>4, ScansOn
<1>8. CASE Blank \/ Newline \/ Unexpected
  <2>1. ~is_alpha(source_begin(current))
    BY <1>8, Characters DEF Blank, Newline, Unexpected, Scan
  <2>2. tokens' = tokens /\ pc' = "scan" /\ current' = current + 1
    BY <1>8 DEF Blank, Newline, Unexpected, Advance
  <2>. QED
    BY <1>1, <1>2, <1>4, <2>1, <2>2, ScansOn
<1>9. CASE Slash
  <2>1. ~is_alpha(source_begin(current))
    BY <1>9, Characters DEF Slash, Scan
  <2>2. \/ tokens' = tokens /\ pc' = "comment" /\ current' = current + 2
        \/ tokens' = LIST_PUSH(tokens, made("SLASH", current + 1)) /\ pc' = "scan" /\ current' = current + 1
    BY <1>1, <1>9 DEF Slash, Advance, scanner_add_token
  <2>. HIDE DEF made
  <2>3. CASE tokens' = tokens /\ pc' = "comment" /\ current' = current + 2
    BY <1>1, <1>2, <2>3, ScansOn
  <2>4. CASE tokens' = LIST_PUSH(tokens, made("SLASH", current + 1)) /\ pc' = "scan" /\ current' = current + 1
    <3>1. "SLASH" \in TokenTypes
      BY DEF TokenTypes
    <3>. QED
      BY <1>1, <1>2, <1>4, <1>5, <2>1, <2>4, <3>1, ScansOn
  <2>. QED
    BY <2>2, <2>3, <2>4
<1>10. ASSUME NEW chars, NEW where, Enter(chars, where)
       PROVE  /\ source_begin(current) \in chars /\ current' = current + 1 /\ pc' = where
              /\ source_begin(current) = source_begin(start)' /\ source_begin(current) = text'[current']
              /\ WordsWhole'
              /\ (\A n \in 1 .. tokens.length : Token(n) \in Scanned)'
              /\ Keywords' \in {<<>>, Keyword}
  <2>1. /\ source_begin(current) \in chars /\ current' = current + 1 /\ pc' = where
        /\ tokens' = tokens
    BY <1>10 DEF Enter, Scan, Advance
  <2>2. source_begin(current) = source_begin(start)' /\ source_begin(current) = text'[current']
    BY <1>1, <1>2, <2>1 DEF source_begin
  <2>. QED
    BY <1>1, <2>1, <2>2, WordsStay DEF WordInv
<1>11. CASE Enter({"QUOTE"}, "string")
  BY <1>10, <1>11 DEF WordInv
<1>12. CASE Enter(Digits, "number")
  BY <1>10, <1>12, Characters DEF WordInv, isdigit
<1>13. CASE Enter(Letters, "identifier")
  <2>1. is_alpha(source_begin(current)) /\ is_alphanumeric(source_begin(current))
    BY <1>10, <1>13, Characters
  <2>2. start' > 0 => ~is_alpha(text'[start'])
    BY <1>1, <1>3, <2>1 DEF Between
  <2>3. \A n \in start' + 1 .. current' : is_alphanumeric(text'[n])
    BY <1>1, <1>2, <1>10, <1>13, <2>1
  <2>. QED
    BY <1>10, <1>13, <2>1, <2>2, <2>3 DEF WordInv
<1>. QED
  BY <1>6, <1>7, <1>8, <1>9, <1>11, <1>12, <1>13

LEMMA LoopsKeepWords ==
  ASSUME ScannerInv, WordInv,
         \/ Comment \/ StringCharacter \/ StringUnterminated \/ StringEnds
         \/ NumberDigit \/ NumberPoint \/ NumberEnds
         \/ IdentifierCharacter \/ IdentifierEnds \/ EndOfText
  PROVE  WordInv'
<1>1. /\ current \in Nat /\ start \in Nat /\ Len(text) \in Nat /\ current \in 0 .. Len(text)
      /\ scanner_peek(current) = source_begin(current)
      /\ current < Len(text) => source_begin(current) = text[current + 1]
      /\ ~(current < Len(text)) => source_begin(current) = "NUL"
      /\ pc \in InToken => start < current
      /\ current + 1 \in Nat
  BY PlaceFacts, SourceFacts DEF ScannerInv
<1>2. /\ text' = text
      /\ ~is_alphanumeric(source_begin(current)) => Between(current)
      /\ current < Len(text) /\ ~is_alpha(source_begin(current)) => Between(current + 1)
      /\ scanner_is_at_end(current) <=> ~(current < Len(text))
  BY <1>1 DEF Between, Comment, StringCharacter, StringUnterminated, StringEnds, NumberDigit, NumberPoint,
       NumberEnds, IdentifierCharacter, IdentifierEnds, EndOfText, scanner_is_at_end
<1> DEFINE made(type, from, to, literal) ==
      [type |-> type, start |-> from, stop |-> to, line |-> line, literal |-> literal]
<1>0. "STRING" \in TokenTypes /\ "NUMBER" \in TokenTypes /\ "EOF" \in TokenTypes /\ OBJECT_NULL \in Literals
  BY DEF TokenTypes, Literals
<1>3. ASSUME NEW type \in TokenTypes, NEW from \in Nat, NEW to \in Nat, NEW literal \in Literals,
             type # "IDENTIFIER", ~is_alpha(source_begin(from))
      PROVE  WholeWord(made(type, from, to, literal)) /\ made(type, from, to, literal) \in Scanned
  <2>1. /\ made(type, from, to, literal).start = from /\ made(type, from, to, literal).type = type
        /\ made(type, from, to, literal) \in Scanned
    BY LineFacts DEF Scanned
  <2>. HIDE DEF made
  <2>. QED
    BY <1>3, <2>1, OtherTokens
<1>4. tokens' = tokens => /\ WordsWhole'
                         /\ (\A n \in 1 .. tokens.length : Token(n) \in Scanned)'
  BY <1>2, WordsStay
<1>5. CASE Comment
  <2>1. \/ pc' = "comment" /\ current' = current + 1
        \/ pc' = "scan" /\ current' = current /\ source_begin(current) \in {"LF", "NUL"}
    BY <1>1, <1>2, <1>5 DEF Comment, Advance
  <2>2. tokens' = tokens /\ Keywords' = Keywords
    BY <1>5 DEF Comment
  <2>3. pc' = "scan" => Between(current')
    BY <1>2, <2>1, Characters
  <2>. QED
    BY <1>1, <1>2, <2>1, <2>2, <2>3, ScansOn
<1>6. CASE StringUnterminated
  <2>1. /\ pc' = "scan" /\ current' = current /\ source_begin(current) = "NUL"
        /\ tokens' = tokens /\ Keywords' = Keywords
    BY <1>1, <1>2, <1>6 DEF StringUnterminated, Advance
  <2>. QED
    BY <1>1, <1>2, <2>1, ScansOn, Characters
<1>7. CASE StringCharacter
  <2>1. pc' = "string" /\ start' = start /\ tokens' = tokens /\ Keywords' = Keywords /\ pc = "string"
    BY <1>7 DEF StringCharacter, Advance
  <2>2. source_begin(start)' = "QUOTE"
    BY <1>2, <2>1 DEF WordInv, source_begin
  <2>. QED
    BY <1>4, <2>1, <2>2 DEF WordInv
<1>8. CASE StringEnds
  <2> DEFINE literal == OBJECT_STRING(CString(Span(start + 1, current)))
  <2>1. /\ tokens' = LIST_PUSH(tokens, made("STRING", start, current + 1, literal))
        /\ pc' = "scan" /\ current' = current + 1 /\ Keywords' = Keywords
        /\ pc = "string" /\ source_begin(current) = "QUOTE"
    BY <1>1, <1>8 DEF StringEnds, Advance, scanner_add_token
  <2>2. literal \in Literals
    <3>1. Span(start + 1, current) = SubSeq(text, start + 1 + 1, current) /\ start + 1 + 1 \in Nat
      BY <1>1 DEF Span
    <3>2. text \in Texts
      BY DEF ScannerInv
    <3>. QED
      BY <1>1, <3>1, <3>2, LiteralsRead
  <2>3. ~is_alpha(source_begin(start)) /\ ~is_alpha(source_begin(current))
    BY <2>1, Characters DEF WordInv
  <2>4. Between(current + 1)
    BY <1>1, <1>2, <2>1, <2>3
  <2>. HIDE DEF made, literal
  <2>5. WholeWord(made("STRING", start, current + 1, literal)) /\ made("STRING", start, current + 1, literal) \in Scanned
    BY <1>0, <1>1, <1>3, <2>2, <2>3
  <2>. QED
    BY <1>1, <1>2, <2>1, <2>4, <2>5, ScansOn
<1>9. CASE NumberDigit \/ NumberPoint
  <2>1. /\ pc' \in {"number", "fraction"} /\ pc \in {"number", "fraction"} /\ start' = start /\ current' = current + 1
        /\ tokens' = tokens /\ Keywords' = Keywords /\ source_begin(current) \in Digits \cup {"."}
    BY <1>1, <1>9 DEF NumberDigit, NumberPoint, FractionStarts, Advance, isdigit
  <2>2. source_begin(current) # "NUL" /\ ~is_alpha(source_begin(current))
    BY <2>1, Characters DEF Digits
  <2>3. ~is_alpha(text'[current'])
    BY <1>1, <1>2, <2>1, <2>2
  <2>4. isdigit(source_begin(start)')
    BY <1>2, <2>1 DEF WordInv, source_begin
  <2>. QED
    BY <1>4, <2>1, <2>3, <2>4 DEF WordInv
<1>10. CASE NumberEnds
  <2> DEFINE literal == OBJECT_NUMBER(strtod(Span(start, current)))
  <2>1. /\ tokens' = LIST_PUSH(tokens, made("NUMBER", start, current, literal))
        /\ pc' = "scan" /\ current' = current /\ Keywords' = Keywords
        /\ pc \in {"number", "fraction"}
    BY <1>10 DEF NumberEnds, Advance, scanner_add_token
  <2>2. literal \in Literals
    <3>1. Span(start, current) = SubSeq(text, start + 1, current) /\ start + 1 \in Nat
      BY <1>1 DEF Span
    <3>2. text \in Texts
      BY DEF ScannerInv
    <3>. QED
      BY <1>1, <3>1, <3>2, LiteralsRead
  <2>3. ~is_alpha(source_begin(start)) /\ ~is_alpha(text[current])
    BY <2>1, Characters DEF WordInv, isdigit
  <2>4. Between(current)
    BY <2>3 DEF Between
  <2>. HIDE DEF made, literal
  <2>5. WholeWord(made("NUMBER", start, current, literal)) /\ made("NUMBER", start, current, literal) \in Scanned
    BY <1>0, <1>1, <1>3, <2>2, <2>3
  <2>. QED
    BY <1>1, <1>2, <2>1, <2>4, <2>5, ScansOn
<1>11. CASE IdentifierCharacter
  <2>1. /\ pc' = "identifier" /\ pc = "identifier" /\ start' = start /\ current' = current + 1
        /\ tokens' = tokens /\ Keywords' = Keywords /\ is_alphanumeric(source_begin(current))
    BY <1>1, <1>11 DEF IdentifierCharacter, Advance
  <2>2. source_begin(current) = text[current + 1]
    BY <1>1, <2>1, Characters
  <2>3. \A n \in start' + 1 .. current' : is_alphanumeric(text'[n])
    <3>1. \A n \in start + 1 .. current : is_alphanumeric(text[n])
      BY <2>1 DEF WordInv
    <3>2. \A n \in start + 1 .. current + 1 : n \in start + 1 .. current \/ n = current + 1
      BY <1>1
    <3>. QED
      BY <1>2, <2>1, <2>2, <3>1, <3>2
  <2>4. is_alpha(source_begin(start)') /\ (start' > 0 => ~is_alpha(text'[start']))
    BY <1>2, <2>1 DEF WordInv, source_begin
  <2>. QED
    BY <1>4, <2>1, <2>3, <2>4 DEF WordInv
<1>12. CASE IdentifierEnds
  <2> DEFINE word == Span(start, current)
             type == IF word \in DOMAIN Keywords' THEN Keywords'[word] ELSE "IDENTIFIER"
             token == made(type, start, current, OBJECT_NULL)
  <2>1. /\ tokens' = LIST_PUSH(tokens, token) /\ pc' = "scan" /\ current' = current
        /\ pc = "identifier" /\ ~is_alphanumeric(source_begin(current))
    BY <1>1, <1>12 DEF IdentifierEnds, Advance, scanner_add_token
  <2>2. Keywords' = Keyword
    BY <1>12 DEF IdentifierEnds, WordInv
  <2>3. /\ is_alpha(source_begin(start)) /\ start < current
        /\ start > 0 => ~is_alpha(text[start])
        /\ \A n \in start + 1 .. current : is_alphanumeric(text[n])
    BY <1>1, <2>1 DEF WordInv, InToken
  <2>4. IsWord(text, start, current)
    <3>1. source_begin(start) = text[start + 1]
      BY <1>1, <2>3, SourceFacts
    <3>. QED
      BY <1>1, <2>1, <2>3, <3>1 DEF IsWord
  <2>6. type = IF word \in DOMAIN Keyword THEN Keyword[word] ELSE "IDENTIFIER"
    BY <2>2
  <2>11. type \in TokenTypes
    BY <2>6 DEF TokenTypes
  <2>. HIDE DEF type
  <2>5. /\ token.start = start /\ token.stop = current /\ token.type = type
        /\ token \in Scanned
    BY <1>0, <1>1, <2>11, LineFacts DEF Scanned
  <2>. HIDE DEF token, made, type
  <2>7. WholeWord(token)
    BY <2>3, <2>4, <2>5, <2>6 DEF WholeWord
  <2>8. WordsWhole /\ \A n \in 1 .. tokens.length : Token(n) \in Scanned
    BY DEF WordInv
  <2>9. /\ WordsWhole'
        /\ (\A n \in 1 .. tokens.length : Token(n) \in Scanned)'
    BY <1>2, <2>1, <2>5, <2>7, <2>8, WordsPushed
  <2>10. Between(current)'
    BY <1>2, <2>1 DEF Between, source_begin
  <2>. QED
    BY <2>1, <2>2, <2>9, <2>10 DEF WordInv
<1>13. CASE EndOfText
  <2>1. /\ tokens' = LIST_PUSH(tokens, made("EOF", current, current, OBJECT_NULL))
        /\ pc' = "done" /\ current' = current /\ Keywords' = Keywords /\ source_begin(current) = "NUL"
    BY <1>1, <1>2, <1>13 DEF EndOfText, Advance, scanner_add_token
  <2>. HIDE DEF made
  <2>3. WholeWord(made("EOF", current, current, OBJECT_NULL)) /\ made("EOF", current, current, OBJECT_NULL) \in Scanned
    BY <1>0, <1>1, <1>3, <2>1, Characters
  <2>. QED
    BY <1>1, <1>2, <2>1, <2>3, ScansOn
<1>. QED
  BY <1>5, <1>6, <1>7, <1>8, <1>9, <1>10, <1>11, <1>12, <1>13

LEMMA StartsWordInv == Starts => WordInv
<1>1. LIST_INIT.length = 0
  BY DEF LIST_INIT
<1>. QED
  BY <1>1 DEF Starts, WordInv, WordsWhole, Between

LEMMA NextKeepsWords == ScannerInv /\ WordInv /\ [Next]_vars => WordInv'
<1>1. CASE ScannerInv /\ WordInv /\ Next
  BY <1>1, FirstCharactersKeepWords, LoopsKeepWords DEF Next
<1>2. CASE WordInv /\ UNCHANGED vars
  BY <1>2 DEF vars, WordInv, WordsWhole, WholeWord, Token, Between, Span, source_begin
<1>. QED
  BY <1>1, <1>2

-----------------------------------------------------------------------------
(* The theorems.                                                           *)

LEMMA NextKeepsInv == ScannerInv /\ [Next]_vars => ScannerInv'
<1>1. CASE ScannerInv /\ Next
  BY <1>1, FirstCharactersKeepInv, LoopsKeepInv DEF Next
<1>2. CASE ScannerInv /\ UNCHANGED vars
  BY <1>2 DEF vars, ScannerInv, Token
<1>. QED
  BY <1>1, <1>2

LEMMA SpecScannerInv == Spec => []ScannerInv
BY InitStarts, StartsScannerInv, NextKeepsInv, PTL DEF Spec

(* No text makes the scanner read or go past its end, and no number of     *)
(* tokens makes it write outside of its list.                              *)
THEOREM ScannerTypeOK == Spec => []TypeOK
<1>1. ASSUME ScannerInv
      PROVE  TypeOK
  <2>1. WellFormed(tokens)
    BY <1>1 DEF ScannerInv, Fit
  <2>2. /\ tokens.length \in 0 .. tokens.capacity /\ tokens.capacity \in Nat
        /\ tokens.pointer = [n \in 1 .. tokens.capacity |-> Token(n)]
    BY <2>1 DEF WellFormed, Token
  <2> DEFINE cells == {Token(n) : n \in 1 .. tokens.capacity}
  <2>3. /\ tokens.pointer \in Seq(cells)
        /\ Len(tokens.pointer) = tokens.capacity
    <3>1. \A n \in 1 .. tokens.capacity : Token(n) \in cells
      OBVIOUS
    <3>. HIDE DEF cells
    <3>2. tokens.pointer \in [1 .. tokens.capacity -> cells]
      BY <2>2, <3>1
    <3>. QED
      BY <2>2, <3>2
  <2>4. line \in Nat \ {0}
    <3>1. current \in Nat
      BY <1>1, PlaceFacts
    <3>2. Newlines(text, current) \in Nat
      BY <3>1, NewlinesStep
    <3>3. line = 1 + Newlines(text, current)
      BY <1>1 DEF ScannerInv
    <3>. QED
      BY <3>2, <3>3
  <2>. QED
    BY <1>1, <2>2, <2>3, <2>4 DEF ScannerInv, TypeOK, InToken
<1>. QED
  BY <1>1, SpecScannerInv, PTL

(* Whatever the text is, every token has the line that it ends on.         *)
THEOREM ScannerLinesCounted == Spec => []LinesCounted
<1>1. ASSUME ScannerInv
      PROVE  LinesCounted
  BY <1>1 DEF ScannerInv, Fit, LinesCounted, Token
<1>. QED
  BY <1>1, SpecScannerInv, PTL

(* Whatever the text is, the tokens are disjoint spans of it in order, and *)
(* the list the parser gets ends in its only TOKEN_EOF.                    *)
THEOREM ScannerTokensInOrder == Spec => []TokensInOrder
<1>1. ASSUME ScannerInv
      PROVE  TokensInOrder
  <2>1. \A n \in 1 .. tokens.length : Token(n).stop <= current
    BY <1>1, PlaceFacts DEF ScannerInv, Fit, Token
  <2>. QED
    BY <1>1, <2>1 DEF ScannerInv, Fit, Token, TokensInOrder
<1>. QED
  BY <1>1, SpecScannerInv, PTL

(* Whatever the text and the table of keywords are, words are cut out      *)
(* whole, each is the keyword it spells or else an identifier, and nothing *)
(* else is an identifier.                                                  *)
THEOREM ScannerWordsWhole == Spec => []WordsWhole
<1>1. WordInv => WordsWhole
  BY DEF WordInv
<1>. QED
  BY <1>1, InitStarts, StartsWordInv, NextKeepsWords, SpecScannerInv, PTL DEF Spec

(* However often the list grows, the tokens in it stay.                    *)
THEOREM ScannerTokensKept == Spec => TokensKept
<1> DEFINE Kept == /\ tokens'.length >= tokens.length
                   /\ \A n \in 1 .. tokens.length : tokens'.pointer[n] = tokens.pointer[n]
<1>1. ASSUME ScannerInv, [Next]_vars
      PROVE  Kept
  <2>1. WellFormed(tokens) /\ tokens.length \in Nat
    BY <1>1 DEF ScannerInv, Fit, WellFormed
  <2>2. CASE tokens' = tokens
    BY <2>1, <2>2
  <2>3. ASSUME NEW token, tokens' = LIST_PUSH(tokens, token)
        PROVE  Kept
    BY <2>1, <2>3, PushFacts
  <2>4. tokens' = tokens \/ \E token : tokens' = LIST_PUSH(tokens, token)
    BY <1>1 DEF Next, vars, SingleToken, ComparingToken, Blank, Newline, Slash, Comment, Enter,
         StringCharacter, StringUnterminated, StringEnds, NumberDigit, NumberPoint, NumberEnds,
         IdentifierCharacter, IdentifierEnds, Unexpected, EndOfText, scanner_add_token
  <2>. QED
    BY <2>2, <2>3, <2>4
<1>2. ScannerInv /\ [Next]_vars => [Kept]_vars
  BY <1>1
<1>. QED
  BY <1>2, SpecScannerInv, PTL DEF Spec, TokensKept
=============================================================================

---------------------------- MODULE ParserProofs ----------------------------
(***************************************************************************)
(* TLAPS proofs about module Parser, for every list of tokens and whatever *)
(* the limits on parameters and arguments are.                             *)
(***************************************************************************)
EXTENDS Parser, TLAPS, NaturalsInduction, WellFoundedInduction, SequenceTheorems

-----------------------------------------------------------------------------
(* The frames.  A loop over declarations was not at the end of the list    *)
(* when it called; a function that does not test its operand for NULL is   *)
(* strictly further on than the function that waits for it; and a NULL     *)
(* that is kept as an operand has been reported.                           *)

Loops == {"parser_parse", "block"}

Strict(f) ==
  \/ f.fn \in {"assignment_value", "grouping", "function_body"}
  \/ f.fn \in Levels /\ f.nodes # <<>>

Carries(f) ==
  /\ f.fn = "assignment_value" \/ (f.fn \in Levels /\ f.nodes # <<>>)
  /\ f.nodes[1] = NULL

(* A list of nodes with a head before the elements that are counted. *)
WithinLimit(nodes, limit, err) ==
  /\ \E S : nodes \in Seq(S)
  /\ Len(nodes) - 1 > limit => err

FullReported(nodes, err) ==
  /\ \E S : nodes \in Seq(S)
  /\ Len(nodes) - 1 >= MAX_ARGUMENTS => err

FrameOK(f, p, err, toks) ==
  /\ f.from \in 1 .. p
  /\ f.fn \in Loops => toks[f.from].type # "EOF"
  /\ Carries(f) => err
  /\ f.fn = "argument" => FullReported(f.nodes, err)

(* Frame f waits directly above frame g. *)
Fits(f, g) ==
  /\ f.from >= g.from
  /\ Strict(f) => f.from > g.from
  /\ g.fn \in Loops => f.fn = "declaration"
  /\ f.fn # "parser_parse"

Chained(frames, p, err, toks) ==
  \A n \in 1 .. Len(frames) :
    /\ FrameOK(frames[n], p, err, toks)
    /\ IF n = Len(frames) THEN frames[n].fn = "parser_parse" ELSE Fits(frames[n], frames[n + 1])

LEMMA FurtherOn ==
  ASSUME NEW f, NEW g, NEW c \in Nat, NEW p \in Nat, p >= c, Fits(f, g),
         f.from \in 1 .. c, g.from \in 1 .. c, p > f.from \/ Strict(f)
  PROVE  p > g.from
BY DEF Fits

LEMMA PushChained ==
  ASSUME NEW S, NEW frames \in Seq(S), NEW p, NEW err, NEW toks, NEW f,
         Chained(frames, p, err, toks), FrameOK(f, p, err, toks),
         frames = <<>> => f.fn = "parser_parse",
         frames # <<>> => Fits(f, Head(frames))
  PROVE  Chained(<<f>> \o frames, p, err, toks)
<1> DEFINE pushed == <<f>> \o frames
<1>1. /\ Len(pushed) = Len(frames) + 1
      /\ Len(frames) \in Nat
      /\ pushed[1] = f
      /\ \A n \in 1 .. Len(frames) : pushed[n + 1] = frames[n]
      /\ frames = <<>> <=> Len(frames) = 0
      /\ frames # <<>> => Head(frames) = frames[1]
  OBVIOUS
<1>. HIDE DEF pushed
<1>2. ASSUME NEW n \in 1 .. Len(pushed)
      PROVE  /\ FrameOK(pushed[n], p, err, toks)
             /\ IF n = Len(pushed) THEN pushed[n].fn = "parser_parse" ELSE Fits(pushed[n], pushed[n + 1])
  <2>1. CASE n = 1
    <3>1. frames # <<>> => pushed[1 + 1] = frames[1]
      BY <1>1
    <3>. QED
      BY <1>1, <2>1, <3>1
  <2>2. CASE n # 1
    <3>1. n - 1 \in 1 .. Len(frames) /\ (n - 1) + 1 = n
      BY <1>1, <2>2
    <3>2. pushed[n] = frames[n - 1]
      BY <1>1, <3>1
    <3>3. n # Len(pushed) => pushed[n + 1] = frames[(n - 1) + 1]
      BY <1>1, <3>1
    <3>4. n = Len(pushed) <=> n - 1 = Len(frames)
      BY <1>1, <3>1
    <3>. QED
      BY <3>1, <3>2, <3>3, <3>4 DEF Chained
  <2>. QED
    BY <2>1, <2>2
<1>3. Chained(pushed, p, err, toks)
  BY <1>2 DEF Chained
<1>. QED
  BY <1>3 DEF pushed

LEMMA PopChained ==
  ASSUME NEW S, NEW frames \in Seq(S), NEW p, NEW err, NEW toks,
         Chained(frames, p, err, toks), frames # <<>>
  PROVE  /\ Tail(frames) \in Seq(S)
         /\ Chained(Tail(frames), p, err, toks)
         /\ FrameOK(Head(frames), p, err, toks)
         /\ Head(frames).fn = "parser_parse" <=> Tail(frames) = <<>>
         /\ Tail(frames) # <<>> => Fits(Head(frames), Head(Tail(frames)))
         /\ Tail(frames) # <<>> => FrameOK(Head(Tail(frames)), p, err, toks)
<1> DEFINE rest == Tail(frames)
<1>1. /\ rest \in Seq(S)
      /\ Len(rest) = Len(frames) - 1
      /\ Len(frames) \in Nat
      /\ Len(frames) >= 1
      /\ Head(frames) = frames[1]
      /\ \A n \in 1 .. Len(rest) : rest[n] = frames[n + 1]
  OBVIOUS
<1>. HIDE DEF rest
<1>2. rest = <<>> <=> Len(rest) = 0
  BY <1>1
<1>3. rest # <<>> => Head(rest) = frames[1 + 1]
  BY <1>1, <1>2
<1>4. /\ FrameOK(frames[1], p, err, toks)
      /\ IF 1 = Len(frames) THEN frames[1].fn = "parser_parse" ELSE Fits(frames[1], frames[1 + 1])
  BY <1>1 DEF Chained
<1>5. ASSUME NEW n \in 1 .. Len(rest)
      PROVE  /\ FrameOK(rest[n], p, err, toks)
             /\ IF n = Len(rest) THEN rest[n].fn = "parser_parse" ELSE Fits(rest[n], rest[n + 1])
  <2>1. n + 1 \in 1 .. Len(frames) /\ (n = Len(rest) <=> n + 1 = Len(frames))
    BY <1>1
  <2>2. rest[n] = frames[n + 1]
    BY <1>1
  <2>3. n # Len(rest) => rest[n + 1] = frames[(n + 1) + 1]
    BY <1>1
  <2>. QED
    BY <2>1, <2>2, <2>3 DEF Chained
<1>6. Chained(rest, p, err, toks)
  BY <1>5 DEF Chained
<1>7. frames[1].fn = "parser_parse" <=> rest = <<>>
  BY <1>1, <1>2, <1>4 DEF Fits
<1>8. rest # <<>> => Fits(frames[1], Head(rest))
  BY <1>1, <1>2, <1>3, <1>4
<1>9. rest # <<>> => FrameOK(Head(rest), p, err, toks)
  BY <1>1, <1>2, <1>5
<1>. QED
  BY <1>1, <1>4, <1>6, <1>7, <1>8, <1>9 DEF rest

(* The cursor only moves on, and the error flag is only raised. *)
LEMMA LaterChained ==
  ASSUME NEW frames, NEW p \in Nat, NEW q \in Nat, q >= p,
         NEW err \in BOOLEAN, NEW later \in BOOLEAN, err => later, NEW toks,
         Chained(frames, p, err, toks)
  PROVE  Chained(frames, q, later, toks)
<1>1. ASSUME NEW f, FrameOK(f, p, err, toks)
      PROVE  FrameOK(f, q, later, toks)
  BY <1>1 DEF FrameOK, FullReported
<1>. QED
  BY <1>1 DEF Chained

-----------------------------------------------------------------------------
(* The inductive invariant.  `g` is the innermost function that waits.     *)
ParameterPoints == {"function_named", "parameters", "parameter", "parameter_end", "function_close"}
ArgumentPoints == {"finish_call", "argument", "call_close"}
ListPoints == ParameterPoints \cup ArgumentPoints

ListOK(point, nodes, err) ==
  /\ point \in ParameterPoints => WithinLimit(nodes, PARAMS_MAX, err)
  /\ point \in ArgumentPoints => WithinLimit(nodes, MAX_ARGUMENTS, err)

CtlAbove(c, g, p, err) ==
  /\ c.tag \in {"at", "return", "crash"}
  /\ c.tag = "at" =>
       /\ c.point # "parser_parse"
       /\ g.fn \in Loops => c.point = "declaration" \/ (c.point = "synchronize" /\ p > g.from)
       /\ c.point = "synchronize" => err
       /\ ListOK(c.point, c.nodes, err)
  /\ c.tag = "return" =>
       /\ c.node = NULL => err
       /\ c.node # NULL \/ g.fn \in Loops => p > g.from
  /\ c.tag = "crash" => err

CtlOK(c, frames, p, err) ==
  IF frames = <<>>
  THEN c.tag \in {"at", "done"} /\ (c.tag = "at" => c.point = "parser_parse")
  ELSE CtlAbove(c, Head(frames), p, err)

ParserInv ==
  /\ tokens \in Seq(Tokens)
  /\ Terminated(tokens)
  /\ current \in 1 .. Len(tokens)
  /\ HadError \in BOOLEAN
  /\ hole \in BOOLEAN
  /\ hole => HadError
  /\ \E S : stack \in Seq(S)
  /\ Chained(stack, current, HadError, tokens)
  /\ CtlOK(ctl, stack, current, HadError)

LEMMA InputFacts ==
  ASSUME ParserInv
  PROVE  /\ Len(tokens) \in Nat
         /\ current \in Nat
         /\ \A n \in 1 .. Len(tokens) : tokens[n].type = "EOF" <=> n = Len(tokens)
BY DEF ParserInv, Terminated

LEMMA AdvanceFacts ==
  ASSUME ParserInv
  PROVE  /\ parser_advance \in current .. Len(tokens)
         /\ current \in current .. Len(tokens)
         /\ ~parser_is_at_end => parser_advance > current
         /\ \A type : parser_check(type) => parser_advance > current
         /\ \A types : parser_match(types) => parser_advance > current
BY InputFacts DEF ParserInv, parser_advance, parser_is_at_end, parser_peek, parser_check, parser_match

(* What a step does to the tokens and the flags. *)
Flags ==
  /\ tokens' = tokens
  /\ HadError' \in BOOLEAN
  /\ hole' \in BOOLEAN
  /\ HadError \/ hole' => HadError'

LEMMA QuietlyFlags ==
  ASSUME ParserInv, Quietly
  PROVE  Flags /\ HadError' = HadError
BY DEF ParserInv, Quietly, Flags

LEMMA ErrorFlags ==
  ASSUME ParserInv, error
  PROVE  Flags /\ HadError' = TRUE
BY DEF ParserInv, error, Flags

LEMMA BuildingFlags ==
  ASSUME ParserInv, NEW children, Building(children), NULL \in children => HadError
  PROVE  Flags /\ HadError' = HadError
BY DEF ParserInv, Building, Flags

(* The function that waits, as the innermost one finds it. *)
LEMMA AtFacts ==
  ASSUME ParserInv, ctl.tag = "at", ctl.point # "parser_parse"
  PROVE  /\ stack # <<>>
         /\ ctl.point \notin {"declaration", "synchronize"} => Top.fn \notin Loops
         /\ ctl.point = "synchronize" => HadError
         /\ ctl.point = "synchronize" /\ Top.fn \in Loops => current > Top.from
BY DEF ParserInv, CtlOK, CtlAbove, Top

LEMMA ReturnFacts ==
  ASSUME ParserInv, ctl.tag = "return"
  PROVE  /\ stack # <<>>
         /\ ctl.node = NULL => HadError
         /\ ctl.node # NULL \/ Top.fn \in Loops => current > Top.from
BY DEF ParserInv, CtlOK, CtlAbove, Top

LEMMA TopFacts ==
  ASSUME ParserInv, stack # <<>>
  PROVE  /\ Top.from \in 1 .. current
         /\ Top.fn \in Loops => tokens[Top.from].type # "EOF"
         /\ Carries(Top) => HadError
         /\ Top.fn = "argument" => FullReported(Top.nodes, HadError)
         /\ Top.fn = "parser_parse" <=> Tail(stack) = <<>>
         /\ Tail(stack) # <<>> => Fits(Top, Head(Tail(stack)))
         /\ Tail(stack) # <<>> => Head(Tail(stack)).from \in 1 .. current
         /\ Tail(stack) # <<>> /\ Head(Tail(stack)).fn \in Loops =>
              tokens[Head(Tail(stack)).from].type # "EOF"
<1>1. PICK S : stack \in Seq(S)
  BY DEF ParserInv
<1>2. Chained(stack, current, HadError, tokens)
  BY DEF ParserInv
<1>3. /\ FrameOK(Top, current, HadError, tokens)
      /\ Top.fn = "parser_parse" <=> Tail(stack) = <<>>
      /\ Tail(stack) # <<>> => Fits(Top, Head(Tail(stack)))
      /\ Tail(stack) # <<>> => FrameOK(Head(Tail(stack)), current, HadError, tokens)
  BY <1>1, <1>2, PopChained DEF Top
<1>. QED
  BY <1>3 DEF FrameOK

-----------------------------------------------------------------------------
(* The two things a step can leave behind: the functions that waited or    *)
(* all of them but the innermost, with or without a new one.               *)

LEMMA Settled ==
  ASSUME ParserInv, Flags, current' \in current .. Len(tokens),
         NEW frames, frames = stack \/ (stack # <<>> /\ frames = Tail(stack))
  PROVE  /\ \E S : frames \in Seq(S)
         /\ Chained(frames, current', HadError', tokens')
<1>1. PICK S : stack \in Seq(S)
  BY DEF ParserInv
<1>2. frames \in Seq(S) /\ Chained(frames, current, HadError, tokens)
  BY <1>1, PopChained DEF ParserInv
<1>3. /\ current \in Nat /\ current' \in Nat /\ current' >= current
      /\ HadError \in BOOLEAN /\ HadError' \in BOOLEAN /\ (HadError => HadError')
      /\ tokens' = tokens
  BY InputFacts DEF ParserInv, Flags
<1>. QED
  BY <1>2, <1>3, LaterChained

LEMMA Stayed ==
  ASSUME ParserInv, Flags, current' \in current .. Len(tokens),
         stack' = stack \/ (stack # <<>> /\ stack' = Tail(stack)),
         CtlOK(ctl', stack', current', HadError')
  PROVE  ParserInv'
<1>1. /\ \E S : stack' \in Seq(S)
      /\ Chained(stack', current', HadError', tokens')
  BY Settled
<1>2. current' \in 1 .. Len(tokens')
  BY InputFacts DEF ParserInv, Flags
<1>. QED
  BY <1>1, <1>2 DEF ParserInv, Flags

LEMMA Pushed ==
  ASSUME ParserInv, Flags, current' \in current .. Len(tokens),
         NEW frames, frames = stack \/ (stack # <<>> /\ frames = Tail(stack)),
         NEW f, stack' = <<f>> \o frames, FrameOK(f, current', HadError', tokens),
         frames = <<>> => f.fn = "parser_parse",
         frames # <<>> => Fits(f, Head(frames)),
         CtlAbove(ctl', f, current', HadError')
  PROVE  ParserInv'
<1>1. PICK S : frames \in Seq(S)
  BY Settled
<1>2. Chained(frames, current', HadError', tokens')
  BY Settled
<1>3. Chained(stack', current', HadError', tokens')
  BY <1>1, <1>2, PushChained DEF Flags
<1>4. stack' \in Seq(S \cup {f}) /\ stack' # <<>> /\ Head(stack') = f
  BY <1>1
<1>5. CtlOK(ctl', stack', current', HadError')
  BY <1>4 DEF CtlOK
<1>6. current' \in 1 .. Len(tokens')
  BY InputFacts DEF ParserInv, Flags
<1>. QED
  BY <1>3, <1>4, <1>5, <1>6 DEF ParserInv, Flags

(* Points of which the invariant says more than that they are reached. *)
Special == {"parser_parse", "synchronize"}

LEMMA CallOver ==
  ASSUME ParserInv, Flags, NEW p \in current .. Len(tokens), NEW fn, NEW nodes, NEW callee,
         Call(stack, p, fn, nodes, callee), stack # <<>>, Top.fn \notin Loops,
         fn \notin Loops, callee \notin Special \cup ListPoints,
         fn # "assignment_value", fn \in {"grouping", "function_body"} => p > current,
         fn \in Levels => nodes = <<>>, fn = "argument" => FullReported(nodes, HadError')
  PROVE  ParserInv'
<1> DEFINE f == Frame(stack, p, fn, nodes)
<1>1. f.fn = fn /\ f.nodes = nodes /\ f.from = p
  BY DEF Frame
<1>2. stack' = <<f>> \o stack /\ current' = p /\ ctl'.tag = "at" /\ ctl'.point = callee
  BY DEF Call, At
<1>. HIDE DEF f
<1>3. Top.from \in 1 .. current /\ current \in Nat /\ Len(tokens) \in Nat
  BY TopFacts, InputFacts
<1>4. FrameOK(f, current', HadError', tokens)
  BY <1>1, <1>2, <1>3 DEF FrameOK, Carries
<1>5. Fits(f, Head(stack))
  BY <1>1, <1>3 DEF Fits, Strict, Top, Loops
<1>6. CtlAbove(ctl', f, current', HadError')
  BY <1>1, <1>2 DEF CtlAbove, Special, ListOK, ListPoints
<1>. QED
  BY <1>2, <1>4, <1>5, <1>6, Pushed

LEMMA CallInstead ==
  ASSUME ParserInv, Flags, NEW p \in current .. Len(tokens), NEW fn, NEW nodes, NEW callee,
         Call(Tail(stack), p, fn, nodes, callee), stack # <<>>,
         Top.fn \notin {"declaration", "parser_parse"},
         fn \notin Loops \cup {"argument"}, callee \notin Special \cup ListPoints,
         fn \in Levels \cup {"assignment_value", "grouping", "function_body"} => p > current,
         fn \in Levels \cup {"assignment_value"} => nodes[1] # NULL \/ HadError'
  PROVE  ParserInv'
<1> DEFINE f == Frame(Tail(stack), p, fn, nodes)
<1>1. f.fn = fn /\ f.nodes = nodes /\ f.from = p
  BY DEF Frame
<1>2. stack' = <<f>> \o Tail(stack) /\ current' = p /\ ctl'.tag = "at" /\ ctl'.point = callee
  BY DEF Call, At
<1>. HIDE DEF f
<1>3. /\ Tail(stack) # <<>>
      /\ Fits(Top, Head(Tail(stack)))
      /\ Head(Tail(stack)).from \in 1 .. current /\ current \in Nat /\ Len(tokens) \in Nat
  BY TopFacts, InputFacts
<1>4. FrameOK(f, current', HadError', tokens)
  BY <1>1, <1>2, <1>3 DEF FrameOK, Carries, Flags
<1>5. Fits(f, Head(Tail(stack)))
  BY <1>1, <1>3 DEF Fits, Strict, Loops
<1>6. CtlAbove(ctl', f, current', HadError')
  BY <1>1, <1>2 DEF CtlAbove, Special, ListOK, ListPoints
<1>. QED
  BY <1>2, <1>3, <1>4, <1>5, <1>6, Pushed

LEMMA GotoOver ==
  ASSUME ParserInv, Flags, NEW p \in current .. Len(tokens), NEW point, NEW nodes,
         Goto(stack, p, point, nodes), stack # <<>>, Top.fn \notin Loops, point \notin Special,
         ListOK(point, nodes, HadError')
  PROVE  ParserInv'
<1>1. stack' = stack /\ current' = p /\ ctl'.tag = "at" /\ ctl'.point = point /\ ctl'.nodes = nodes
  BY DEF Goto, At
<1>2. CtlOK(ctl', stack', current', HadError')
  BY <1>1 DEF CtlOK, CtlAbove, Top, Special
<1>. QED
  BY <1>1, <1>2, Stayed

LEMMA GotoInstead ==
  ASSUME ParserInv, Flags, NEW p \in current .. Len(tokens), NEW point, NEW nodes,
         Goto(Tail(stack), p, point, nodes), stack # <<>>,
         Top.fn \notin {"declaration", "parser_parse"}, point \notin Special,
         ListOK(point, nodes, HadError')
  PROVE  ParserInv'
<1>1. stack' = Tail(stack) /\ current' = p /\ ctl'.tag = "at" /\ ctl'.point = point /\ ctl'.nodes = nodes
  BY DEF Goto, At
<1>2. Tail(stack) # <<>> /\ Head(Tail(stack)).fn \notin Loops
  BY TopFacts DEF Fits
<1>3. CtlOK(ctl', stack', current', HadError')
  BY <1>1, <1>2 DEF CtlOK, CtlAbove, Special
<1>. QED
  BY <1>1, <1>3, Stayed

LEMMA YieldOver ==
  ASSUME ParserInv, Flags, NEW p \in current .. Len(tokens), NEW node,
         Yield(stack, p, node), stack # <<>>, Top.fn \notin Loops,
         node = NULL => HadError', node # NULL => p > current
  PROVE  ParserInv'
<1>1. stack' = stack /\ current' = p /\ ctl'.tag = "return" /\ ctl'.node = node
  BY DEF Yield, Return
<1>2. node # NULL => p > Top.from
  BY TopFacts, InputFacts
<1>3. CtlOK(ctl', stack', current', HadError')
  BY <1>1, <1>2 DEF CtlOK, CtlAbove, Top
<1>. QED
  BY <1>1, <1>3, Stayed

LEMMA YieldInstead ==
  ASSUME ParserInv, Flags, NEW p \in current .. Len(tokens), NEW node,
         Yield(Tail(stack), p, node), stack # <<>>,
         Top.fn \notin {"declaration", "parser_parse"},
         node = NULL => HadError', node # NULL => p > Top.from \/ Strict(Top)
  PROVE  ParserInv'
<1>1. stack' = Tail(stack) /\ current' = p /\ ctl'.tag = "return" /\ ctl'.node = node
  BY DEF Yield, Return
<1>2. Tail(stack) # <<>> /\ Head(Tail(stack)).fn \notin Loops
  BY TopFacts DEF Fits
<1>3. node # NULL => p > Head(Tail(stack)).from
  <2>1. /\ Fits(Top, Head(Tail(stack))) /\ Top.from \in 1 .. current
        /\ Head(Tail(stack)).from \in 1 .. current
    BY <1>2, TopFacts
  <2>2. current \in Nat /\ p \in Nat /\ p >= current
    BY InputFacts
  <2>. QED
    BY <2>1, <2>2, FurtherOn
<1>4. CtlOK(ctl', stack', current', HadError')
  BY <1>1, <1>2, <1>3 DEF CtlOK, CtlAbove
<1>. QED
  BY <1>1, <1>4, Stayed

(* parser_consume when the token is missing. *)
LEMMA MissingOver ==
  ASSUME ParserInv, NEW type, Missing(type, stack), stack # <<>>, Top.fn \notin Loops
  PROVE  ParserInv'
BY AdvanceFacts, ErrorFlags, YieldOver DEF Missing

LEMMA MissingInstead ==
  ASSUME ParserInv, NEW type, Missing(type, Tail(stack)), stack # <<>>,
         Top.fn \notin {"declaration", "parser_parse"}
  PROVE  ParserInv'
BY AdvanceFacts, ErrorFlags, YieldInstead DEF Missing

(* A statement that is returned with its depth is still that statement. *)
LEMMA PlacedIsPlaced ==
  ASSUME NEW x, NEW y, NEW z, NEW u, NEW d
  PROVE  /\ Placed(stmt_new_block(x), d) = [type |-> "block", depth |-> d, statements |-> x]
         /\ Placed(stmt_new_print(x), d) = [type |-> "print", depth |-> d, expression |-> x]
         /\ Placed(stmt_new_expression(x), d) = [type |-> "expression", depth |-> d, expression |-> x]
         /\ Placed(stmt_new_return(x), d) = [type |-> "return", depth |-> d, value |-> x]
         /\ Placed(stmt_new_var(x, y), d) = [type |-> "var", depth |-> d, name |-> x, initializer |-> y]
         /\ Placed(stmt_new_while(x, y), d) = [type |-> "while", depth |-> d, condition |-> x, body |-> y]
         /\ Placed(stmt_new_if(x, y, z), d) =
              [type |-> "if", depth |-> d, condition |-> x, then_branch |-> y, else_branch |-> z]
         /\ Placed(stmt_new_function(x, y, z, u), d) =
              [type |-> "function", depth |-> d, at |-> x, name |-> y, params |-> z, body |-> u]
BY DEF Placed, stmt_new_block, stmt_new_print, stmt_new_expression, stmt_new_return,
       stmt_new_var, stmt_new_if, stmt_new_while, stmt_new_function

(* A node that is built is not NULL. *)
LEMMA NodesAreNodes ==
  ASSUME NEW x, NEW y, NEW z, NEW u, NEW d
  PROVE  /\ stmt_list(x) # NULL
         /\ Placed(stmt_new_block(x), d) # NULL /\ Placed(stmt_new_print(x), d) # NULL
         /\ Placed(stmt_new_expression(x), d) # NULL /\ Placed(stmt_new_return(x), d) # NULL
         /\ Placed(stmt_new_var(x, y), d) # NULL /\ Placed(stmt_new_if(x, y, z), d) # NULL
         /\ Placed(stmt_new_while(x, y), d) # NULL /\ Placed(stmt_new_function(x, y, z, u), d) # NULL
         /\ expr_new_assign(x, y) # NULL /\ expr_new_unary(x, y) # NULL /\ expr_new_call(x, y) # NULL
         /\ expr_new_grouping(x) # NULL /\ expr_new_literal(x) # NULL /\ expr_new_variable(x) # NULL
         /\ expr_new_binary(x, y, z) # NULL /\ expr_new_logical(x, y, z) # NULL
<1>1. NULL.type = "NULL" /\ stmt_list(x).type = "stmt_list"
  BY DEF NULL, stmt_list
<1>2. /\ Placed(stmt_new_block(x), d).type = "block"
      /\ Placed(stmt_new_print(x), d).type = "print"
      /\ Placed(stmt_new_expression(x), d).type = "expression"
      /\ Placed(stmt_new_return(x), d).type = "return"
      /\ Placed(stmt_new_var(x, y), d).type = "var"
      /\ Placed(stmt_new_if(x, y, z), d).type = "if"
      /\ Placed(stmt_new_while(x, y), d).type = "while"
      /\ Placed(stmt_new_function(x, y, z, u), d).type = "function"
  BY PlacedIsPlaced
<1>3. /\ expr_new_assign(x, y).type = "assign" /\ expr_new_unary(x, y).type = "unary"
      /\ expr_new_call(x, y).type = "call" /\ expr_new_grouping(x).type = "grouping"
      /\ expr_new_literal(x).type = "literal" /\ expr_new_variable(x).type = "variable"
      /\ expr_new_binary(x, y, z).type = "binary" /\ expr_new_logical(x, y, z).type = "logical"
  BY DEF expr_new_assign, expr_new_unary, expr_new_call, expr_new_grouping, expr_new_literal,
         expr_new_variable, expr_new_binary, expr_new_logical
<1>. QED
  BY <1>1, <1>2, <1>3

-----------------------------------------------------------------------------
(* The actions that open or close a loop over declarations.                *)

(* A new parser, for a text in which the scanner may have met an error. *)
Starts ==
  /\ tokens \in Seq(Tokens)
  /\ Terminated(tokens)
  /\ HadError \in BOOLEAN
  /\ current = 1
  /\ ctl = At("parser_parse", <<>>)
  /\ stack = <<>>
  /\ hole = FALSE

LEMMA InitStarts == Init => Starts
BY InputsAssumption DEF Init, Starts

LEMMA StartsParserInv == Starts => ParserInv
<1>1. ASSUME Starts
      PROVE  /\ tokens \in Seq(Tokens) /\ Terminated(tokens) /\ HadError \in BOOLEAN /\ hole = FALSE
             /\ current \in 1 .. Len(tokens)
             /\ stack = <<>> /\ ctl.tag = "at" /\ ctl.point = "parser_parse"
  BY <1>1 DEF Starts, Terminated, At
<1>2. ASSUME stack = <<>>
      PROVE  (\E S : stack \in Seq(S)) /\ Chained(stack, current, HadError, tokens)
  <2>1. Len(stack) = 0 /\ stack \in Seq({})
    BY <1>2
  <2>. QED
    BY <2>1 DEF Chained
<1>. QED
  BY <1>1, <1>2 DEF ParserInv, CtlOK

LEMMA LoopsKeepInv ==
  ASSUME ParserInv,
         \/ parser_parse \/ ParsedDeclaration \/ parse_declaration \/ DeclarationEnds
         \/ parser_synchronize \/ parse_block \/ BlockDeclaration
  PROVE  ParserInv'
<1>. USE AdvanceFacts, InputFacts, QuietlyFlags
<1>1. CASE parser_parse
  <2>1. stack = <<>>
    BY <1>1 DEF parser_parse, Reached, ParserInv, CtlOK, CtlAbove
  <2>2. Flags
    BY <1>1 DEF parser_parse
  <2>3. CASE ~parser_is_at_end /\ Call(stack, current, "parser_parse", ctl.nodes, "declaration")
    <3> DEFINE f == Frame(stack, current, "parser_parse", ctl.nodes)
    <3>1. f.fn = "parser_parse" /\ f.from = current
      BY DEF Frame
    <3>2. stack' = <<f>> \o stack /\ current' = current /\ ctl'.tag = "at" /\ ctl'.point = "declaration"
      BY <2>3 DEF Call, At
    <3>. HIDE DEF f
    <3>3. FrameOK(f, current', HadError', tokens)
      BY <2>3, <3>1, <3>2 DEF FrameOK, Carries, Levels, Operand, ParserInv, parser_is_at_end, parser_peek
    <3>4. CtlAbove(ctl', f, current', HadError')
      BY <3>1, <3>2 DEF CtlAbove, ListOK, ParameterPoints, ArgumentPoints
    <3>. QED
      BY <2>1, <2>2, <3>1, <3>2, <3>3, <3>4, Pushed
  <2>4. CASE parser_is_at_end /\ ctl' = Done(ctl.nodes) /\ UNCHANGED <<current, stack>>
    <3>1. stack' = stack /\ current' = current /\ CtlOK(ctl', stack', current', HadError')
      BY <2>1, <2>4 DEF CtlOK, Done
    <3>. QED
      BY <2>2, <3>1, Stayed
  <2>. QED
    BY <1>1, <2>3, <2>4 DEF parser_parse
<1>2. CASE ParsedDeclaration
  <2>1. Flags /\ stack # <<>> /\ Top.fn = "parser_parse"
    BY <1>2 DEF ParsedDeclaration, Returned
  <2>2. stack' = Tail(stack) /\ current' = current /\ ctl'.tag = "at" /\ ctl'.point = "parser_parse"
    BY <1>2 DEF ParsedDeclaration, Goto, At
  <2>3. CtlOK(ctl', stack', current', HadError')
    BY <2>1, <2>2, TopFacts DEF CtlOK
  <2>. QED
    BY <2>1, <2>2, <2>3, Stayed
<1>3. CASE parse_declaration
  <2>1. Flags /\ stack # <<>>
    BY <1>3, AtFacts DEF parse_declaration, Reached
  <2>2. PICK p \in current .. Len(tokens), callee \in {"function", "var_declaration", "statement"} :
          Call(stack, p, "declaration", <<>>, callee)
    BY <1>3 DEF parse_declaration
  <2> DEFINE f == Frame(stack, p, "declaration", <<>>)
  <2>3. f.fn = "declaration" /\ f.from = p
    BY DEF Frame
  <2>4. stack' = <<f>> \o stack /\ current' = p /\ ctl'.tag = "at" /\ ctl'.point = callee
    BY <2>2 DEF Call, At
  <2>. HIDE DEF f
  <2>5. Top.from \in 1 .. current
    BY <2>1, TopFacts
  <2>6. FrameOK(f, current', HadError', tokens)
    BY <2>3, <2>4, <2>5 DEF FrameOK, Carries, Loops, Levels, Operand
  <2>7. Fits(f, Head(stack))
    BY <2>3, <2>5 DEF Fits, Strict, Top, Levels, Operand
  <2>8. CtlAbove(ctl', f, current', HadError')
    BY <2>2, <2>3, <2>4 DEF CtlAbove, Loops, ListOK, ParameterPoints, ArgumentPoints
  <2>. QED
    BY <2>1, <2>4, <2>6, <2>7, <2>8, Pushed
<1>4. CASE DeclarationEnds
  <2>1. /\ Flags /\ stack # <<>> /\ Top.fn = "declaration"
        /\ ctl.node = NULL => HadError' = TRUE
        /\ ctl.node # NULL => current > Top.from
    BY <1>4, ReturnFacts DEF DeclarationEnds, Returned, Flags
  <2> DEFINE g == Head(Tail(stack))
  <2>2. /\ Tail(stack) # <<>>
        /\ g.from \in 1 .. current
        /\ Top.from \in 1 .. current
        /\ Top.from >= g.from
        /\ g.fn \in Loops => tokens[g.from].type # "EOF"
    BY <2>1, TopFacts DEF Fits
  <2>. HIDE DEF g
  <2>3. CASE ctl.node # NULL /\ Yield(Tail(stack), current, ctl.node)
    <3>1. stack' = Tail(stack) /\ current' = current /\ ctl'.tag = "return" /\ ctl'.node = ctl.node
      BY <2>3 DEF Yield, Return
    <3>2. CtlOK(ctl', stack', current', HadError')
      BY <2>1, <2>2, <2>3, <3>1 DEF CtlOK, CtlAbove, g
    <3>. QED
      BY <2>1, <3>1, <3>2, Stayed
  <2>4. CASE ctl.node = NULL /\ Goto(Tail(stack), parser_advance, "synchronize", <<>>)
    <3>1. stack' = Tail(stack) /\ current' = parser_advance /\ ctl'.tag = "at" /\ ctl'.point = "synchronize"
      BY <2>4 DEF Goto, At
    <3>2. g.fn \in Loops => parser_advance > g.from
      BY <2>2 DEF parser_advance, parser_is_at_end, parser_peek
    <3>3. CtlOK(ctl', stack', current', HadError')
      BY <2>1, <2>2, <2>4, <3>1, <3>2 DEF CtlOK, CtlAbove, g, ListOK, ParameterPoints, ArgumentPoints
    <3>. QED
      BY <2>1, <3>1, <3>3, Stayed
  <2>. QED
    BY <1>4, <2>3, <2>4 DEF DeclarationEnds
<1>5. CASE parser_synchronize
  <2>1. /\ Flags /\ stack # <<>> /\ HadError' = TRUE
        /\ Top.fn \in Loops => current > Top.from
        /\ Top.from \in 1 .. current
    BY <1>5, AtFacts, TopFacts DEF parser_synchronize, Reached, Flags, ParserInv
  <2>2. CASE Yield(stack, current, NULL)
    <3>1. stack' = stack /\ current' = current /\ ctl'.tag = "return" /\ ctl'.node = NULL
      BY <2>2 DEF Yield, Return
    <3>2. CtlOK(ctl', stack', current', HadError')
      BY <2>1, <3>1 DEF CtlOK, CtlAbove, Top
    <3>. QED
      BY <2>1, <3>1, <3>2, Stayed
  <2>3. CASE Goto(stack, parser_advance, "synchronize", <<>>)
    <3>1. stack' = stack /\ current' = parser_advance /\ ctl'.tag = "at" /\ ctl'.point = "synchronize"
      BY <2>3 DEF Goto, At
    <3>2. CtlOK(ctl', stack', current', HadError')
      BY <2>1, <3>1 DEF CtlOK, CtlAbove, Top, ListOK, ParameterPoints, ArgumentPoints
    <3>. QED
      BY <2>1, <3>1, <3>2, Stayed
  <2>. QED
    BY <1>5, <2>2, <2>3 DEF parser_synchronize
<1>6. CASE parse_block
  <2>1. stack # <<>> /\ Top.fn \notin Loops
    BY <1>6, AtFacts DEF parse_block, Reached
  <2>2. CASE parser_check("RIGHT_BRACE") \/ parser_is_at_end
    <3>1. CASE Missing("RIGHT_BRACE", stack)
      BY <2>1, <3>1, MissingOver
    <3>2. CASE /\ parser_check("RIGHT_BRACE") /\ Quietly
               /\ Yield(stack, parser_advance, stmt_list(ctl.nodes))
      BY <2>1, <3>2, YieldOver, NodesAreNodes
    <3>. QED
      BY <1>6, <2>2, <3>1, <3>2 DEF parse_block, parser_consume
  <2>3. CASE ~(parser_check("RIGHT_BRACE") \/ parser_is_at_end)
    <3> DEFINE f == Frame(stack, current, "block", ctl.nodes)
    <3>1. f.fn = "block" /\ f.from = current
      BY DEF Frame
    <3>2. /\ stack' = <<f>> \o stack /\ current' = current /\ ctl'.tag = "at" /\ ctl'.point = "declaration"
          /\ Flags
      BY <1>6, <2>3 DEF parse_block, Call, At
    <3>. HIDE DEF f
    <3>3. FrameOK(f, current', HadError', tokens)
      BY <2>3, <3>1, <3>2 DEF FrameOK, Carries, Levels, Operand, ParserInv, parser_is_at_end, parser_peek
    <3>4. Fits(f, Head(stack))
      BY <2>1, <3>1, TopFacts DEF Fits, Strict, Top, Levels, Operand
    <3>5. CtlAbove(ctl', f, current', HadError')
      BY <3>1, <3>2 DEF CtlAbove, ListOK, ParameterPoints, ArgumentPoints
    <3>. QED
      BY <2>1, <3>2, <3>3, <3>4, <3>5, Pushed
  <2>. QED
    BY <2>2, <2>3
<1>7. CASE BlockDeclaration
  <2>1. stack # <<>> /\ Top.fn = "block" /\ Flags
    BY <1>7 DEF BlockDeclaration, Got, Returned
  <2>2. ListOK("block", Append(Top.nodes, ctl.node), HadError') /\ "block" \notin Special
    BY DEF ListOK, ParameterPoints, ArgumentPoints, Special
  <2>. QED
    BY <1>7, <2>1, <2>2, GotoInstead DEF BlockDeclaration
<1>. QED
  BY <1>1, <1>2, <1>3, <1>4, <1>5, <1>6, <1>7

-----------------------------------------------------------------------------
(* The statements.                                                         *)

LEMMA LevelsAre == Levels = {"or", "and", "equality", "comparison", "term", "factor"}
BY DEF Levels, Operand

(* A function that is called, or has come to a point of its own. *)
LEMMA ReachedFacts ==
  ASSUME ParserInv, NEW point, Reached(point), point \notin {"parser_parse", "declaration", "synchronize"}
  PROVE  stack # <<>> /\ Top.fn \notin Loops
BY AtFacts DEF Reached

(* The lists of parameters and of arguments. *)
LEMMA ListFacts ==
  ASSUME ParserInv, NEW point \in ListPoints, Reached(point)
  PROVE  ListOK(point, ctl.nodes, HadError)
<1>1. ctl.tag = "at" /\ ctl.point = point /\ point # "parser_parse"
  BY DEF Reached, ListPoints, ParameterPoints, ArgumentPoints
<1>. QED
  BY <1>1, AtFacts DEF ParserInv, CtlOK, CtlAbove

LEMMA ListStarts ==
  ASSUME NEW x, NEW limit \in Nat, NEW err
  PROVE  WithinLimit(<<x>>, limit, err)
<1> DEFINE list == <<x>>
<1>1. list \in Seq({x}) /\ Len(list) = 1
  OBVIOUS
<1>. HIDE DEF list
<1>2. \E S : list \in Seq(S)
  BY <1>1
<1>3. ~(Len(list) - 1 > limit)
  BY <1>1
<1>4. WithinLimit(list, limit, err)
  BY <1>2, <1>3 DEF WithinLimit
<1>. QED
  BY <1>4 DEF list

LEMMA ListGrows ==
  ASSUME NEW nodes, NEW x, NEW limit \in Nat, NEW err,
         \E S : nodes \in Seq(S), Len(nodes) - 1 >= limit => err
  PROVE  WithinLimit(Append(nodes, x), limit, err)
<1>1. PICK S : nodes \in Seq(S)
  OBVIOUS
<1>2. /\ Append(nodes, x) \in Seq(S \cup {x})
      /\ Len(Append(nodes, x)) = Len(nodes) + 1 /\ Len(nodes) \in Nat
  BY <1>1
<1>. QED
  BY <1>2 DEF WithinLimit

LEMMA GotFacts ==
  ASSUME ParserInv, NEW waiting, Got(waiting)
  PROVE  stack # <<>> /\ Top.fn = waiting /\ ctl.node # NULL /\ current > Top.from
BY ReturnFacts DEF Got, Returned

(* A statement that ends in a semicolon. *)
LEMMA ConsumeInstead ==
  ASSUME ParserInv, NEW waiting, Got(waiting), waiting \notin {"declaration", "parser_parse"},
         NEW type, NEW node, node # NULL,
         parser_consume(type, Tail(stack), Yield(Tail(stack), parser_advance, node))
  PROVE  ParserInv'
<1>1. /\ stack # <<>> /\ Top.fn \notin {"declaration", "parser_parse"}
      /\ current > Top.from /\ Top.from \in Nat
  BY GotFacts, TopFacts, InputFacts
<1>2. CASE Missing(type, Tail(stack))
  BY <1>1, <1>2, MissingInstead
<1>3. CASE ~Missing(type, Tail(stack))
  <2>1. Flags /\ Yield(Tail(stack), parser_advance, node)
    BY <1>3, QuietlyFlags DEF parser_consume
  <2>2. parser_advance \in current .. Len(tokens) /\ parser_advance > Top.from
    BY <1>1, AdvanceFacts, InputFacts
  <2>. QED
    BY <1>1, <2>1, <2>2, YieldInstead
<1>. QED
  BY <1>2, <1>3

LEMMA SimpleStatementsKeepInv ==
  ASSUME ParserInv,
         \/ parse_statement \/ BlockStatement \/ PassOnNull
         \/ parse_print_statement \/ PrintEnds
         \/ parse_expression_statement \/ ExpressionStatementEnds
         \/ parse_return_statement \/ ReturnEnds
         \/ parse_var_declaration \/ VarNamed \/ VarEnds
  PROVE  ParserInv'
<1>. USE AdvanceFacts, QuietlyFlags, NodesAreNodes, LevelsAre
<1>. USE DEF Special, Loops, ListPoints, ParameterPoints, ArgumentPoints, ListOK
<1>1. CASE parse_statement
  <2>1. stack # <<>> /\ Top.fn \notin Loops
    BY <1>1, ReachedFacts DEF parse_statement
  <2>2. CASE parser_match(Keywords) /\ Goto(stack, parser_advance, parser_peek.type, <<>>)
    <3>1. parser_peek.type \in Keywords
      BY <2>2 DEF parser_match, parser_check
    <3>. QED
      BY <1>1, <2>1, <2>2, <3>1, GotoOver DEF parse_statement, Keywords
  <2>3. CASE Call(stack, parser_advance, "block_statement", <<>>, "block")
    BY <1>1, <2>1, <2>3, CallOver DEF parse_statement
  <2>4. CASE Goto(stack, current, "expression_statement", <<>>)
    BY <1>1, <2>1, <2>4, GotoOver DEF parse_statement
  <2>. QED
    BY <1>1, <2>2, <2>3, <2>4 DEF parse_statement
<1>2. CASE BlockStatement
  BY <1>2, GotFacts, YieldInstead DEF BlockStatement, YieldStatement
<1>3. CASE PassOnNull
  BY <1>3, ReturnFacts, YieldInstead DEF PassOnNull, TestsForNull
<1>4. CASE parse_print_statement
  BY <1>4, ReachedFacts, CallOver DEF parse_print_statement
<1>5. CASE PrintEnds
  BY <1>5, ConsumeInstead DEF PrintEnds, YieldStatement
<1>6. CASE parse_expression_statement
  BY <1>6, ReachedFacts, CallOver DEF parse_expression_statement
<1>7. CASE ExpressionStatementEnds
  BY <1>7, ConsumeInstead DEF ExpressionStatementEnds, YieldStatement
<1>8. CASE parse_return_statement
  BY <1>8, ReachedFacts, YieldOver, CallOver DEF parse_return_statement, YieldStatement
<1>9. CASE ReturnEnds
  BY <1>9, ConsumeInstead DEF ReturnEnds, YieldStatement
<1>10. CASE parse_var_declaration
  BY <1>10, ReachedFacts, MissingOver, GotoOver DEF parse_var_declaration, parser_consume
<1>11. CASE VarNamed
  BY <1>11, ReachedFacts, MissingOver, YieldOver, CallOver DEF VarNamed, parser_consume, YieldStatement
<1>12. CASE VarEnds
  BY <1>12, ConsumeInstead DEF VarEnds, YieldStatement
<1>. QED
  BY <1>1, <1>2, <1>3, <1>4, <1>5, <1>6, <1>7, <1>8, <1>9, <1>10, <1>11, <1>12

LEMMA CompoundStatementsKeepInv ==
  ASSUME ParserInv,
         \/ parse_if_statement \/ IfCondition \/ IfThen \/ IfElse
         \/ parse_while_statement \/ WhileCondition \/ WhileBody
         \/ parse_for_statement \/ ForClauses \/ ForInitializer \/ ForInitialized
         \/ ForCondition \/ ForConditioned \/ ForIncrement \/ ForBody
  PROVE  ParserInv'
<1>. USE AdvanceFacts, QuietlyFlags, NodesAreNodes, LevelsAre
<1>. USE DEF Special, Loops, ListPoints, ParameterPoints, ArgumentPoints, ListOK
<1>1. CASE parse_if_statement
  BY <1>1, ReachedFacts, MissingOver, CallOver DEF parse_if_statement, parser_consume
<1>2. CASE IfCondition
  BY <1>2, GotFacts, MissingInstead, CallInstead DEF IfCondition, parser_consume
<1>3. CASE IfThen
  BY <1>3, GotFacts, YieldInstead, CallInstead DEF IfThen, YieldStatement
<1>4. CASE IfElse
  BY <1>4, GotFacts, YieldInstead DEF IfElse, YieldStatement
<1>5. CASE parse_while_statement
  BY <1>5, ReachedFacts, MissingOver, CallOver DEF parse_while_statement, parser_consume
<1>6. CASE WhileCondition
  BY <1>6, GotFacts, MissingInstead, CallInstead DEF WhileCondition, parser_consume
<1>7. CASE WhileBody
  BY <1>7, GotFacts, YieldInstead DEF WhileBody, YieldStatement
<1>8. CASE parse_for_statement
  BY <1>8, ReachedFacts, MissingOver, GotoOver DEF parse_for_statement, parser_consume
<1>9. CASE ForClauses
  BY <1>9, ReachedFacts, GotoOver, CallOver DEF ForClauses
<1>10. CASE ForInitializer
  BY <1>10, GotFacts, GotoInstead DEF ForInitializer
<1>11. CASE ForInitialized
  BY <1>11, ReachedFacts, GotoOver, CallOver DEF ForInitialized
<1>12. CASE ForCondition
  BY <1>12, GotFacts, MissingInstead, GotoInstead DEF ForCondition, parser_consume
<1>13. CASE ForConditioned
  BY <1>13, ReachedFacts, CallOver DEF ForConditioned
<1>14. CASE ForIncrement
  BY <1>14, GotFacts, MissingInstead, CallInstead DEF ForIncrement, parser_consume
<1>15. CASE ForBody
  <2>1. Desugared(Inside(Tail(stack)), Top.nodes[1], Top.nodes[2], Top.nodes[3], ctl.node) # NULL
    BY DEF Desugared
  <2>. QED
    BY <1>15, <2>1, GotFacts, YieldInstead DEF ForBody
<1>. QED
  BY <1>1, <1>2, <1>3, <1>4, <1>5, <1>6, <1>7, <1>8, <1>9, <1>10, <1>11, <1>12, <1>13, <1>14, <1>15

LEMMA FunctionsKeepInv ==
  ASSUME ParserInv,
         \/ parse_function \/ FunctionNamed \/ FunctionParameters \/ FunctionParameter
         \/ FunctionParameterEnd \/ FunctionClose \/ FunctionClosed \/ FunctionBody
  PROVE  ParserInv'
<1>. USE AdvanceFacts, QuietlyFlags, NodesAreNodes, LevelsAre
<1>. USE DEF Special, Loops, ListPoints, ParameterPoints, ArgumentPoints, ListOK
<1>1. CASE parse_function
  BY <1>1, ReachedFacts, ListStarts, LimitsAssumption, MissingOver, GotoOver DEF parse_function, parser_consume
<1>2. CASE FunctionNamed
  BY <1>2, ReachedFacts, ListFacts, MissingOver, GotoOver DEF FunctionNamed, parser_consume
<1>3. CASE FunctionParameters
  BY <1>3, ReachedFacts, ListFacts, GotoOver DEF FunctionParameters
<1>4. CASE FunctionParameter
  <2>1. CASE Missing("IDENTIFIER", stack)
    BY <1>4, <2>1, ReachedFacts, MissingOver DEF FunctionParameter
  <2>2. CASE ~Missing("IDENTIFIER", stack)
    <3>1. /\ HadError' = (HadError \/ Len(ctl.nodes) - 1 >= PARAMS_MAX)
          /\ UNCHANGED <<tokens, hole>>
          /\ Goto(stack, parser_advance, "parameter_end", Append(ctl.nodes, parser_peek.lexeme))
      BY <1>4, <2>2 DEF FunctionParameter
    <3>2. Flags
      BY <3>1 DEF Flags, ParserInv
    <3>3. WithinLimit(ctl.nodes, PARAMS_MAX, HadError)
      BY <1>4, ListFacts DEF FunctionParameter
    <3>4. WithinLimit(Append(ctl.nodes, parser_peek.lexeme), PARAMS_MAX, HadError')
      BY <3>1, <3>3, ListGrows, LimitsAssumption DEF WithinLimit
    <3>. QED
      BY <1>4, <3>1, <3>2, <3>4, ReachedFacts, GotoOver DEF FunctionParameter
  <2>. QED
    BY <2>1, <2>2
<1>5. CASE FunctionParameterEnd
  BY <1>5, ReachedFacts, ListFacts, GotoOver DEF FunctionParameterEnd
<1>6. CASE FunctionClose
  BY <1>6, ReachedFacts, ListFacts, MissingOver, GotoOver DEF FunctionClose, parser_consume
<1>7. CASE FunctionClosed
  BY <1>7, ReachedFacts, MissingOver, CallOver DEF FunctionClosed, parser_consume
<1>8. CASE FunctionBody
  <2>1. stack # <<>> /\ Top.fn = "function_body" /\ Strict(Top) /\ (ctl.node = NULL => HadError)
    BY <1>8, ReturnFacts DEF FunctionBody, Returned, Strict
  <2>2. Flags
    BY <1>8, <2>1, BuildingFlags DEF FunctionBody
  <2>. QED
    BY <1>8, <2>1, <2>2, YieldInstead DEF FunctionBody, YieldStatement
<1>. QED
  BY <1>1, <1>2, <1>3, <1>4, <1>5, <1>6, <1>7, <1>8

-----------------------------------------------------------------------------
(* The expressions.                                                        *)

LEMMA OperatorsKeepInv ==
  ASSUME ParserInv,
         \/ parse_assignment \/ AssignmentTarget \/ AssignmentValue
         \/ BinaryLevel \/ BinaryOperand \/ parse_unary \/ UnaryOperand
  PROVE  ParserInv'
<1>. USE AdvanceFacts, QuietlyFlags, NodesAreNodes, LevelsAre
<1>. USE DEF Special, Loops, ListPoints, ParameterPoints, ArgumentPoints, ListOK
<1>1. CASE parse_assignment
  BY <1>1, ReachedFacts, CallOver DEF parse_assignment
<1>2. CASE AssignmentTarget
  <2>1. /\ stack # <<>> /\ Top.fn = "assignment" /\ Flags /\ HadError' = HadError
        /\ (ctl.node = NULL => HadError) /\ (ctl.node # NULL => current > Top.from)
    BY <1>2, ReturnFacts DEF AssignmentTarget, Returned
  <2>2. CASE parser_match({"EQUAL"}) /\
             Call(Tail(stack), parser_advance, "assignment_value", <<ctl.node>>, "assignment")
    BY <2>1, <2>2, CallInstead
  <2>3. CASE Yield(Tail(stack), current, ctl.node)
    BY <2>1, <2>3, YieldInstead
  <2>. QED
    BY <1>2, <2>2, <2>3 DEF AssignmentTarget
<1>3. CASE AssignmentValue
  <2> DEFINE expr == Top.nodes[1]
  <2>1. /\ stack # <<>> /\ Top.fn = "assignment_value" /\ Strict(Top)
        /\ (ctl.node = NULL => HadError)
    BY <1>3, ReturnFacts DEF AssignmentValue, Returned, Strict
  <2>2. CASE expr = NULL /\ ctl' = Crash /\ UNCHANGED <<current, stack>> /\ Quietly
    <3>1. HadError
      BY <2>1, <2>2, TopFacts DEF Carries
    <3>2. stack' = stack /\ current' = current /\ Flags /\ HadError'
      BY <2>2, <3>1
    <3>3. CtlOK(ctl', stack', current', HadError')
      BY <2>1, <2>2, <3>2 DEF CtlOK, CtlAbove, Crash
    <3>. QED
      BY <3>2, <3>3, Stayed
  <2>3. CASE /\ Yield(Tail(stack), current, expr_new_assign(expr.name, ctl.node))
             /\ Building({ctl.node})
    BY <2>1, <2>3, BuildingFlags, YieldInstead
  <2>4. CASE expr # NULL /\ Yield(Tail(stack), current, expr) /\ error
    BY <2>1, <2>4, ErrorFlags, YieldInstead
  <2>. QED
    BY <1>3, <2>2, <2>3, <2>4 DEF AssignmentValue
<1>4. CASE BinaryLevel
  <2>1. stack # <<>> /\ Top.fn \notin Loops
    BY <1>4, AtFacts DEF BinaryLevel
  <2>2. Operand[ctl.point] \notin Special \cup ListPoints /\ ctl.point # "argument"
    BY <1>4 DEF BinaryLevel, Operand
  <2>. QED
    BY <1>4, <2>1, <2>2, CallOver DEF BinaryLevel
<1>5. CASE BinaryOperand
  <2> DEFINE level == Top.fn
             left == Top.nodes
             expr == Joined(level, left, ctl.node)
  <2>1. /\ stack # <<>> /\ level \in Levels
        /\ (ctl.node = NULL => HadError) /\ (ctl.node # NULL => current > Top.from)
    BY <1>5, ReturnFacts DEF BinaryOperand
  <2>2. left # <<>> => Strict(Top) /\ (left[1] = NULL => HadError) /\ expr # NULL
    BY <2>1, TopFacts DEF Strict, Carries, Joined
  <2>3. left = <<>> => expr = ctl.node
    BY DEF Joined
  <2>4. Flags /\ HadError' = HadError
    <3> DEFINE children == IF left = <<>> THEN {} ELSE {left[1], ctl.node}
    <3>1. NULL \in children => HadError
      BY <2>1, <2>2
    <3>2. Building(children)
      BY <1>5 DEF BinaryOperand
    <3>. HIDE DEF children
    <3>. QED
      BY <3>1, <3>2, BuildingFlags
  <2>5. (expr = NULL => HadError') /\ (expr # NULL => current > Top.from \/ Strict(Top))
    BY <2>1, <2>2, <2>3, <2>4
  <2>6. Operand[level] \notin Special \cup ListPoints /\ level # "argument"
    BY <2>1 DEF Operand
  <2>7. CASE /\ parser_match(Operators[level])
             /\ Call(Tail(stack), parser_advance, level, <<expr, parser_peek.lexeme>>, Operand[level])
    <3> DEFINE nodes == <<expr, parser_peek.lexeme>>
    <3>1. nodes[1] = expr
      OBVIOUS
    <3>. HIDE DEF nodes, expr
    <3>. QED
      BY <2>1, <2>4, <2>5, <2>6, <2>7, <3>1, CallInstead DEF nodes
  <2>8. CASE Yield(Tail(stack), current, expr)
    <3>. HIDE DEF expr
    <3>. QED
      BY <2>1, <2>4, <2>5, <2>8, YieldInstead
  <2>. QED
    BY <1>5, <2>7, <2>8 DEF BinaryOperand
<1>6. CASE parse_unary
  BY <1>6, ReachedFacts, CallOver DEF parse_unary
<1>7. CASE UnaryOperand
  BY <1>7, GotFacts, YieldInstead DEF UnaryOperand
<1>. QED
  BY <1>1, <1>2, <1>3, <1>4, <1>5, <1>6, <1>7

LEMMA CallsKeepInv ==
  ASSUME ParserInv,
         \/ parse_call \/ finish_call \/ CallArgument \/ CallArgumentEnd \/ CallClose
         \/ parse_primary \/ Grouping
  PROVE  ParserInv'
<1>. USE AdvanceFacts, QuietlyFlags, NodesAreNodes, LevelsAre
<1>. USE DEF Special, Loops, ListPoints, ParameterPoints, ArgumentPoints, ListOK
<1>1. CASE parse_call
  BY <1>1, GotFacts, ListStarts, LimitsAssumption, GotoInstead, YieldInstead DEF parse_call
<1>2. CASE finish_call
  BY <1>2, ReachedFacts, ListFacts, GotoOver DEF finish_call
<1>3. CASE CallArgument
  <2>1. Flags
    BY <1>3 DEF CallArgument, Flags, ParserInv
  <2>2. WithinLimit(ctl.nodes, MAX_ARGUMENTS, HadError)
    BY <1>3, ListFacts DEF CallArgument
  <2>3. FullReported(ctl.nodes, HadError')
    BY <1>3, <2>2 DEF CallArgument, WithinLimit, FullReported
  <2>. QED
    BY <1>3, <2>1, <2>3, ReachedFacts, CallOver DEF CallArgument
<1>4. CASE CallArgumentEnd
  <2>1. /\ stack # <<>> /\ Top.fn = "argument" /\ Flags /\ HadError' = HadError
        /\ FullReported(Top.nodes, HadError)
    BY <1>4, GotFacts, TopFacts DEF CallArgumentEnd
  <2>2. WithinLimit(Append(Top.nodes, ctl.node), MAX_ARGUMENTS, HadError')
    BY <2>1, ListGrows, LimitsAssumption DEF FullReported
  <2>. QED
    BY <1>4, <2>1, <2>2, GotoInstead DEF CallArgumentEnd
<1>5. CASE CallClose
  <2>1. stack # <<>> /\ Top.fn \notin Loops /\ Top.from \in 1 .. current
    BY <1>5, ReachedFacts, TopFacts DEF CallClose
  <2>2. CASE Missing("RIGHT_PAREN", stack)
    BY <2>1, <2>2, MissingOver
  <2>3. CASE ~Missing("RIGHT_PAREN", stack)
    <3> DEFINE f == Frame(stack, current, "call", <<>>)
               node == expr_new_call(Head(ctl.nodes), Tail(ctl.nodes))
    <3>1. f.fn = "call" /\ f.from = current /\ node # NULL
      BY DEF Frame
    <3>. HIDE DEF node
    <3>2. /\ stack' = <<f>> \o stack /\ current' = parser_advance /\ parser_advance > current
          /\ ctl'.tag = "return" /\ ctl'.node = node /\ Flags
      BY <1>5, <2>3 DEF CallClose, parser_consume, Yield, Return, node
    <3>. HIDE DEF f
    <3>3. FrameOK(f, current', HadError', tokens)
      BY <3>1, <3>2, InputFacts, <2>1 DEF FrameOK, Carries
    <3>4. Fits(f, Head(stack))
      BY <2>1, <3>1 DEF Fits, Strict, Top
    <3>5. CtlAbove(ctl', f, current', HadError')
      BY <3>1, <3>2 DEF CtlAbove, ListOK, ParameterPoints, ArgumentPoints
    <3>. QED
      BY <2>1, <3>2, <3>3, <3>4, <3>5, Pushed
  <2>. QED
    BY <2>2, <2>3
<1>6. CASE parse_primary
  <2>1. stack # <<>> /\ Top.fn \notin Loops
    BY <1>6, ReachedFacts DEF parse_primary
  <2>2. CASE /\ parser_match(Literals) /\ Quietly
             /\ Yield(stack, parser_advance, expr_new_literal(LiteralOf(parser_peek)))
    BY <2>1, <2>2, YieldOver
  <2>3. CASE /\ parser_match({"IDENTIFIER"}) /\ Quietly
             /\ Yield(stack, parser_advance, expr_new_variable(parser_peek.lexeme))
    BY <2>1, <2>3, YieldOver
  <2>4. CASE /\ parser_match({"LEFT_PAREN"}) /\ Quietly
             /\ Call(stack, parser_advance, "grouping", <<>>, "assignment")
    BY <2>1, <2>4, CallOver
  <2>5. CASE Yield(stack, current, NULL) /\ error
    BY <2>1, <2>5, ErrorFlags, YieldOver
  <2>. QED
    BY <1>6, <2>2, <2>3, <2>4, <2>5 DEF parse_primary
<1>7. CASE Grouping
  <2>1. stack # <<>> /\ Top.fn = "grouping" /\ Strict(Top) /\ (ctl.node = NULL => HadError)
    BY <1>7, ReturnFacts DEF Grouping, Returned, Strict
  <2>2. Flags
    BY <1>7, <2>1 DEF Grouping, Flags, ParserInv
  <2>. QED
    BY <1>7, <2>1, <2>2, YieldInstead DEF Grouping
<1>. QED
  BY <1>1, <1>2, <1>3, <1>4, <1>5, <1>6, <1>7

-----------------------------------------------------------------------------
(* The trees.  Lower is defined by recursion on the height; the trees of  *)
(* all heights are closed under the constructors and the fields of nodes.  *)

LEMMA Least ==
  ASSUME NEW T, T \subseteq Nat, T # {}
  PROVE  \E n \in T : \A m \in T : n <= m
<1>1. IsWellFoundedOn(OpToRel(<, Nat), Nat)
  BY NatLessThanWellFounded
<1>2. PICK n \in T : \A m \in T : ~(<<m, n>> \in OpToRel(<, Nat))
  BY <1>1, WFMin
<1>3. \A m \in T : ~(m < n)
  BY <1>2 DEF OpToRel
<1>. QED
  BY <1>3

(* Lower is defined by recursion: there is such a function, ... *)
UpTo(m, f) == f = [h \in 0 .. m |-> IF h = 0 THEN NoTrees ELSE Over(f[h - 1])]

LEMMA UpToExists == \A m \in Nat : \E f : UpTo(m, f)
<1> DEFINE T == {m \in Nat : ~(\E f : UpTo(m, f))}
<1>1. ASSUME T # {} PROVE FALSE
  <2>1. PICK m \in T : \A k \in T : m <= k
    <3>1. T \subseteq Nat
      OBVIOUS
    <3>. HIDE DEF T
    <3>. QED
      BY <1>1, <3>1, Least
  <2>2. CASE m = 0
    <3> DEFINE f == [h \in 0 .. 0 |-> NoTrees]
    <3>1. f = [h \in 0 .. 0 |-> IF h = 0 THEN NoTrees ELSE Over(f[h - 1])]
      OBVIOUS
    <3>. HIDE DEF f
    <3>. QED
      BY <2>1, <2>2, <3>1 DEF UpTo
  <2>3. CASE m # 0
    <3>1. m - 1 \in Nat /\ m \in Nat /\ m - 1 \notin T
      BY <2>1, <2>3
    <3>2. PICK g : UpTo(m - 1, g)
      BY <3>1
    <3> DEFINE f == [h \in 0 .. m |-> IF h = m THEN Over(g[m - 1]) ELSE g[h]]
    <3>3. \A h \in 0 .. m - 1 : f[h] = g[h]
      BY <3>1
    <3>4. \A h \in 0 .. m : f[h] = IF h = 0 THEN NoTrees ELSE Over(f[h - 1])
      <4>1. f[m] = Over(f[m - 1])
        BY <2>3, <3>1, <3>3
      <4>2. \A h \in 0 .. m - 1 : g[h] = IF h = 0 THEN NoTrees ELSE Over(g[h - 1])
        BY <3>2 DEF UpTo
      <4>. HIDE DEF f
      <4>3. ASSUME NEW h \in 0 .. m - 1 PROVE f[h] = IF h = 0 THEN NoTrees ELSE Over(f[h - 1])
        <5>1. h # 0 => h - 1 \in 0 .. m - 1
          BY <3>1
        <5>. QED
          BY <3>3, <4>2, <5>1
      <4>. QED
        BY <2>3, <3>1, <4>1, <4>3
    <3>5. f = [h \in 0 .. m |-> f[h]]
      OBVIOUS
    <3>. HIDE DEF f
    <3>6. f = [h \in 0 .. m |-> IF h = 0 THEN NoTrees ELSE Over(f[h - 1])]
      BY <3>4, <3>5
    <3>. QED
      BY <2>1, <3>6 DEF UpTo
  <2>. QED
    BY <2>2, <2>3
<1>. QED
  BY <1>1

LEMMA UpToAgrees ==
  ASSUME NEW k \in Nat, NEW m \in Nat, NEW f, NEW g, UpTo(k, f), UpTo(m, g), k <= m
  PROVE  \A h \in 0 .. k : f[h] = g[h]
<1> DEFINE T == {h \in 0 .. k : f[h] # g[h]}
<1>1. ASSUME T # {} PROVE FALSE
  <2>1. PICK h \in T : \A i \in T : h <= i
    <3>1. T \subseteq Nat
      OBVIOUS
    <3>. HIDE DEF T
    <3>. QED
      BY <1>1, <3>1, Least
  <2>2. h \in 0 .. k /\ h \in 0 .. m
    BY <2>1
  <2>3. /\ f[h] = IF h = 0 THEN NoTrees ELSE Over(f[h - 1])
        /\ g[h] = IF h = 0 THEN NoTrees ELSE Over(g[h - 1])
    BY <2>2 DEF UpTo
  <2>4. h # 0 => h - 1 \in 0 .. k /\ h - 1 \notin T
    BY <2>1, <2>2
  <2>. QED
    BY <2>1, <2>3, <2>4
<1>. QED
  BY <1>1

LEMMA LowerUnfolds ==
  /\ Lower[0] = NoTrees
  /\ \A h \in Nat : Lower[h + 1] = Over(Lower[h])
<1> DEFINE F(m) == CHOOSE f : UpTo(m, f)
           L == [h \in Nat |-> F(h)[h]]
           IsLower(f) == f = [h \in Nat |-> IF h = 0 THEN NoTrees ELSE Over(f[h - 1])]
<1>1. \A m \in Nat : UpTo(m, F(m))
  BY UpToExists
<1>. HIDE DEF F
<1>2. \A h \in Nat : L[h] = IF h = 0 THEN NoTrees ELSE Over(L[h - 1])
  <2> SUFFICES ASSUME NEW h \in Nat PROVE L[h] = IF h = 0 THEN NoTrees ELSE Over(L[h - 1])
    OBVIOUS
  <2>1. F(h)[h] = IF h = 0 THEN NoTrees ELSE Over(F(h)[h - 1])
    BY <1>1 DEF UpTo
  <2>2. CASE h # 0
    <3>1. h - 1 \in Nat /\ h - 1 <= h /\ h - 1 \in 0 .. h - 1
      BY <2>2
    <3>2. F(h)[h - 1] = F(h - 1)[h - 1]
      BY <1>1, <3>1, UpToAgrees
    <3>. QED
      BY <2>1, <2>2, <3>1, <3>2
  <2>. QED
    BY <2>1, <2>2
<1>3. L = [h \in Nat |-> L[h]]
  OBVIOUS
<1>. HIDE DEF L
<1>4. IsLower(L)
  BY <1>2, <1>3
<1>5. Lower = CHOOSE f : IsLower(f)
  BY DEF Lower
<1>6. IsLower(Lower)
  BY <1>4, <1>5
<1>. HIDE DEF IsLower
<1>7. Lower = [h \in Nat |-> IF h = 0 THEN NoTrees ELSE Over(Lower[h - 1])]
  BY <1>6 DEF IsLower
<1>8. \A h \in Nat : Lower[h] = IF h = 0 THEN NoTrees ELSE Over(Lower[h - 1])
  BY <1>7
<1>. QED
  BY <1>8

Expressions == UNION {Lower[h].expressions : h \in Nat}
Statements == UNION {Lower[h].statements : h \in Nat}

(* More children, more nodes. *)
LEMMA SeqGrows ==
  ASSUME NEW A, NEW B, A \subseteq B
  PROVE  Seq(A) \subseteq Seq(B)
OBVIOUS

LEMMA OverGrows ==
  ASSUME NEW A, NEW B, NEW C, NEW D, A \subseteq B, C \subseteq D
  PROVE  /\ ExpressionsOver(A) \subseteq ExpressionsOver(B)
         /\ StatementsOver(A, C) \subseteq StatementsOver(B, D)
<1>1. Seq(A) \subseteq Seq(B) /\ Seq(C) \subseteq Seq(D)
  BY SeqGrows
<1>2. ExpressionsOver(A) \subseteq ExpressionsOver(B)
  BY <1>1 DEF ExpressionsOver
<1>3. ShapesOver(A, C) \subseteq ShapesOver(B, D)
  BY <1>1 DEF ShapesOver
<1>. QED
  BY <1>2, <1>3 DEF StatementsOver

Within(S, T) == S.expressions \subseteq T.expressions /\ S.statements \subseteq T.statements

LEMMA OverWithin ==
  ASSUME NEW S, NEW T, Within(S, T)
  PROVE  Within(Over(S), Over(T))
BY OverGrows DEF Within, Over

LEMMA LowerGrows == \A h \in Nat : Within(Lower[h], Lower[h + 1])
<1> DEFINE T == {h \in Nat : ~Within(Lower[h], Lower[h + 1])}
<1>1. ASSUME T # {} PROVE FALSE
  <2>1. PICK h \in T : \A i \in T : h <= i
    <3>1. T \subseteq Nat
      OBVIOUS
    <3>. HIDE DEF T
    <3>. QED
      BY <1>1, <3>1, Least
  <2>2. CASE h = 0
    BY <2>1, <2>2, LowerUnfolds DEF Within, NoTrees
  <2>3. CASE h # 0
    <3>1. h - 1 \in Nat /\ h - 1 \notin T /\ (h - 1) + 1 = h
      BY <2>1, <2>3
    <3>2. Within(Lower[h - 1], Lower[h])
      BY <3>1
    <3>3. Lower[h] = Over(Lower[h - 1]) /\ Lower[h + 1] = Over(Lower[h])
      BY <3>1, LowerUnfolds
    <3>. QED
      BY <2>1, <3>2, <3>3, OverWithin
  <2>. QED
    BY <2>2, <2>3
<1>. QED
  BY <1>1

LEMMA LowerGrowsOn ==
  ASSUME NEW h \in Nat, NEW k \in Nat, h <= k
  PROVE  Within(Lower[h], Lower[k])
<1> DEFINE T == {i \in Nat : h <= i /\ ~Within(Lower[h], Lower[i])}
<1>1. ASSUME T # {} PROVE FALSE
  <2>1. PICK i \in T : \A j \in T : i <= j
    <3>1. T \subseteq Nat
      OBVIOUS
    <3>. HIDE DEF T
    <3>. QED
      BY <1>1, <3>1, Least
  <2>2. i # h
    BY <2>1 DEF Within
  <2>3. i - 1 \in Nat /\ h <= i - 1 /\ i - 1 \notin T /\ (i - 1) + 1 = i
    BY <2>1, <2>2
  <2>4. Within(Lower[h], Lower[i - 1]) /\ Within(Lower[i - 1], Lower[i])
    BY <2>3, LowerGrows
  <2>. QED
    BY <2>1, <2>4 DEF Within
<1>. QED
  BY <1>1

LEMMA Together ==
  ASSUME NEW h \in Nat, NEW k \in Nat
  PROVE  \E m \in Nat : Within(Lower[h], Lower[m]) /\ Within(Lower[k], Lower[m])
<1>1. CASE h <= k
  BY <1>1, LowerGrowsOn
<1>2. CASE ~(h <= k)
  <2>1. k <= h
    BY <1>2
  <2>. QED
    BY <2>1, LowerGrowsOn
<1>. QED
  BY <1>1, <1>2

(* The elements of a list have a height in common. *)
LEMMA ListTogether ==
  ASSUME NEW H, \A h \in Nat, k \in Nat : h <= k => H[h] \subseteq H[k],
         NEW S, NEW l \in Seq(S), \A x \in S : \E h \in Nat : x \in H[h]
  PROVE  \E h \in Nat : l \in Seq(H[h])
<1> DEFINE Common(m) == \E h \in Nat : \A n \in 1 .. m : l[n] \in H[h]
           T == {m \in Nat : m <= Len(l) /\ ~Common(m)}
<1>1. Len(l) \in Nat /\ \A n \in 1 .. Len(l) : l[n] \in S
  OBVIOUS
<1>2. ASSUME T # {} PROVE FALSE
  <2>1. PICK m \in T : \A j \in T : m <= j
    <3>1. T \subseteq Nat
      OBVIOUS
    <3>. HIDE DEF T
    <3>. QED
      BY <1>2, <3>1, Least
  <2>2. m \in Nat /\ m <= Len(l) /\ ~Common(m)
    BY <2>1
  <2>3. m # 0
    BY <2>2
  <2>4. m - 1 \in Nat /\ m - 1 <= Len(l) /\ m - 1 \notin T /\ m \in 1 .. Len(l)
    <3>1. m - 1 \in Nat /\ m - 1 <= Len(l) /\ ~(m <= m - 1) /\ m \in 1 .. Len(l)
      BY <1>1, <2>2, <2>3
    <3>. QED
      BY <2>1, <3>1
  <2>5. Common(m - 1)
    BY <2>4
  <2>6. PICK h \in Nat : \A n \in 1 .. m - 1 : l[n] \in H[h]
    BY <2>5
  <2>7. PICK k \in Nat : l[m] \in H[k]
    BY <1>1, <2>4
  <2>. HIDE DEF T, Common
  <2>8. PICK i \in Nat : H[h] \subseteq H[i] /\ H[k] \subseteq H[i]
    <3>1. CASE h <= k
      BY <3>1
    <3>2. CASE ~(h <= k)
      <4>1. k <= h /\ h <= h
        BY <3>2
      <4>. QED
        BY <4>1
    <3>. QED
      BY <3>1, <3>2
  <2>9. \A n \in 1 .. m : l[n] \in H[i]
    BY <2>2, <2>6, <2>7, <2>8
  <2>. QED
    BY <2>2, <2>9 DEF Common
<1>3. Len(l) \notin T
  BY <1>2
<1>4. Common(Len(l))
  BY <1>1, <1>3
<1>5. PICK h \in Nat : \A n \in 1 .. Len(l) : l[n] \in H[h]
  BY <1>4
<1>6. l \in Seq(H[h])
  BY <1>5
<1>. QED
  BY <1>6

LEMMA ArgumentsTogether ==
  ASSUME NEW l \in Seq(Expressions)
  PROVE  \E h \in Nat : l \in Seq(Lower[h].expressions)
<1> DEFINE H == [h \in Nat |-> Lower[h].expressions]
<1>1. \A h \in Nat, k \in Nat : h <= k => H[h] \subseteq H[k]
  BY LowerGrowsOn DEF Within
<1>2. \A x \in Expressions : \E h \in Nat : x \in H[h]
  BY DEF Expressions
<1>3. \A h \in Nat : H[h] = Lower[h].expressions
  OBVIOUS
<1>. HIDE DEF H
<1>4. \E h \in Nat : l \in Seq(H[h])
  BY <1>1, <1>2, ListTogether
<1>. QED
  BY <1>3, <1>4

LEMMA StatementsTogether ==
  ASSUME NEW l \in Seq(Statements)
  PROVE  \E h \in Nat : l \in Seq(Lower[h].statements)
<1> DEFINE H == [h \in Nat |-> Lower[h].statements]
<1>1. \A h \in Nat, k \in Nat : h <= k => H[h] \subseteq H[k]
  BY LowerGrowsOn DEF Within
<1>2. \A x \in Statements : \E h \in Nat : x \in H[h]
  BY DEF Statements
<1>3. \A h \in Nat : H[h] = Lower[h].statements
  OBVIOUS
<1>. HIDE DEF H
<1>4. \E h \in Nat : l \in Seq(H[h])
  BY <1>1, <1>2, ListTogether
<1>. QED
  BY <1>3, <1>4

(* A node of the trees is a node over the trees: ...*)
LEMMA TreesAreOver ==
  /\ Expressions \subseteq ExpressionsOver(Expressions)
  /\ Statements \subseteq StatementsOver(Expressions, Statements)
<1>1. ASSUME NEW h \in Nat
      PROVE  Within(Lower[h], Over([expressions |-> Expressions, statements |-> Statements]))
  <2>1. CASE h = 0
    BY <2>1, LowerUnfolds DEF Within, NoTrees
  <2>2. CASE h # 0
    <3>1. h - 1 \in Nat /\ Lower[h] = Over(Lower[h - 1])
      BY <2>2, LowerUnfolds
    <3>2. Within(Lower[h - 1], [expressions |-> Expressions, statements |-> Statements])
      BY <3>1 DEF Within, Expressions, Statements
    <3>. QED
      BY <3>1, <3>2, OverWithin
  <2>. QED
    BY <2>1, <2>2
<1>. QED
  BY <1>1 DEF Within, Over, Expressions, Statements

(* ... and the other way round. *)
LEMMA BuiltFromLower ==
  ASSUME NEW h \in Nat
  PROVE  /\ ExpressionsOver(Lower[h].expressions) \subseteq Expressions
         /\ StatementsOver(Lower[h].expressions, Lower[h].statements) \subseteq Statements
<1>1. h + 1 \in Nat /\ Lower[h + 1] = Over(Lower[h])
  BY LowerUnfolds
<1>2. /\ Lower[h + 1].expressions = ExpressionsOver(Lower[h].expressions)
      /\ Lower[h + 1].statements = StatementsOver(Lower[h].expressions, Lower[h].statements)
  BY <1>1 DEF Over
<1>3. Lower[h + 1].expressions \subseteq Expressions /\ Lower[h + 1].statements \subseteq Statements
  BY <1>1 DEF Expressions, Statements
<1>. QED
  BY <1>2, <1>3

LEMMA OverAreExpressions == ExpressionsOver(Expressions) \subseteq Expressions
<1> DEFINE E(h) == Lower[h].expressions
<1>1. \A x \in Expressions : \E h \in Nat : x \in E(h)
  BY DEF Expressions
<1>2. \A x \in Expressions, y \in Expressions : \E h \in Nat : x \in E(h) /\ y \in E(h)
  BY <1>1, Together DEF Within
<1>3. \A x \in Expressions, l \in Seq(Expressions) : \E h \in Nat : x \in E(h) /\ l \in Seq(E(h))
  <2> SUFFICES ASSUME NEW x \in Expressions, NEW l \in Seq(Expressions)
               PROVE  \E h \in Nat : x \in E(h) /\ l \in Seq(E(h))
    OBVIOUS
  <2>1. PICK h \in Nat : x \in E(h)
    BY <1>1
  <2>2. PICK k \in Nat : l \in Seq(E(k))
    BY ArgumentsTogether
  <2>3. PICK m \in Nat : E(h) \subseteq E(m) /\ E(k) \subseteq E(m)
    BY Together DEF Within
  <2>4. l \in Seq(E(m))
    BY <2>2, <2>3, SeqGrows
  <2>. QED
    BY <2>1, <2>3, <2>4
<1>4. \A h \in Nat : ExpressionsOver(E(h)) \subseteq Expressions
  BY BuiltFromLower
<1>. HIDE DEF E
<1>5. ASSUME NEW x \in [type : {"literal"}, value : Constants] \cup [type : {"variable"}, name : Identifiers]
      PROVE  x \in Expressions
  <2>1. x \in ExpressionsOver(E(0))
    BY <1>5 DEF ExpressionsOver
  <2>. QED
    BY <1>4, <2>1
<1>6. ASSUME NEW x \in [type : {"assign"}, name : Identifiers, value : Expressions]
      PROVE  x \in Expressions
  <2>1. PICK h \in Nat : x.value \in E(h)
    BY <1>1, <1>6
  <2>2. x \in ExpressionsOver(E(h))
    BY <1>6, <2>1 DEF ExpressionsOver
  <2>. QED
    BY <1>4, <2>2
<1>7. ASSUME NEW x \in [type : {"binary", "logical"}, left : Expressions, op : Lexemes, right : Expressions]
      PROVE  x \in Expressions
  <2>1. PICK h \in Nat : x.left \in E(h) /\ x.right \in E(h)
    BY <1>2, <1>7
  <2>2. x \in ExpressionsOver(E(h))
    BY <1>7, <2>1 DEF ExpressionsOver
  <2>. QED
    BY <1>4, <2>2
<1>8. ASSUME NEW x \in [type : {"grouping"}, expression : Expressions]
      PROVE  x \in Expressions
  <2>1. PICK h \in Nat : x.expression \in E(h)
    BY <1>1, <1>8
  <2>2. x \in ExpressionsOver(E(h))
    BY <1>8, <2>1 DEF ExpressionsOver
  <2>. QED
    BY <1>4, <2>2
<1>9. ASSUME NEW x \in [type : {"unary"}, op : Lexemes, right : Expressions]
      PROVE  x \in Expressions
  <2>1. PICK h \in Nat : x.right \in E(h)
    BY <1>1, <1>9
  <2>2. x \in ExpressionsOver(E(h))
    BY <1>9, <2>1 DEF ExpressionsOver
  <2>. QED
    BY <1>4, <2>2
<1>10. ASSUME NEW x \in [type : {"call"}, callee : Expressions, arguments : Seq(Expressions)]
       PROVE  x \in Expressions
  <2>1. PICK h \in Nat : x.callee \in E(h) /\ x.arguments \in Seq(E(h))
    BY <1>3, <1>10
  <2>2. x \in ExpressionsOver(E(h))
    BY <1>10, <2>1 DEF ExpressionsOver
  <2>. QED
    BY <1>4, <2>2
<1>. QED
  BY <1>5, <1>6, <1>7, <1>8, <1>9, <1>10 DEF ExpressionsOver

LEMMA OverAreStatements == StatementsOver(Expressions, Statements) \subseteq Statements
<1> DEFINE E(h) == Lower[h].expressions
           S(h) == Lower[h].statements
<1>1. \A x \in Expressions : \E h \in Nat : x \in E(h)
  BY DEF Expressions
<1>2. \A x \in Statements : \E h \in Nat : x \in S(h)
  BY DEF Statements
<1>3. \A l \in Seq(Statements) : \E h \in Nat : l \in Seq(S(h))
  BY StatementsTogether
<1>4. \A h \in Nat, k \in Nat : \E m \in Nat :
        E(h) \subseteq E(m) /\ S(h) \subseteq S(m) /\ E(k) \subseteq E(m) /\ S(k) \subseteq S(m)
  BY Together DEF Within
<1>5. \A h \in Nat : StatementsOver(E(h), S(h)) \subseteq Statements
  BY BuiltFromLower
<1>. HIDE DEF E, S
<1> SUFFICES ASSUME NEW s \in ShapesOver(Expressions, Statements), Nested(s)
             PROVE  \E h \in Nat : s \in ShapesOver(E(h), S(h))
  BY <1>5 DEF StatementsOver
<1>6. CASE s \in [type : {"block"}, depth : Nat, statements : Seq(Statements)]
  <2>1. PICK h \in Nat : s.statements \in Seq(S(h))
    BY <1>3, <1>6
  <2>2. s \in [type : {"block"}, depth : Nat, statements : Seq(S(h))]
    BY <1>6, <2>1
  <2>. QED
    BY <2>2 DEF ShapesOver
<1>7. CASE s \in [type : {"expression", "print"}, depth : Nat, expression : Expressions]
  <2>1. PICK h \in Nat : s.expression \in E(h)
    BY <1>1, <1>7
  <2>2. s \in [type : {"expression", "print"}, depth : Nat, expression : E(h)]
    BY <1>7, <2>1
  <2>. QED
    BY <2>2 DEF ShapesOver
<1>8. CASE s \in [type : {"function"}, depth : Nat, at : Addresses, name : Identifiers,
                  params : Seq(Identifiers), body : Seq(Statements)]
  <2>1. PICK h \in Nat : s.body \in Seq(S(h))
    BY <1>3, <1>8
  <2>2. s \in [type : {"function"}, depth : Nat, at : Addresses, name : Identifiers,
               params : Seq(Identifiers), body : Seq(S(h))]
    BY <1>8, <2>1
  <2>. QED
    BY <2>2 DEF ShapesOver
<1>9. CASE s \in [type : {"if"}, depth : Nat, condition : Expressions,
                  then_branch : Statements, else_branch : Statements \cup {NULL}]
  <2>1. PICK h \in Nat : s.condition \in E(h)
    BY <1>1, <1>9
  <2>2. PICK k \in Nat : s.then_branch \in S(k)
    BY <1>2, <1>9
  <2>3. PICK i \in Nat : s.else_branch \in S(i) \cup {NULL}
    BY <1>2, <1>9
  <2>4. PICK m \in Nat : E(h) \subseteq E(m) /\ S(k) \subseteq S(m)
    BY <1>4
  <2>5. PICK j \in Nat : E(m) \subseteq E(j) /\ S(m) \subseteq S(j) /\ S(i) \subseteq S(j)
    BY <1>4
  <2>6. s.condition \in E(j) /\ s.then_branch \in S(j) /\ s.else_branch \in S(j) \cup {NULL}
    BY <2>1, <2>2, <2>3, <2>4, <2>5
  <2>7. s \in [type : {"if"}, depth : Nat, condition : E(j),
               then_branch : S(j), else_branch : S(j) \cup {NULL}]
    BY <1>9, <2>6
  <2>. QED
    BY <2>7 DEF ShapesOver
<1>10. CASE s \in [type : {"return"}, depth : Nat, value : Expressions \cup {NULL}]
  <2>1. PICK h \in Nat : s.value \in E(h) \cup {NULL}
    BY <1>1, <1>10
  <2>2. s \in [type : {"return"}, depth : Nat, value : E(h) \cup {NULL}]
    BY <1>10, <2>1
  <2>. QED
    BY <2>2 DEF ShapesOver
<1>11. CASE s \in [type : {"var"}, depth : Nat, name : Identifiers, initializer : Expressions \cup {NULL}]
  <2>1. PICK h \in Nat : s.initializer \in E(h) \cup {NULL}
    BY <1>1, <1>11
  <2>2. s \in [type : {"var"}, depth : Nat, name : Identifiers, initializer : E(h) \cup {NULL}]
    BY <1>11, <2>1
  <2>. QED
    BY <2>2 DEF ShapesOver
<1>12. CASE s \in [type : {"while"}, depth : Nat, condition : Expressions, body : Statements]
  <2>1. PICK h \in Nat : s.condition \in E(h)
    BY <1>1, <1>12
  <2>2. PICK k \in Nat : s.body \in S(k)
    BY <1>2, <1>12
  <2>3. PICK m \in Nat : E(h) \subseteq E(m) /\ S(k) \subseteq S(m)
    BY <1>4
  <2>4. s \in [type : {"while"}, depth : Nat, condition : E(m), body : S(m)]
    BY <1>12, <2>1, <2>2, <2>3
  <2>. QED
    BY <2>4 DEF ShapesOver
<1>. QED
  BY <1>6, <1>7, <1>8, <1>9, <1>10, <1>11, <1>12 DEF ShapesOver

(* What the constructors of the parser build. *)
StatementsAt(depth) == {s \in Statements : s.depth = depth}

LEMMA ExpressionsBuilt ==
  /\ \A v \in Constants : expr_new_literal(v) \in Expressions
  /\ \A x \in Identifiers : expr_new_variable(x) \in Expressions
  /\ \A x \in Identifiers, e \in Expressions : expr_new_assign(x, e) \in Expressions
  /\ \A l \in Expressions, op \in Lexemes, r \in Expressions :
       expr_new_binary(l, op, r) \in Expressions /\ expr_new_logical(l, op, r) \in Expressions
  /\ \A e \in Expressions : expr_new_grouping(e) \in Expressions
  /\ \A op \in Lexemes, e \in Expressions : expr_new_unary(op, e) \in Expressions
  /\ \A e \in Expressions, l \in Seq(Expressions) : expr_new_call(e, l) \in Expressions
BY OverAreExpressions
   DEF ExpressionsOver, expr_new_literal, expr_new_variable, expr_new_assign, expr_new_binary,
       expr_new_logical, expr_new_grouping, expr_new_unary, expr_new_call

LEMMA StatementsBuilt ==
  ASSUME NEW d \in Nat
  PROVE  /\ \A l \in Seq(StatementsAt(d + 1)) : Placed(stmt_new_block(l), d) \in StatementsAt(d)
         /\ \A e \in Expressions :
              /\ Placed(stmt_new_expression(e), d) \in StatementsAt(d)
              /\ Placed(stmt_new_print(e), d) \in StatementsAt(d)
         /\ \A a \in Addresses, x \in Identifiers, p \in Seq(Identifiers), l \in Seq(StatementsAt(d + 1)) :
              Placed(stmt_new_function(a, x, p, l), d) \in StatementsAt(d)
         /\ \A e \in Expressions, t \in StatementsAt(d), u \in StatementsAt(d) \cup {NULL} :
              Placed(stmt_new_if(e, t, u), d) \in StatementsAt(d)
         /\ \A e \in Expressions \cup {NULL} : Placed(stmt_new_return(e), d) \in StatementsAt(d)
         /\ \A x \in Identifiers, e \in Expressions \cup {NULL} :
              Placed(stmt_new_var(x, e), d) \in StatementsAt(d)
         /\ \A e \in Expressions, t \in StatementsAt(d) : Placed(stmt_new_while(e, t), d) \in StatementsAt(d)
<1>1. \A s : s \in ShapesOver(Expressions, Statements) /\ Nested(s) /\ s.depth = d => s \in StatementsAt(d)
  BY OverAreStatements DEF StatementsOver, StatementsAt
<1>2. ASSUME NEW l \in Seq(StatementsAt(d + 1))
      PROVE  l \in Seq(Statements) /\ AllAt(l, d + 1)
  <2>1. StatementsAt(d + 1) \subseteq Statements /\ \A s \in StatementsAt(d + 1) : s.depth = d + 1
    BY DEF StatementsAt
  <2>2. l \in Seq(Statements)
    BY <2>1, SeqGrows
  <2>3. \A n \in 1 .. Len(l) : l[n] \in StatementsAt(d + 1)
    OBVIOUS
  <2>. QED
    BY <2>1, <2>2, <2>3 DEF AllAt
<1>3. \A l \in Seq(StatementsAt(d + 1)) : Placed(stmt_new_block(l), d) \in StatementsAt(d)
  <2> SUFFICES ASSUME NEW l \in Seq(StatementsAt(d + 1))
               PROVE  Placed(stmt_new_block(l), d) \in StatementsAt(d)
    OBVIOUS
  <2> DEFINE s == [type |-> "block", depth |-> d, statements |-> l]
  <2>1. s \in ShapesOver(Expressions, Statements) /\ s.depth = d
    BY <1>2 DEF ShapesOver
  <2>2. Nested(s)
    BY <1>2 DEF Nested
  <2>. QED
    BY <1>1, <2>1, <2>2, PlacedIsPlaced
<1>4. ASSUME NEW e \in Expressions
      PROVE  /\ Placed(stmt_new_expression(e), d) \in StatementsAt(d)
             /\ Placed(stmt_new_print(e), d) \in StatementsAt(d)
  <2>1. ASSUME NEW t \in {"expression", "print"}
        PROVE  [type |-> t, depth |-> d, expression |-> e] \in StatementsAt(d)
    <3> DEFINE s == [type |-> t, depth |-> d, expression |-> e]
    <3>1. s \in ShapesOver(Expressions, Statements) /\ s.depth = d
      BY DEF ShapesOver
    <3>2. Nested(s)
      BY DEF Nested
    <3>. QED
      BY <1>1, <3>1, <3>2
  <2>. QED
    BY <2>1, PlacedIsPlaced
<1>5. ASSUME NEW a \in Addresses, NEW x \in Identifiers, NEW p \in Seq(Identifiers),
             NEW l \in Seq(StatementsAt(d + 1))
      PROVE  Placed(stmt_new_function(a, x, p, l), d) \in StatementsAt(d)
  <2> DEFINE s == [type |-> "function", depth |-> d, at |-> a, name |-> x, params |-> p, body |-> l]
  <2>1. s \in ShapesOver(Expressions, Statements) /\ s.depth = d
    BY <1>2 DEF ShapesOver
  <2>2. Nested(s)
    BY <1>2 DEF Nested
  <2>. QED
    BY <1>1, <2>1, <2>2, PlacedIsPlaced
<1>6. ASSUME NEW e \in Expressions, NEW t \in StatementsAt(d), NEW u \in StatementsAt(d) \cup {NULL}
      PROVE  Placed(stmt_new_if(e, t, u), d) \in StatementsAt(d)
  <2> DEFINE s == [type |-> "if", depth |-> d, condition |-> e, then_branch |-> t, else_branch |-> u]
  <2>1. s \in ShapesOver(Expressions, Statements) /\ s.depth = d
    BY DEF ShapesOver, StatementsAt
  <2>2. Nested(s)
    BY DEF Nested, StatementsAt
  <2>. QED
    BY <1>1, <2>1, <2>2, PlacedIsPlaced
<1>7. ASSUME NEW e \in Expressions \cup {NULL}
      PROVE  Placed(stmt_new_return(e), d) \in StatementsAt(d)
  <2> DEFINE s == [type |-> "return", depth |-> d, value |-> e]
  <2>1. s \in ShapesOver(Expressions, Statements) /\ s.depth = d
    BY DEF ShapesOver
  <2>2. Nested(s)
    BY DEF Nested
  <2>. QED
    BY <1>1, <2>1, <2>2, PlacedIsPlaced
<1>8. ASSUME NEW x \in Identifiers, NEW e \in Expressions \cup {NULL}
      PROVE  Placed(stmt_new_var(x, e), d) \in StatementsAt(d)
  <2> DEFINE s == [type |-> "var", depth |-> d, name |-> x, initializer |-> e]
  <2>1. s \in ShapesOver(Expressions, Statements) /\ s.depth = d
    BY DEF ShapesOver
  <2>2. Nested(s)
    BY DEF Nested
  <2>. QED
    BY <1>1, <2>1, <2>2, PlacedIsPlaced
<1>9. ASSUME NEW e \in Expressions, NEW t \in StatementsAt(d)
      PROVE  Placed(stmt_new_while(e, t), d) \in StatementsAt(d)
  <2> DEFINE s == [type |-> "while", depth |-> d, condition |-> e, body |-> t]
  <2>1. s \in ShapesOver(Expressions, Statements) /\ s.depth = d
    BY DEF ShapesOver, StatementsAt
  <2>2. Nested(s)
    BY DEF Nested, StatementsAt
  <2>. QED
    BY <1>1, <2>1, <2>2, PlacedIsPlaced
<1>. QED
  BY <1>3, <1>4, <1>5, <1>6, <1>7, <1>8, <1>9

-----------------------------------------------------------------------------
(* What the functions of the parser collect and return.                    *)

(* The kind of node a function waits for, and the kind of node that a      *)
(* function or what is at a point of it returns in the end.                *)
ExpressionWaits ==
  Levels \cup
  {"print", "expression_statement", "if_condition", "while_condition", "for_condition", "for_increment",
   "return", "var", "assignment", "assignment_value", "argument", "unary", "call", "grouping"}
WaitsFor(fn) ==
  IF fn \in ExpressionWaits THEN "expression"
  ELSE IF fn \in {"block_statement", "function_body"} THEN "list" ELSE "statement"

ExpressionPoints ==
  Levels \cup
  {"assignment", "assignment_value", "argument", "unary", "call", "grouping", "primary",
   "finish_call", "call_close"}
Results(name) ==
  IF name \in ExpressionPoints THEN "expression" ELSE IF name = "block" THEN "list" ELSE "statement"

IsNode(kind, node, d) ==
  CASE kind = "expression" -> node \in Expressions
    [] kind = "statement" -> node \in StatementsAt(d)
    [] OTHER -> \E l \in Seq(StatementsAt(d)) : node = stmt_list(l)

(* The nodes that a function has collected, d blocks deep. *)
ForPoints == {"for_initialized", "for_condition", "for_conditioned", "for_increment", "for_body"}
FunctionPoints == ParameterPoints \cup {"function_closed", "function_body"}
Initializers(d) == StatementsAt(d + 1) \cup {NULL}
Clauses == Expressions \cup {NULL}
Declaring(nodes) == \E t \in Tokens, l \in Seq(Identifiers) : t.type = "IDENTIFIER" /\ nodes = <<t>> \o l
Applying(nodes) == \E e \in Expressions, l \in Seq(Expressions) : nodes = <<e>> \o l
Collected(name, nodes, d) ==
  CASE name \in {"parser_parse", "block"} -> nodes \in Seq(StatementsAt(d))
    [] name \in {"if_then", "while_body", "assignment_value"} -> \E e \in Expressions : nodes = <<e>>
    [] name = "if_else" -> \E e \in Expressions, s \in StatementsAt(d) : nodes = <<e, s>>
    [] name \in {"for_initialized", "for_condition"} -> \E i \in Initializers(d) : nodes = <<i>>
    [] name \in {"for_conditioned", "for_increment"} ->
         \E i \in Initializers(d), c \in Clauses : nodes = <<i, c>>
    [] name = "for_body" -> \E i \in Initializers(d), c \in Clauses, u \in Clauses : nodes = <<i, c, u>>
    [] name \in FunctionPoints -> Declaring(nodes)
    [] name \in {"var_named", "var"} -> \E x \in Identifiers : nodes = <<x>>
    [] name \in Levels -> nodes = <<>> \/ \E e \in Expressions, op \in Lexemes : nodes = <<e, op>>
    [] name \in ArgumentPoints -> Applying(nodes)
    [] OTHER -> TRUE
Held(fn, nodes, d) ==
  /\ Collected(fn, nodes, d)
  /\ fn = "unary" => \E op \in Lexemes : nodes = <<op>>

(* Frame f waits directly above frame g. *)
Filled(f) == f.depth \in Nat /\ Held(f.fn, f.nodes, f.depth)
Belongs(f, g) == f.depth = g.depth + Opens(g) /\ Results(f.fn) = WaitsFor(g.fn)

StackTyped(frames) ==
  \A n \in 1 .. Len(frames) :
    /\ Filled(frames[n])
    /\ IF n = Len(frames) THEN frames[n].depth = 0 ELSE Belongs(frames[n], frames[n + 1])

CtlTyped(c, frames) ==
  /\ c.tag = "at" =>
       /\ Collected(c.point, c.nodes, Inside(frames))
       /\ frames # <<>> => Results(c.point) = WaitsFor(Head(frames).fn)
  /\ c.tag = "return" => IsNode(WaitsFor(Head(frames).fn), c.node, Inside(frames))
  /\ c.tag = "done" => c.statements \in Seq(StatementsAt(0))

Typed == StackTyped(stack) /\ CtlTyped(ctl, stack)

(* As long as no error is reported, what is collected and returned is whole. *)
TreeInv == ~HadError => Typed

-----------------------------------------------------------------------------
LEMMA OpensFacts ==
  ASSUME NEW f
  PROVE  Opens(f) \in Nat
BY DEF Opens, Opened

LEMMA PushTyped ==
  ASSUME NEW S, NEW frames \in Seq(S), NEW f, StackTyped(frames), Filled(f),
         f.depth = Inside(frames), frames # <<>> => Results(f.fn) = WaitsFor(Head(frames).fn)
  PROVE  StackTyped(<<f>> \o frames)
<1> DEFINE pushed == <<f>> \o frames
<1>1. /\ Len(pushed) = Len(frames) + 1
      /\ Len(frames) \in Nat
      /\ pushed[1] = f
      /\ \A n \in 1 .. Len(frames) : pushed[n + 1] = frames[n]
      /\ frames = <<>> <=> Len(frames) = 0
      /\ frames # <<>> => Head(frames) = frames[1]
  OBVIOUS
<1>. HIDE DEF pushed
<1>2. ASSUME NEW n \in 1 .. Len(pushed)
      PROVE  /\ Filled(pushed[n])
             /\ IF n = Len(pushed) THEN pushed[n].depth = 0 ELSE Belongs(pushed[n], pushed[n + 1])
  <2>1. CASE n = 1
    <3>1. frames # <<>> => pushed[1 + 1] = frames[1]
      BY <1>1
    <3>2. IF frames = <<>> THEN f.depth = 0 ELSE Belongs(f, Head(frames))
      BY DEF Inside, Belongs
    <3>. QED
      BY <1>1, <2>1, <3>1, <3>2
  <2>2. CASE n # 1
    <3>1. n - 1 \in 1 .. Len(frames) /\ (n - 1) + 1 = n
      BY <1>1, <2>2
    <3>2. pushed[n] = frames[n - 1]
      BY <1>1, <3>1
    <3>3. n # Len(pushed) => pushed[n + 1] = frames[(n - 1) + 1]
      BY <1>1, <3>1
    <3>4. n = Len(pushed) <=> n - 1 = Len(frames)
      BY <1>1, <3>1
    <3>. QED
      BY <3>1, <3>2, <3>3, <3>4 DEF StackTyped
  <2>. QED
    BY <2>1, <2>2
<1>3. StackTyped(pushed)
  BY <1>2 DEF StackTyped
<1>. QED
  BY <1>3 DEF pushed

LEMMA PopTyped ==
  ASSUME NEW S, NEW frames \in Seq(S), StackTyped(frames), frames # <<>>
  PROVE  /\ Tail(frames) \in Seq(S)
         /\ StackTyped(Tail(frames))
         /\ Filled(Head(frames))
         /\ Head(frames).depth = Inside(Tail(frames))
         /\ Tail(frames) # <<>> => Results(Head(frames).fn) = WaitsFor(Head(Tail(frames)).fn)
<1> DEFINE rest == Tail(frames)
<1>1. /\ rest \in Seq(S)
      /\ Len(rest) = Len(frames) - 1
      /\ Len(frames) \in Nat
      /\ Len(frames) >= 1
      /\ Head(frames) = frames[1]
      /\ \A n \in 1 .. Len(rest) : rest[n] = frames[n + 1]
  OBVIOUS
<1>. HIDE DEF rest
<1>2. rest = <<>> <=> Len(rest) = 0
  BY <1>1
<1>3. rest # <<>> => Head(rest) = frames[1 + 1]
  BY <1>1, <1>2
<1>4. /\ Filled(frames[1])
      /\ IF 1 = Len(frames) THEN frames[1].depth = 0 ELSE Belongs(frames[1], frames[1 + 1])
  BY <1>1 DEF StackTyped
<1>5. ASSUME NEW n \in 1 .. Len(rest)
      PROVE  /\ Filled(rest[n])
             /\ IF n = Len(rest) THEN rest[n].depth = 0 ELSE Belongs(rest[n], rest[n + 1])
  <2>1. n + 1 \in 1 .. Len(frames) /\ (n = Len(rest) <=> n + 1 = Len(frames))
    BY <1>1
  <2>2. rest[n] = frames[n + 1]
    BY <1>1
  <2>3. n # Len(rest) => rest[n + 1] = frames[(n + 1) + 1]
    BY <1>1
  <2>. QED
    BY <2>1, <2>2, <2>3 DEF StackTyped
<1>6. StackTyped(rest)
  BY <1>5 DEF StackTyped
<1>7. IF rest = <<>> THEN frames[1].depth = 0 ELSE Belongs(frames[1], Head(rest))
  BY <1>1, <1>2, <1>3, <1>4
<1>8. frames[1].depth = Inside(rest)
  BY <1>7 DEF Inside, Belongs
<1>. QED
  BY <1>1, <1>4, <1>6, <1>7, <1>8 DEF rest, Belongs

LEMMA InsideFacts ==
  ASSUME ParserInv, StackTyped(stack)
  PROVE  Inside(stack) \in Nat
<1>1. PICK S : stack \in Seq(S)
  BY DEF ParserInv
<1>2. stack # <<>> => Head(stack).depth \in Nat
  BY <1>1, PopTyped DEF Filled
<1>. QED
  BY <1>2, OpensFacts DEF Inside

(* The function that waits, and what it waits in. *)
LEMMA TopTyped ==
  ASSUME ParserInv, StackTyped(stack), stack # <<>>
  PROVE  /\ StackTyped(Tail(stack))
         /\ Top.depth \in Nat
         /\ Held(Top.fn, Top.nodes, Top.depth)
         /\ Inside(Tail(stack)) = Top.depth
         /\ Inside(stack) = Top.depth + Opens(Top)
         /\ Tail(stack) # <<>> => Results(Top.fn) = WaitsFor(Head(Tail(stack)).fn)
         /\ Top.fn # "parser_parse" => Tail(stack) # <<>>
<1>1. PICK S : stack \in Seq(S)
  BY DEF ParserInv
<1>2. Inside(stack) = Top.depth + Opens(Top)
  BY DEF Inside, Top
<1>3. Top.fn # "parser_parse" => Tail(stack) # <<>>
  BY TopFacts
<1>. QED
  BY <1>1, <1>2, <1>3, PopTyped DEF Filled, Top

(* The functions that may be entered. *)
Entries == Levels \cup {"declaration", "function", "var_declaration", "statement", "block",
                        "expression_statement", "assignment", "unary", "primary"}

LEMMA EntryCollected ==
  ASSUME NEW name \in Entries, NEW d
  PROVE  Collected(name, <<>>, d)
BY LevelsAre DEF Entries, Collected, FunctionPoints, ParameterPoints, ArgumentPoints

LEMMA Calling ==
  ASSUME ParserInv, NEW frames, NEW p, NEW fn, NEW nodes, NEW callee \in Entries,
         frames = stack \/ (stack # <<>> /\ frames = Tail(stack)), StackTyped(frames),
         Inside(frames) \in Nat,
         Call(frames, p, fn, nodes, callee), Held(fn, nodes, Inside(frames)),
         frames # <<>> => Results(fn) = WaitsFor(Head(frames).fn),
         Results(callee) = WaitsFor(fn)
  PROVE  Typed'
<1> DEFINE f == Frame(frames, p, fn, nodes)
<1>1. f.fn = fn /\ f.nodes = nodes /\ f.depth = Inside(frames)
  BY DEF Frame
<1>2. stack' = <<f>> \o frames /\ ctl' = At(callee, <<>>)
  BY DEF Call
<1>. HIDE DEF f
<1>3. PICK S : stack \in Seq(S)
  BY DEF ParserInv
<1>4. frames \in Seq(S)
  BY <1>3
<1>5. Filled(f)
  BY <1>1 DEF Filled
<1>6. StackTyped(stack')
  BY <1>1, <1>2, <1>4, <1>5, PushTyped
<1>7. Head(stack') = f /\ stack' # <<>>
  BY <1>2, <1>4
<1>8. CtlTyped(ctl', stack')
  BY <1>1, <1>2, <1>7, EntryCollected DEF CtlTyped, At
<1>. QED
  BY <1>6, <1>8 DEF Typed

LEMMA CallTyped ==
  ASSUME ParserInv, Typed, ctl.tag = "at", NEW p, NEW fn, NEW nodes, NEW callee \in Entries,
         Call(stack, p, fn, nodes, callee), Held(fn, nodes, Inside(stack)),
         Results(fn) = Results(ctl.point), Results(callee) = WaitsFor(fn)
  PROVE  Typed'
BY Calling, InsideFacts DEF Typed, CtlTyped

LEMMA CallOnTyped ==
  ASSUME ParserInv, Typed, ctl.tag = "return", stack # <<>>,
         NEW p, NEW fn, NEW nodes, NEW callee \in Entries,
         Call(Tail(stack), p, fn, nodes, callee), Held(fn, nodes, Top.depth),
         Results(fn) = Results(Top.fn), Results(callee) = WaitsFor(fn)
  PROVE  Typed'
BY Calling, TopTyped DEF Typed

LEMMA GotoTyped ==
  ASSUME ParserInv, Typed, ctl.tag = "at", NEW p, NEW point, NEW nodes,
         Goto(stack, p, point, nodes), Collected(point, nodes, Inside(stack)),
         Results(point) = Results(ctl.point)
  PROVE  Typed'
<1>1. stack' = stack /\ ctl' = At(point, nodes)
  BY DEF Goto
<1>2. CtlTyped(ctl', stack')
  BY <1>1 DEF Typed, CtlTyped, At
<1>. QED
  BY <1>1, <1>2 DEF Typed

LEMMA GotoOnTyped ==
  ASSUME ParserInv, Typed, ctl.tag = "return", stack # <<>>, NEW p, NEW point, NEW nodes,
         Goto(Tail(stack), p, point, nodes), Collected(point, nodes, Top.depth),
         Results(point) = Results(Top.fn)
  PROVE  Typed'
<1>1. stack' = Tail(stack) /\ ctl' = At(point, nodes)
  BY DEF Goto
<1>2. CtlTyped(ctl', stack')
  BY <1>1, TopTyped DEF Typed, CtlTyped, At
<1>. QED
  BY <1>1, <1>2, TopTyped DEF Typed

LEMMA YieldTyped ==
  ASSUME ParserInv, Typed, ctl.tag = "at", stack # <<>>, NEW p, NEW node,
         Yield(stack, p, node), IsNode(Results(ctl.point), node, Inside(stack))
  PROVE  Typed'
<1>1. stack' = stack /\ ctl' = Return(node)
  BY DEF Yield
<1>2. CtlTyped(ctl', stack')
  BY <1>1 DEF Typed, CtlTyped, Return
<1>. QED
  BY <1>1, <1>2 DEF Typed

LEMMA YieldOnTyped ==
  ASSUME ParserInv, Typed, ctl.tag = "return", stack # <<>>, NEW p, NEW node, Top.fn # "parser_parse",
         Yield(Tail(stack), p, node), IsNode(Results(Top.fn), node, Top.depth)
  PROVE  Typed'
<1>1. stack' = Tail(stack) /\ ctl' = Return(node)
  BY DEF Yield
<1>2. CtlTyped(ctl', stack')
  BY <1>1, TopTyped DEF Typed, CtlTyped, Return
<1>. QED
  BY <1>1, <1>2, TopTyped DEF Typed

LEMMA ReachedTyped ==
  ASSUME ParserInv, Typed, NEW point, Reached(point)
  PROVE  /\ ctl.tag = "at" /\ ctl.point = point
         /\ Collected(point, ctl.nodes, Inside(stack))
         /\ Inside(stack) \in Nat
         /\ point # "parser_parse" => stack # <<>>
BY AtFacts, InsideFacts DEF Typed, CtlTyped, Reached

LEMMA ReturnedTyped ==
  ASSUME ParserInv, Typed, NEW fn, Returned(fn)
  PROVE  /\ ctl.tag = "return" /\ stack # <<>> /\ Top.fn = fn
         /\ Held(fn, Top.nodes, Top.depth)
         /\ Top.depth \in Nat
         /\ Inside(Tail(stack)) = Top.depth
         /\ IsNode(WaitsFor(fn), ctl.node, Top.depth + Opens(Top))
<1>1. ctl.tag = "return" /\ stack # <<>> /\ Top.fn = fn
  BY DEF Returned
<1>. QED
  BY <1>1, TopTyped DEF Typed, CtlTyped, Top

LEMMA MissingReports ==
  ASSUME NEW type, NEW frames, Missing(type, frames)
  PROVE  HadError'
BY DEF Missing, error

LEMMA Kinds ==
  /\ \A name \in ExpressionPoints : Results(name) = "expression"
  /\ Results("block") = "list"
  /\ \A name : name \notin ExpressionPoints \cup {"block"} => Results(name) = "statement"
  /\ \A fn \in ExpressionWaits : WaitsFor(fn) = "expression"
  /\ WaitsFor("block_statement") = "list" /\ WaitsFor("function_body") = "list"
  /\ \A fn : fn \notin ExpressionWaits \cup {"block_statement", "function_body"} => WaitsFor(fn) = "statement"
BY LevelsAre DEF Results, WaitsFor, ExpressionPoints, ExpressionWaits

LEMMA NodeKinds ==
  ASSUME NEW node, NEW d
  PROVE  /\ IsNode("expression", node, d) <=> node \in Expressions
         /\ IsNode("statement", node, d) <=> node \in StatementsAt(d)
         /\ IsNode("list", node, d) <=> \E l \in Seq(StatementsAt(d)) : node = stmt_list(l)
BY DEF IsNode

(* The name of a function is the first of what is collected for it. *)
LEMMA NameDeclares ==
  ASSUME NEW t \in Tokens, t.type = "IDENTIFIER"
  PROVE  Declaring(<<t>>)
<1> DEFINE l == <<>>
<1>1. <<t>> = <<t>> \o l /\ l \in Seq(Identifiers)
  OBVIOUS
<1>. HIDE DEF l
<1>. QED
  BY <1>1 DEF Declaring

(* What there is to collect, function by function. *)
Empty == {"declaration", "function", "var_declaration", "statement", "expression_statement",
          "assignment", "unary", "primary", "block_statement", "print", "if_condition",
          "while_condition", "for_initializer", "return", "call", "grouping", "synchronize",
          "for_clauses"} \cup Keywords

LEMMA CollectedFacts ==
  ASSUME NEW nodes, NEW d
  PROVE  /\ \A name \in {"parser_parse", "block"} :
              Collected(name, nodes, d) <=> nodes \in Seq(StatementsAt(d))
         /\ \A name \in {"if_then", "while_body", "assignment_value"} :
              Collected(name, nodes, d) <=> \E e \in Expressions : nodes = <<e>>
         /\ Collected("if_else", nodes, d) <=>
              \E e \in Expressions, s \in StatementsAt(d) : nodes = <<e, s>>
         /\ \A name \in {"for_initialized", "for_condition"} :
              Collected(name, nodes, d) <=> \E i \in Initializers(d) : nodes = <<i>>
         /\ \A name \in {"for_conditioned", "for_increment"} :
              Collected(name, nodes, d) <=> \E i \in Initializers(d), c \in Clauses : nodes = <<i, c>>
         /\ Collected("for_body", nodes, d) <=>
              \E i \in Initializers(d), c \in Clauses, u \in Clauses : nodes = <<i, c, u>>
         /\ \A name \in FunctionPoints :
              Collected(name, nodes, d) <=> Declaring(nodes)
         /\ \A name \in {"var_named", "var"} :
              Collected(name, nodes, d) <=> \E x \in Identifiers : nodes = <<x>>
         /\ \A name \in Levels :
              Collected(name, nodes, d) <=>
                nodes = <<>> \/ \E e \in Expressions, op \in Lexemes : nodes = <<e, op>>
         /\ \A name \in ArgumentPoints :
              Collected(name, nodes, d) <=> Applying(nodes)
         /\ \A name \in Empty : Collected(name, nodes, d)
         /\ \A fn : fn # "unary" => (Held(fn, nodes, d) <=> Collected(fn, nodes, d))
         /\ Held("unary", nodes, d) <=> \E op \in Lexemes : nodes = <<op>>
<1>. USE LevelsAre DEF FunctionPoints, ParameterPoints, ArgumentPoints, Empty, Keywords
<1>1. \A name \in Empty : Collected(name, nodes, d)
  BY DEF Collected
<1>2. /\ \A fn : fn # "unary" => (Held(fn, nodes, d) <=> Collected(fn, nodes, d))
      /\ Held("unary", nodes, d) <=> \E op \in Lexemes : nodes = <<op>>
  BY <1>1 DEF Held
<1>3. /\ \A name \in {"parser_parse", "block"} :
           Collected(name, nodes, d) <=> nodes \in Seq(StatementsAt(d))
      /\ \A name \in {"if_then", "while_body", "assignment_value"} :
           Collected(name, nodes, d) <=> \E e \in Expressions : nodes = <<e>>
      /\ Collected("if_else", nodes, d) <=>
           \E e \in Expressions, s \in StatementsAt(d) : nodes = <<e, s>>
  BY DEF Collected
<1>4. /\ \A name \in {"for_initialized", "for_condition"} :
           Collected(name, nodes, d) <=> \E i \in Initializers(d) : nodes = <<i>>
      /\ \A name \in {"for_conditioned", "for_increment"} :
           Collected(name, nodes, d) <=> \E i \in Initializers(d), c \in Clauses : nodes = <<i, c>>
      /\ Collected("for_body", nodes, d) <=>
           \E i \in Initializers(d), c \in Clauses, u \in Clauses : nodes = <<i, c, u>>
  BY DEF Collected
<1>5. \A name \in FunctionPoints :
        Collected(name, nodes, d) <=> Declaring(nodes)
  BY DEF Collected
<1>6. /\ \A name \in {"var_named", "var"} :
           Collected(name, nodes, d) <=> \E x \in Identifiers : nodes = <<x>>
      /\ \A name \in Levels :
           Collected(name, nodes, d) <=>
             nodes = <<>> \/ \E e \in Expressions, op \in Lexemes : nodes = <<e, op>>
      /\ \A name \in ArgumentPoints :
           Collected(name, nodes, d) <=> Applying(nodes)
  BY DEF Collected
<1>. QED
  BY <1>1, <1>2, <1>3, <1>4, <1>5, <1>6

LEMMA EnterTyped ==
  ASSUME ParserInv, Typed, ctl.tag = "at", NEW p, NEW fn \in Empty \ {"unary"}, NEW nodes,
         NEW callee \in Entries, Call(stack, p, fn, nodes, callee),
         Results(fn) = Results(ctl.point), Results(callee) = WaitsFor(fn)
  PROVE  Typed'
<1>1. Held(fn, nodes, Inside(stack))
  BY CollectedFacts
<1>. QED
  BY <1>1, CallTyped

-----------------------------------------------------------------------------
(* The steps that build trees.                                             *)

LEMMA Appended ==
  ASSUME NEW S, NEW l \in Seq(S), NEW x \in S
  PROVE  Append(l, x) \in Seq(S)
OBVIOUS

LEMMA ListYields ==
  ASSUME NEW d \in Nat, NEW node, IsNode("list", node, d)
  PROVE  node.statements \in Seq(StatementsAt(d)) /\ node # NULL
BY NodeKinds, NodesAreNodes DEF stmt_list

LEMMA LoopsKeepTrees ==
  ASSUME ParserInv, Typed, ~HadError',
         \/ parser_parse \/ ParsedDeclaration \/ parse_declaration \/ DeclarationEnds \/ parser_synchronize
         \/ parse_statement \/ BlockStatement \/ parse_block \/ BlockDeclaration \/ PassOnNull
  PROVE  Typed'
<1>. USE LevelsAre, Kinds DEF ExpressionPoints, ExpressionWaits, Entries, Empty, Keywords
<1>1. CASE parser_parse
  <2>1. Reached("parser_parse") /\ stack = <<>> /\ Inside(stack) = 0
    BY <1>1 DEF parser_parse, Reached, ParserInv, CtlOK, CtlAbove, Inside
  <2>2. /\ ctl.tag = "at" /\ ctl.point = "parser_parse" /\ Inside(stack) \in Nat
        /\ Collected("parser_parse", ctl.nodes, Inside(stack))
    BY <2>1, ReachedTyped
  <2>3. CASE Call(stack, current, "parser_parse", ctl.nodes, "declaration")
    BY <2>2, <2>3, CollectedFacts, CallTyped
  <2>4. CASE ctl' = Done(ctl.nodes) /\ stack' = stack
    <3>1. CtlTyped(ctl', stack')
      BY <2>1, <2>2, <2>4, CollectedFacts DEF CtlTyped, Done
    <3>. QED
      BY <2>4, <3>1 DEF Typed
  <2>. QED
    BY <1>1, <2>3, <2>4 DEF parser_parse
<1>2. CASE ParsedDeclaration
  <2>1. Returned("parser_parse")
    BY <1>2 DEF ParsedDeclaration
  <2>2. /\ ctl.tag = "return" /\ stack # <<>> /\ Top.fn = "parser_parse"
        /\ Held("parser_parse", Top.nodes, Top.depth)
        /\ Top.depth \in Nat
        /\ IsNode(WaitsFor("parser_parse"), ctl.node, Top.depth + Opens(Top))
    BY <2>1, ReturnedTyped
  <2>3. Opens(Top) = 0
    BY <2>2 DEF Opens
  <2>4. ctl.node \in StatementsAt(Top.depth) /\ Top.nodes \in Seq(StatementsAt(Top.depth))
    BY <2>2, <2>3, NodeKinds, CollectedFacts
  <2> DEFINE nodes == IF ctl.node = NULL THEN Top.nodes ELSE Append(Top.nodes, ctl.node)
  <2>5. nodes \in Seq(StatementsAt(Top.depth))
    BY <2>4, Appended
  <2>6. Goto(Tail(stack), current, "parser_parse", nodes)
    BY <1>2 DEF ParsedDeclaration
  <2>. HIDE DEF nodes
  <2>. QED
    BY <2>2, <2>5, <2>6, CollectedFacts, GotoOnTyped
<1>3. CASE parse_declaration
  <2>1. Reached("declaration")
    BY <1>3 DEF parse_declaration
  <2>2. ctl.tag = "at" /\ ctl.point = "declaration"
    BY <2>1, ReachedTyped
  <2>. QED
    BY <1>3, <2>2, EnterTyped DEF parse_declaration
<1>4. CASE DeclarationEnds
  <2>1. Returned("declaration") /\ ~HadError
    BY <1>4 DEF DeclarationEnds, Quietly
  <2>2. /\ ctl.tag = "return" /\ stack # <<>> /\ Top.fn = "declaration"
        /\ Top.depth \in Nat
        /\ IsNode(WaitsFor("declaration"), ctl.node, Top.depth + Opens(Top))
    BY <2>1, ReturnedTyped
  <2>3. Opens(Top) = 0
    BY <2>2 DEF Opens
  <2>4. IsNode("statement", ctl.node, Top.depth)
    BY <2>2, <2>3
  <2>5. Yield(Tail(stack), current, ctl.node)
    BY <1>4, <2>1, <2>2, ReturnFacts DEF DeclarationEnds
  <2>. QED
    BY <2>2, <2>4, <2>5, YieldOnTyped
<1>5. CASE parser_synchronize
  BY <1>5, AtFacts DEF parser_synchronize, Reached, Quietly
<1>6. CASE parse_statement
  <2>1. Reached("statement")
    BY <1>6 DEF parse_statement
  <2>2. ctl.tag = "at" /\ ctl.point = "statement"
    BY <2>1, ReachedTyped
  <2>3. CASE parser_match(Keywords) /\ Goto(stack, parser_advance, parser_peek.type, <<>>)
    <3>1. parser_peek.type \in Keywords
      BY <2>3 DEF parser_match, parser_check
    <3>. QED
      BY <2>2, <2>3, <3>1, CollectedFacts, GotoTyped
  <2>4. CASE Call(stack, parser_advance, "block_statement", <<>>, "block")
    BY <2>2, <2>4, EnterTyped
  <2>5. CASE Goto(stack, current, "expression_statement", <<>>)
    BY <2>2, <2>5, CollectedFacts, GotoTyped
  <2>. QED
    BY <1>6, <2>3, <2>4, <2>5 DEF parse_statement
<1>7. CASE BlockStatement
  <2>1. Returned("block_statement")
    BY <1>7 DEF BlockStatement, Got
  <2>2. /\ ctl.tag = "return" /\ stack # <<>> /\ Top.fn = "block_statement"
        /\ Top.depth \in Nat /\ Inside(Tail(stack)) = Top.depth
        /\ IsNode(WaitsFor("block_statement"), ctl.node, Top.depth + Opens(Top))
    BY <2>1, ReturnedTyped
  <2>3. Opens(Top) = 1
    BY <2>2 DEF Opens
  <2>4. ctl.node.statements \in Seq(StatementsAt(Top.depth + 1))
    BY <2>2, <2>3, ListYields
  <2>5. Yield(Tail(stack), current, Placed(stmt_new_block(ctl.node.statements), Top.depth))
    BY <1>7, <2>2 DEF BlockStatement, YieldStatement
  <2>6. IsNode("statement", Placed(stmt_new_block(ctl.node.statements), Top.depth), Top.depth)
    BY <2>2, <2>4, StatementsBuilt, NodeKinds
  <2>. QED
    BY <2>2, <2>5, <2>6, YieldOnTyped
<1>8. CASE parse_block
  <2>1. Reached("block")
    BY <1>8 DEF parse_block
  <2>2. /\ ctl.tag = "at" /\ ctl.point = "block" /\ Inside(stack) \in Nat /\ stack # <<>>
        /\ Collected("block", ctl.nodes, Inside(stack))
    BY <2>1, ReachedTyped
  <2>3. CASE Yield(stack, parser_advance, stmt_list(ctl.nodes))
    <3>1. IsNode("list", stmt_list(ctl.nodes), Inside(stack))
      BY <2>2, CollectedFacts, NodeKinds
    <3>. QED
      BY <2>2, <2>3, <3>1, YieldTyped
  <2>4. CASE Call(stack, current, "block", ctl.nodes, "declaration")
    BY <2>2, <2>4, CollectedFacts, CallTyped
  <2>. QED
    BY <1>8, <2>3, <2>4, MissingReports DEF parse_block, parser_consume
<1>9. CASE BlockDeclaration
  <2>1. Returned("block")
    BY <1>9 DEF BlockDeclaration, Got
  <2>2. /\ ctl.tag = "return" /\ stack # <<>> /\ Top.fn = "block"
        /\ Held("block", Top.nodes, Top.depth)
        /\ Top.depth \in Nat
        /\ IsNode(WaitsFor("block"), ctl.node, Top.depth + Opens(Top))
    BY <2>1, ReturnedTyped
  <2>3. Opens(Top) = 0
    BY <2>2 DEF Opens
  <2>4. ctl.node \in StatementsAt(Top.depth) /\ Top.nodes \in Seq(StatementsAt(Top.depth))
    BY <2>2, <2>3, NodeKinds, CollectedFacts
  <2> DEFINE nodes == Append(Top.nodes, ctl.node)
  <2>5. nodes \in Seq(StatementsAt(Top.depth))
    BY <2>4, Appended
  <2>6. Goto(Tail(stack), current, "block", nodes)
    BY <1>9 DEF BlockDeclaration
  <2>. HIDE DEF nodes
  <2>. QED
    BY <2>2, <2>5, <2>6, CollectedFacts, GotoOnTyped
<1>10. CASE PassOnNull
  BY <1>10, ReturnFacts DEF PassOnNull, Quietly
<1>. QED
  BY <1>1, <1>2, <1>3, <1>4, <1>5, <1>6, <1>7, <1>8, <1>9, <1>10

LEMMA GotExpression ==
  ASSUME ParserInv, Typed, NEW fn \in ExpressionWaits, Returned(fn)
  PROVE  /\ ctl.tag = "return" /\ stack # <<>> /\ Top.fn = fn
         /\ Held(fn, Top.nodes, Top.depth)
         /\ Top.depth \in Nat
         /\ Inside(Tail(stack)) = Top.depth
         /\ ctl.node \in Expressions
         /\ Collected(fn, Top.nodes, Top.depth)
BY ReturnedTyped, NodeKinds, Kinds DEF Held

LEMMA GotStatement ==
  ASSUME ParserInv, Typed, NEW fn \in {"if_then", "if_else", "while_body"}, Returned(fn)
  PROVE  /\ ctl.tag = "return" /\ stack # <<>> /\ Top.fn = fn
         /\ Collected(fn, Top.nodes, Top.depth)
         /\ Top.depth \in Nat
         /\ Inside(Tail(stack)) = Top.depth
         /\ ctl.node \in StatementsAt(Top.depth)
<1>1. WaitsFor(fn) = "statement"
  BY Kinds, LevelsAre DEF ExpressionWaits
<1>2. Top.fn = fn /\ Top.depth \in Nat /\ IsNode("statement", ctl.node, Top.depth + Opens(Top))
  BY <1>1, ReturnedTyped
<1>3. Opens(Top) = 0
  BY <1>2 DEF Opens
<1>4. IsNode("statement", ctl.node, Top.depth)
  BY <1>2, <1>3
<1>. QED
  BY <1>4, ReturnedTyped, NodeKinds, CollectedFacts

(* A statement is complete: ... *)
LEMMA StatementOver ==
  ASSUME ParserInv, Typed, ctl.tag = "return", stack # <<>>,
         Top.fn \notin ExpressionPoints \cup {"block", "parser_parse"},
         NEW p, NEW node \in StatementsAt(Top.depth), Yield(Tail(stack), p, node)
  PROVE  Typed'
<1>1. IsNode(Results(Top.fn), node, Top.depth)
  BY Kinds, NodeKinds
<1>. QED
  BY <1>1, YieldOnTyped

LEMMA StatementEnds ==
  ASSUME ParserInv, Typed, ~HadError', ctl.tag = "return", stack # <<>>,
         Top.fn \notin ExpressionPoints \cup {"block", "parser_parse"},
         NEW p, NEW type, NEW node \in StatementsAt(Top.depth),
         parser_consume(type, Tail(stack), Yield(Tail(stack), p, node))
  PROVE  Typed'
BY StatementOver, MissingReports DEF parser_consume

LEMMA SimpleStatementsKeepTrees ==
  ASSUME ParserInv, Typed, ~HadError',
         \/ parse_print_statement \/ PrintEnds \/ parse_expression_statement \/ ExpressionStatementEnds
         \/ parse_return_statement \/ ReturnEnds \/ parse_var_declaration \/ VarNamed \/ VarEnds
  PROVE  Typed'
<1>. USE LevelsAre, Kinds DEF ExpressionPoints, ExpressionWaits, Entries, Empty, Keywords
<1>1. CASE parse_print_statement
  BY <1>1, ReachedTyped, EnterTyped DEF parse_print_statement
<1>2. CASE PrintEnds
  BY <1>2, GotExpression, StatementsBuilt, StatementEnds DEF PrintEnds, Got, YieldStatement
<1>3. CASE parse_expression_statement
  BY <1>3, ReachedTyped, EnterTyped DEF parse_expression_statement
<1>4. CASE ExpressionStatementEnds
  BY <1>4, GotExpression, StatementsBuilt, StatementEnds DEF ExpressionStatementEnds, Got, YieldStatement
<1>5. CASE parse_return_statement
  <2>1. ctl.tag = "at" /\ ctl.point = "RETURN" /\ Inside(stack) \in Nat /\ stack # <<>>
    BY <1>5, ReachedTyped DEF parse_return_statement
  <2>2. CASE Yield(stack, parser_advance, Placed(stmt_new_return(NULL), Inside(stack)))
    <3>1. IsNode("statement", Placed(stmt_new_return(NULL), Inside(stack)), Inside(stack))
      BY <2>1, StatementsBuilt, NodeKinds
    <3>. QED
      BY <2>1, <2>2, <3>1, YieldTyped
  <2>3. CASE Call(stack, current, "return", <<>>, "assignment")
    BY <2>1, <2>3, EnterTyped
  <2>. QED
    BY <1>5, <2>2, <2>3 DEF parse_return_statement, YieldStatement
<1>6. CASE ReturnEnds
  BY <1>6, GotExpression, StatementsBuilt, StatementEnds DEF ReturnEnds, Got, YieldStatement
<1>7. CASE parse_var_declaration
  <2>1. ctl.tag = "at" /\ ctl.point = "var_declaration"
    BY <1>7, ReachedTyped DEF parse_var_declaration
  <2>2. parser_check("IDENTIFIER") /\ Goto(stack, parser_advance, "var_named", <<parser_peek.lexeme>>)
    BY <1>7, MissingReports DEF parse_var_declaration, parser_consume
  <2>3. parser_peek.lexeme \in Identifiers
    BY <2>2 DEF ParserInv, parser_check, parser_peek, Identifiers
  <2>4. Collected("var_named", <<parser_peek.lexeme>>, Inside(stack))
    BY <2>3, CollectedFacts
  <2>. QED
    BY <2>1, <2>2, <2>4, GotoTyped
<1>8. CASE VarNamed
  <2>1. /\ ctl.tag = "at" /\ ctl.point = "var_named" /\ Inside(stack) \in Nat /\ stack # <<>>
        /\ Collected("var_named", ctl.nodes, Inside(stack))
    BY <1>8, ReachedTyped DEF VarNamed
  <2>2. PICK x \in Identifiers : ctl.nodes = <<x>>
    BY <2>1, CollectedFacts
  <2>3. CASE Call(stack, parser_advance, "var", ctl.nodes, "assignment")
    <3>1. Held("var", ctl.nodes, Inside(stack))
      BY <2>2, CollectedFacts
    <3>. QED
      BY <2>1, <2>3, <3>1, CallTyped
  <2>4. CASE Yield(stack, parser_advance, Placed(stmt_new_var(ctl.nodes[1], NULL), Inside(stack)))
    <3>1. IsNode("statement", Placed(stmt_new_var(ctl.nodes[1], NULL), Inside(stack)), Inside(stack))
      BY <2>1, <2>2, StatementsBuilt, NodeKinds
    <3>. QED
      BY <2>1, <2>4, <3>1, YieldTyped
  <2>. QED
    BY <1>8, <2>3, <2>4, MissingReports DEF VarNamed, parser_consume, YieldStatement
<1>9. CASE VarEnds
  <2>1. /\ ctl.tag = "return" /\ stack # <<>> /\ Top.fn = "var" /\ Collected("var", Top.nodes, Top.depth)
        /\ Top.depth \in Nat /\ Inside(Tail(stack)) = Top.depth /\ ctl.node \in Expressions
    BY <1>9, GotExpression DEF VarEnds, Got
  <2>2. PICK x \in Identifiers : Top.nodes = <<x>>
    BY <2>1, CollectedFacts
  <2>3. Placed(stmt_new_var(Top.nodes[1], ctl.node), Top.depth) \in StatementsAt(Top.depth)
    BY <2>1, <2>2, StatementsBuilt
  <2>. QED
    BY <1>9, <2>1, <2>3, StatementEnds DEF VarEnds, YieldStatement
<1>. QED
  BY <1>1, <1>2, <1>3, <1>4, <1>5, <1>6, <1>7, <1>8, <1>9

LEMMA Pairs ==
  ASSUME NEW S, NEW s \in Seq(S), NEW t \in Seq(S), Len(s) = 2, Len(t) = 2, s[1] = t[1], s[2] = t[2]
  PROVE  s = t
BY SeqEqual

LEMMA Triples ==
  ASSUME NEW S, NEW s \in Seq(S), NEW t \in Seq(S), Len(s) = 3, Len(t) = 3,
         s[1] = t[1], s[2] = t[2], s[3] = t[3]
  PROVE  s = t
BY SeqEqual

LEMMA Appending ==
  ASSUME NEW x, NEW y, NEW z, NEW nodes
  PROVE  /\ nodes = <<x>> => Append(nodes, y) = <<x, y>>
         /\ nodes = <<x, y>> => Append(nodes, z) = <<x, y, z>>
<1> DEFINE S == {x, y, z}
           l == Append(<<x>>, y)
           m == <<x, y>>
           n == Append(<<x, y>>, z)
           o == <<x, y, z>>
<1>1. /\ l \in Seq(S) /\ Len(l) = 2 /\ l[1] = x /\ l[2] = y
      /\ m \in Seq(S) /\ Len(m) = 2 /\ m[1] = x /\ m[2] = y
  OBVIOUS
<1>2. /\ n \in Seq(S) /\ Len(n) = 3 /\ n[1] = x /\ n[2] = y /\ n[3] = z
      /\ o \in Seq(S) /\ Len(o) = 3 /\ o[1] = x /\ o[2] = y /\ o[3] = z
  OBVIOUS
<1>. HIDE DEF l, m, n, o, S
<1>3. l = m
  BY <1>1, Pairs
<1>4. n = o
  BY <1>2, Triples
<1>. QED
  BY <1>3, <1>4 DEF l, m, n, o

(* The loop that is written for a for statement. *)
LEMMA DesugaredBuilt ==
  ASSUME NEW d \in Nat, NEW i \in Initializers(d), NEW c \in Clauses, NEW u \in Clauses,
         NEW body \in StatementsAt(d + Opened(i) + Opened(u))
  PROVE  Desugared(d, i, c, u, body) \in StatementsAt(d)
<1> DEFINE inner == d + Opened(i)
           cond == IF c = NULL THEN expr_new_literal(OBJECT_BOOL(TRUE)) ELSE c
           step == Placed(stmt_new_expression(u), inner + 1)
           turn == IF u = NULL THEN body ELSE Placed(stmt_new_block(<<body, step>>), inner)
           loop == Placed(stmt_new_while(cond, turn), inner)
<1>1. inner \in Nat
  BY DEF Opened
<1>2. cond \in Expressions
  BY ExpressionsBuilt DEF Clauses, Constants
<1>3. turn \in StatementsAt(inner)
  <2>1. CASE u = NULL
    <3>1. d + Opened(i) + Opened(u) = inner
      BY <1>1, <2>1 DEF Opened
    <3>. QED
      BY <2>1, <3>1
  <2>2. CASE u # NULL
    <3>1. d + Opened(i) + Opened(u) = inner + 1 /\ inner + 1 \in Nat
      BY <1>1, <2>2 DEF Opened
    <3>2. step \in StatementsAt(inner + 1)
      BY <2>2, <3>1, StatementsBuilt DEF Clauses
    <3>. HIDE DEF inner, step
    <3>3. <<body, step>> \in Seq(StatementsAt(inner + 1))
      BY <3>1, <3>2
    <3>. QED
      BY <1>1, <2>2, <3>3, StatementsBuilt
  <2>. QED
    BY <2>1, <2>2
<1>. HIDE DEF cond, turn
<1>4. loop \in StatementsAt(inner)
  BY <1>1, <1>2, <1>3, StatementsBuilt
<1>5. CASE i = NULL
  <2>1. inner = d
    BY <1>5 DEF Opened
  <2>2. Desugared(d, i, c, u, body) = loop
    BY <1>5 DEF Desugared, cond, turn
  <2>. QED
    BY <1>4, <2>1, <2>2
<1>6. CASE i # NULL
  <2>1. inner = d + 1 /\ i \in StatementsAt(d + 1)
    BY <1>6 DEF Opened, Initializers
  <2>2. Desugared(d, i, c, u, body) = Placed(stmt_new_block(<<i, loop>>), d)
    BY <1>6 DEF Desugared, cond, turn
  <2>. HIDE DEF inner, loop
  <2>3. <<i, loop>> \in Seq(StatementsAt(d + 1))
    BY <1>4, <2>1
  <2>. QED
    BY <2>2, <2>3, StatementsBuilt
<1>. QED
  BY <1>5, <1>6

LEMMA BranchesKeepTrees ==
  ASSUME ParserInv, Typed, ~HadError',
         \/ parse_if_statement \/ IfCondition \/ IfThen \/ IfElse
         \/ parse_while_statement \/ WhileCondition \/ WhileBody
  PROVE  Typed'
<1>. USE LevelsAre, Kinds DEF ExpressionPoints, ExpressionWaits, Entries, Empty, Keywords
<1>1. CASE parse_if_statement
  BY <1>1, ReachedTyped, EnterTyped, MissingReports DEF parse_if_statement, parser_consume
<1>2. CASE IfCondition
  <2>1. /\ ctl.tag = "return" /\ stack # <<>> /\ Top.fn = "if_condition" /\ ctl.node \in Expressions
        /\ Call(Tail(stack), parser_advance, "if_then", <<ctl.node>>, "statement")
    BY <1>2, GotExpression, MissingReports DEF IfCondition, Got, parser_consume
  <2>2. Held("if_then", <<ctl.node>>, Top.depth)
    BY <2>1, CollectedFacts
  <2>. QED
    BY <2>1, <2>2, CallOnTyped
<1>3. CASE IfThen
  <2>1. /\ ctl.tag = "return" /\ stack # <<>> /\ Top.fn = "if_then" /\ Top.depth \in Nat
        /\ Inside(Tail(stack)) = Top.depth /\ ctl.node \in StatementsAt(Top.depth)
        /\ Collected("if_then", Top.nodes, Top.depth)
    BY <1>3, GotStatement DEF IfThen, Got
  <2>2. PICK e \in Expressions : Top.nodes = <<e>>
    BY <2>1, CollectedFacts
  <2>3. CASE Call(Tail(stack), parser_advance, "if_else", Append(Top.nodes, ctl.node), "statement")
    <3>1. Append(Top.nodes, ctl.node) = <<e, ctl.node>>
      BY <2>2, Appending
    <3>2. Held("if_else", Append(Top.nodes, ctl.node), Top.depth)
      BY <2>1, <3>1, CollectedFacts
    <3>. QED
      BY <2>1, <2>3, <3>2, CallOnTyped
  <2>4. CASE YieldStatement(Tail(stack), current, stmt_new_if(Top.nodes[1], ctl.node, NULL))
    <3>1. Placed(stmt_new_if(Top.nodes[1], ctl.node, NULL), Top.depth) \in StatementsAt(Top.depth)
      BY <2>1, <2>2, StatementsBuilt
    <3>. QED
      BY <2>1, <2>4, <3>1, StatementOver DEF YieldStatement
  <2>. QED
    BY <1>3, <2>3, <2>4 DEF IfThen
<1>4. CASE IfElse
  <2>1. /\ ctl.tag = "return" /\ stack # <<>> /\ Top.fn = "if_else" /\ Top.depth \in Nat
        /\ Inside(Tail(stack)) = Top.depth /\ ctl.node \in StatementsAt(Top.depth)
        /\ Collected("if_else", Top.nodes, Top.depth)
    BY <1>4, GotStatement DEF IfElse, Got
  <2>2. PICK e \in Expressions, s \in StatementsAt(Top.depth) : Top.nodes = <<e, s>>
    BY <2>1, CollectedFacts
  <2>3. Placed(stmt_new_if(Top.nodes[1], Top.nodes[2], ctl.node), Top.depth) \in StatementsAt(Top.depth)
    BY <2>1, <2>2, StatementsBuilt
  <2>. QED
    BY <1>4, <2>1, <2>3, StatementOver DEF IfElse, YieldStatement
<1>5. CASE parse_while_statement
  BY <1>5, ReachedTyped, EnterTyped, MissingReports DEF parse_while_statement, parser_consume
<1>6. CASE WhileCondition
  <2>1. /\ ctl.tag = "return" /\ stack # <<>> /\ Top.fn = "while_condition" /\ ctl.node \in Expressions
        /\ Call(Tail(stack), parser_advance, "while_body", <<ctl.node>>, "statement")
    BY <1>6, GotExpression, MissingReports DEF WhileCondition, Got, parser_consume
  <2>2. Held("while_body", <<ctl.node>>, Top.depth)
    BY <2>1, CollectedFacts
  <2>. QED
    BY <2>1, <2>2, CallOnTyped
<1>7. CASE WhileBody
  <2>1. /\ ctl.tag = "return" /\ stack # <<>> /\ Top.fn = "while_body" /\ Top.depth \in Nat
        /\ Inside(Tail(stack)) = Top.depth /\ ctl.node \in StatementsAt(Top.depth)
        /\ Collected("while_body", Top.nodes, Top.depth)
    BY <1>7, GotStatement DEF WhileBody, Got
  <2>2. PICK e \in Expressions : Top.nodes = <<e>>
    BY <2>1, CollectedFacts
  <2>3. Placed(stmt_new_while(Top.nodes[1], ctl.node), Top.depth) \in StatementsAt(Top.depth)
    BY <2>1, <2>2, StatementsBuilt
  <2>. QED
    BY <1>7, <2>1, <2>3, StatementOver DEF WhileBody, YieldStatement
<1>. QED
  BY <1>1, <1>2, <1>3, <1>4, <1>5, <1>6, <1>7

LEMMA LoopsForKeepTrees ==
  ASSUME ParserInv, Typed, ~HadError',
         \/ parse_for_statement \/ ForClauses \/ ForInitializer \/ ForInitialized
         \/ ForCondition \/ ForConditioned \/ ForIncrement \/ ForBody
  PROVE  Typed'
<1>. USE LevelsAre, Kinds DEF ExpressionPoints, ExpressionWaits, Entries, Empty, Keywords
<1>1. CASE parse_for_statement
  <2>1. /\ ctl.tag = "at" /\ ctl.point = "FOR"
        /\ Goto(stack, parser_advance, "for_clauses", <<>>)
    BY <1>1, ReachedTyped, MissingReports DEF parse_for_statement, parser_consume
  <2>2. Collected("for_clauses", <<>>, Inside(stack))
    BY CollectedFacts
  <2>. QED
    BY <2>1, <2>2, GotoTyped
<1>2. CASE ForClauses
  <2>1. ctl.tag = "at" /\ ctl.point = "for_clauses"
    BY <1>2, ReachedTyped DEF ForClauses
  <2>2. CASE Goto(stack, parser_advance, "for_initialized", <<NULL>>)
    <3>1. Collected("for_initialized", <<NULL>>, Inside(stack))
      BY CollectedFacts DEF Initializers
    <3>. QED
      BY <2>1, <2>2, <3>1, GotoTyped
  <2>3. CASE Call(stack, parser_advance, "for_initializer", <<>>, "var_declaration")
    BY <2>1, <2>3, EnterTyped
  <2>4. CASE Call(stack, current, "for_initializer", <<>>, "expression_statement")
    BY <2>1, <2>4, EnterTyped
  <2>. QED
    BY <1>2, <2>2, <2>3, <2>4 DEF ForClauses
<1>3. CASE ForInitializer
  <2>1. /\ ctl.tag = "return" /\ stack # <<>> /\ Top.fn = "for_initializer" /\ Top.depth \in Nat
        /\ IsNode("statement", ctl.node, Top.depth + Opens(Top))
    BY <1>3, ReturnedTyped DEF ForInitializer, Got
  <2>2. Opens(Top) = 1
    BY <2>1 DEF Opens
  <2>3. ctl.node \in Initializers(Top.depth)
    BY <2>1, <2>2, NodeKinds DEF Initializers
  <2>4. Collected("for_initialized", <<ctl.node>>, Top.depth)
    BY <2>3, CollectedFacts
  <2>. QED
    BY <1>3, <2>1, <2>4, GotoOnTyped DEF ForInitializer
<1>4. CASE ForInitialized
  <2>1. /\ ctl.tag = "at" /\ ctl.point = "for_initialized"
        /\ Collected("for_initialized", ctl.nodes, Inside(stack))
    BY <1>4, ReachedTyped DEF ForInitialized
  <2>2. PICK i \in Initializers(Inside(stack)) : ctl.nodes = <<i>>
    BY <2>1, CollectedFacts
  <2>3. CASE Goto(stack, parser_advance, "for_conditioned", Append(ctl.nodes, NULL))
    <3>1. Append(ctl.nodes, NULL) = <<i, NULL>> /\ NULL \in Clauses
      BY <2>2, Appending DEF Clauses
    <3>2. Collected("for_conditioned", Append(ctl.nodes, NULL), Inside(stack))
      BY <3>1, CollectedFacts
    <3>. QED
      BY <2>1, <2>3, <3>2, GotoTyped
  <2>4. CASE Call(stack, current, "for_condition", ctl.nodes, "assignment")
    <3>1. Held("for_condition", ctl.nodes, Inside(stack))
      BY <2>2, CollectedFacts
    <3>. QED
      BY <2>1, <2>4, <3>1, CallTyped
  <2>. QED
    BY <1>4, <2>3, <2>4 DEF ForInitialized
<1>5. CASE ForCondition
  <2>1. /\ ctl.tag = "return" /\ stack # <<>> /\ Top.fn = "for_condition" /\ ctl.node \in Expressions
        /\ Collected("for_condition", Top.nodes, Top.depth)
        /\ Goto(Tail(stack), parser_advance, "for_conditioned", Append(Top.nodes, ctl.node))
    BY <1>5, GotExpression, MissingReports DEF ForCondition, Got, parser_consume
  <2>2. PICK i \in Initializers(Top.depth) : Top.nodes = <<i>>
    BY <2>1, CollectedFacts
  <2>3. Append(Top.nodes, ctl.node) = <<i, ctl.node>> /\ ctl.node \in Clauses
    BY <2>1, <2>2, Appending DEF Clauses
  <2>4. Collected("for_conditioned", Append(Top.nodes, ctl.node), Top.depth)
    BY <2>3, CollectedFacts
  <2>. QED
    BY <2>1, <2>4, GotoOnTyped
<1>6. CASE ForConditioned
  <2>1. /\ ctl.tag = "at" /\ ctl.point = "for_conditioned"
        /\ Collected("for_conditioned", ctl.nodes, Inside(stack))
    BY <1>6, ReachedTyped DEF ForConditioned
  <2>2. PICK i \in Initializers(Inside(stack)), c \in Clauses : ctl.nodes = <<i, c>>
    BY <2>1, CollectedFacts
  <2>3. CASE Call(stack, parser_advance, "for_body", Append(ctl.nodes, NULL), "statement")
    <3>1. Append(ctl.nodes, NULL) = <<i, c, NULL>> /\ NULL \in Clauses
      BY <2>2, Appending DEF Clauses
    <3>2. Held("for_body", Append(ctl.nodes, NULL), Inside(stack))
      BY <3>1, CollectedFacts
    <3>. QED
      BY <2>1, <2>3, <3>2, CallTyped
  <2>4. CASE Call(stack, current, "for_increment", ctl.nodes, "assignment")
    <3>1. Held("for_increment", ctl.nodes, Inside(stack))
      BY <2>2, CollectedFacts
    <3>. QED
      BY <2>1, <2>4, <3>1, CallTyped
  <2>. QED
    BY <1>6, <2>3, <2>4 DEF ForConditioned
<1>7. CASE ForIncrement
  <2>1. /\ ctl.tag = "return" /\ stack # <<>> /\ Top.fn = "for_increment" /\ ctl.node \in Expressions
        /\ Collected("for_increment", Top.nodes, Top.depth)
        /\ Call(Tail(stack), parser_advance, "for_body", Append(Top.nodes, ctl.node), "statement")
    BY <1>7, GotExpression, MissingReports DEF ForIncrement, Got, parser_consume
  <2>2. PICK i \in Initializers(Top.depth), c \in Clauses : Top.nodes = <<i, c>>
    BY <2>1, CollectedFacts
  <2>3. Append(Top.nodes, ctl.node) = <<i, c, ctl.node>> /\ ctl.node \in Clauses
    BY <2>1, <2>2, Appending DEF Clauses
  <2>4. Held("for_body", Append(Top.nodes, ctl.node), Top.depth)
    BY <2>3, CollectedFacts
  <2>. QED
    BY <2>1, <2>4, CallOnTyped
<1>8. CASE ForBody
  <2>1. /\ ctl.tag = "return" /\ stack # <<>> /\ Top.fn = "for_body" /\ Top.depth \in Nat
        /\ Collected("for_body", Top.nodes, Top.depth) /\ Inside(Tail(stack)) = Top.depth
        /\ IsNode("statement", ctl.node, Top.depth + Opens(Top))
    BY <1>8, ReturnedTyped DEF ForBody, Got, Held
  <2>2. PICK i \in Initializers(Top.depth), c \in Clauses, u \in Clauses : Top.nodes = <<i, c, u>>
    BY <2>1, CollectedFacts
  <2>3. Opens(Top) = Opened(i) + Opened(u)
    BY <2>1, <2>2 DEF Opens
  <2>4. Top.depth + Opens(Top) = Top.depth + Opened(i) + Opened(u)
    BY <2>1, <2>3 DEF Opened
  <2>5. Desugared(Top.depth, i, c, u, ctl.node) \in StatementsAt(Top.depth)
    BY <2>1, <2>4, NodeKinds, DesugaredBuilt
  <2>6. Yield(Tail(stack), current, Desugared(Top.depth, i, c, u, ctl.node))
    BY <1>8, <2>1, <2>2 DEF ForBody
  <2>. QED
    BY <2>1, <2>5, <2>6, StatementOver
<1>. QED
  BY <1>1, <1>2, <1>3, <1>4, <1>5, <1>6, <1>7, <1>8

LEMMA Heads ==
  ASSUME NEW x, NEW S, NEW l \in Seq(S)
  PROVE  Head(<<x>> \o l) = x /\ Tail(<<x>> \o l) = l
<1> DEFINE T == S \cup {x}
           s == <<x>> \o l
<1>1. s \in Seq(T) /\ s # <<>> /\ Len(s) = Len(l) + 1 /\ s[1] = x /\ \A n \in 1 .. Len(l) : s[n + 1] = l[n]
  OBVIOUS
<1>2. l \in Seq(T)
  OBVIOUS
<1>. HIDE DEF s, T
<1>3. /\ Head(s) = x /\ Tail(s) \in Seq(T) /\ Len(Tail(s)) = Len(l)
      /\ \A n \in 1 .. Len(l) : Tail(s)[n] = s[n + 1]
  BY <1>1
<1>4. Tail(s) = l
  BY <1>1, <1>2, <1>3, SeqEqual
<1>. QED
  BY <1>3, <1>4 DEF s

LEMMA Joining ==
  ASSUME NEW x, NEW S, NEW l \in Seq(S), NEW y \in S, NEW nodes, nodes = <<x>> \o l
  PROVE  Append(nodes, y) = <<x>> \o Append(l, y) /\ Append(l, y) \in Seq(S)
<1> DEFINE T == S \cup {x}
           s == <<x>> \o l
           a == Append(l, y)
           b == Append(s, y)
           c == <<x>> \o a
<1>1. a \in Seq(S) /\ Len(a) = Len(l) + 1 /\ \A n \in 1 .. Len(a) : a[n] = IF n = Len(a) THEN y ELSE l[n]
  OBVIOUS
<1>2. /\ s \in Seq(T) /\ Len(s) = Len(l) + 1 /\ y \in T /\ Len(l) \in Nat
      /\ s[1] = x /\ \A n \in 1 .. Len(l) : s[n + 1] = l[n]
  OBVIOUS
<1>. HIDE DEF s, a, T
<1>3. b \in Seq(T) /\ Len(b) = Len(s) + 1 /\ \A n \in 1 .. Len(b) : b[n] = IF n = Len(b) THEN y ELSE s[n]
  BY <1>2
<1>4. c \in Seq(T) /\ Len(c) = Len(a) + 1 /\ c[1] = x /\ \A n \in 1 .. Len(a) : c[n + 1] = a[n]
  <2>1. a \in Seq(T) /\ x \in T
    BY <1>1 DEF T
  <2>. QED
    BY <2>1
<1>. HIDE DEF b, c
<1>5. ASSUME NEW n \in 1 .. Len(b)
      PROVE  b[n] = c[n]
  <2>1. CASE n = 1
    BY <1>1, <1>2, <1>3, <1>4, <2>1
  <2>2. CASE n # 1
    <3>1. n - 1 \in 1 .. Len(a) /\ (n - 1) + 1 = n /\ Len(a) \in Nat
      BY <1>1, <1>2, <1>3, <2>2
    <3>2. c[n] = a[n - 1]
      BY <1>4, <3>1
    <3>3. CASE n = Len(b)
      BY <1>1, <1>2, <1>3, <3>1, <3>2, <3>3
    <3>4. CASE n # Len(b)
      <4>1. n - 1 \in 1 .. Len(l) /\ n - 1 # Len(a)
        BY <1>1, <1>2, <1>3, <3>1, <3>4
      <4>2. b[n] = s[(n - 1) + 1]
        BY <1>3, <3>1, <3>4
      <4>. QED
        BY <1>1, <1>2, <3>1, <3>2, <4>1, <4>2
    <3>. QED
      BY <3>3, <3>4
  <2>. QED
    BY <2>1, <2>2
<1>6. b = c
  BY <1>1, <1>2, <1>3, <1>4, <1>5, SeqEqual
<1>. QED
  BY <1>1, <1>6 DEF a, b, c, s

(* The points of a function declaration, each with what the one before has. *)
LEMMA FunctionGoesOn ==
  ASSUME ParserInv, Typed, NEW from \in FunctionPoints, Reached(from), NEW to \in FunctionPoints, NEW p,
         Goto(stack, p, to, ctl.nodes)
  PROVE  Typed'
<1>1. /\ ctl.tag = "at" /\ ctl.point = from
      /\ Collected(from, ctl.nodes, Inside(stack))
  BY ReachedTyped
<1>2. Collected(to, ctl.nodes, Inside(stack))
  BY <1>1, CollectedFacts
<1>3. Results(from) = "statement" /\ Results(to) = "statement"
  BY Kinds, LevelsAre DEF ExpressionPoints, FunctionPoints, ParameterPoints
<1>. QED
  BY <1>1, <1>2, <1>3, GotoTyped

LEMMA FunctionsKeepTrees ==
  ASSUME ParserInv, Typed, ~HadError',
         \/ parse_function \/ FunctionNamed \/ FunctionParameters \/ FunctionParameter
         \/ FunctionParameterEnd \/ FunctionClose \/ FunctionClosed \/ FunctionBody
  PROVE  Typed'
<1>. USE LevelsAre, Kinds DEF ExpressionPoints, ExpressionWaits, Entries, Empty, Keywords
<1>. USE DEF FunctionPoints, ParameterPoints
<1>1. CASE parse_function
  <2>1. ctl.tag = "at" /\ ctl.point = "function"
    BY <1>1, ReachedTyped DEF parse_function
  <2>2. parser_check("IDENTIFIER") /\ Goto(stack, parser_advance, "function_named", <<parser_peek>>)
    BY <1>1, MissingReports DEF parse_function, parser_consume
  <2>3. parser_peek \in Tokens /\ parser_peek.type = "IDENTIFIER"
    BY <2>2 DEF ParserInv, parser_check, parser_peek
  <2>4. Declaring(<<parser_peek>>)
    BY <2>3, NameDeclares
  <2>5. Collected("function_named", <<parser_peek>>, Inside(stack))
    BY <2>4, CollectedFacts
  <2>. QED
    BY <2>1, <2>2, <2>5, GotoTyped
<1>2. CASE FunctionNamed
  BY <1>2, FunctionGoesOn, MissingReports DEF FunctionNamed, parser_consume
<1>3. CASE FunctionParameters
  BY <1>3, FunctionGoesOn DEF FunctionParameters
<1>4. CASE FunctionParameter
  <2>1. /\ ctl.tag = "at" /\ ctl.point = "parameter"
        /\ Collected("parameter", ctl.nodes, Inside(stack))
    BY <1>4, ReachedTyped DEF FunctionParameter
  <2>2. parser_check("IDENTIFIER")
        /\ Goto(stack, parser_advance, "parameter_end", Append(ctl.nodes, parser_peek.lexeme))
    BY <1>4, MissingReports DEF FunctionParameter
  <2>3. parser_peek.lexeme \in Identifiers
    BY <2>2 DEF ParserInv, parser_check, parser_peek, Identifiers
  <2>9. Declaring(ctl.nodes)
    BY <2>1, CollectedFacts
  <2>4. PICK t \in Tokens, l \in Seq(Identifiers) : t.type = "IDENTIFIER" /\ ctl.nodes = <<t>> \o l
    BY <2>9 DEF Declaring
  <2> DEFINE nodes == Append(ctl.nodes, parser_peek.lexeme)
  <2>5. nodes = <<t>> \o Append(l, parser_peek.lexeme) /\ Append(l, parser_peek.lexeme) \in Seq(Identifiers)
    BY <2>3, <2>4, Joining
  <2>. HIDE DEF nodes
  <2>10. Declaring(nodes)
    BY <2>4, <2>5 DEF Declaring
  <2>6. Collected("parameter_end", nodes, Inside(stack))
    BY <2>10, CollectedFacts
  <2>. QED
    BY <2>1, <2>2, <2>6, GotoTyped DEF nodes
<1>5. CASE FunctionParameterEnd
  BY <1>5, FunctionGoesOn DEF FunctionParameterEnd
<1>6. CASE FunctionClose
  BY <1>6, FunctionGoesOn, MissingReports DEF FunctionClose, parser_consume
<1>7. CASE FunctionClosed
  <2>1. /\ ctl.tag = "at" /\ ctl.point = "function_closed"
        /\ Collected("function_closed", ctl.nodes, Inside(stack))
    BY <1>7, ReachedTyped DEF FunctionClosed
  <2>2. Held("function_body", ctl.nodes, Inside(stack))
    BY <2>1, CollectedFacts
  <2>. QED
    BY <1>7, <2>1, <2>2, CallTyped, MissingReports DEF FunctionClosed, parser_consume
<1>8. CASE FunctionBody
  <2>1. /\ ctl.tag = "return" /\ stack # <<>> /\ Top.fn = "function_body" /\ Top.depth \in Nat
        /\ Collected("function_body", Top.nodes, Top.depth) /\ Inside(Tail(stack)) = Top.depth
        /\ IsNode("list", ctl.node, Top.depth + Opens(Top))
    BY <1>8, ReturnedTyped DEF FunctionBody, Held
  <2>2. Opens(Top) = 1
    BY <2>1 DEF Opens
  <2>3. ctl.node # NULL /\ ctl.node.statements \in Seq(StatementsAt(Top.depth + 1))
    BY <2>1, <2>2, ListYields
  <2>9. Declaring(Top.nodes)
    BY <2>1, CollectedFacts
  <2>4. PICK t \in Tokens, l \in Seq(Identifiers) : t.type = "IDENTIFIER" /\ Top.nodes = <<t>> \o l
    BY <2>9 DEF Declaring
  <2>5. Head(Top.nodes) = t /\ Tail(Top.nodes) = l
    BY <2>4, Heads
  <2>6. t.at \in Addresses /\ t.lexeme \in Identifiers
    BY <2>4 DEF Addresses, Identifiers
  <2> DEFINE node == Placed(stmt_new_function(t.at, t.lexeme, l, ctl.node.statements), Top.depth)
  <2>7. node \in StatementsAt(Top.depth)
    BY <2>1, <2>3, <2>6, StatementsBuilt
  <2>8. Yield(Tail(stack), current, node)
    BY <1>8, <2>1, <2>3, <2>5 DEF FunctionBody, YieldStatement
  <2>. HIDE DEF node
  <2>. QED
    BY <2>1, <2>7, <2>8, StatementOver
<1>. QED
  BY <1>1, <1>2, <1>3, <1>4, <1>5, <1>6, <1>7, <1>8

-----------------------------------------------------------------------------
LEMMA ExpressionOver ==
  ASSUME ParserInv, Typed, ctl.tag = "return", stack # <<>>, Top.fn \in ExpressionPoints,
         NEW p, NEW node \in Expressions, Yield(Tail(stack), p, node)
  PROVE  Typed'
<1>1. IsNode(Results(Top.fn), node, Top.depth) /\ Top.fn # "parser_parse"
  BY Kinds, NodeKinds, LevelsAre DEF ExpressionPoints
<1>. QED
  BY <1>1, YieldOnTyped

LEMMA VariableNames ==
  ASSUME NEW e \in Expressions, e.type = "variable"
  PROVE  e.name \in Identifiers
BY TreesAreOver DEF ExpressionsOver

LEMMA OperandsAre ==
  /\ \A level \in Levels : Operand[level] \in Entries /\ Operand[level] \in ExpressionPoints
  /\ \A level \in Levels : level \in ExpressionPoints /\ level \in ExpressionWaits /\ level # "unary"
BY LevelsAre DEF Operand, Entries, ExpressionPoints, ExpressionWaits

LEMMA PeekFacts ==
  ASSUME ParserInv
  PROVE  parser_peek \in Tokens /\ parser_peek.lexeme \in Lexemes
BY DEF ParserInv, parser_peek, Lexemes

LEMMA OperatorsKeepTrees ==
  ASSUME ParserInv, Typed, ~HadError',
         \/ parse_assignment \/ AssignmentTarget \/ AssignmentValue
         \/ BinaryLevel \/ BinaryOperand \/ parse_unary \/ UnaryOperand
  PROVE  Typed'
<1>. USE LevelsAre, Kinds DEF ExpressionPoints, ExpressionWaits, Entries, Empty, Keywords
<1>1. CASE parse_assignment
  BY <1>1, ReachedTyped, EnterTyped DEF parse_assignment
<1>2. CASE AssignmentTarget
  <2>1. ctl.tag = "return" /\ stack # <<>> /\ Top.fn = "assignment" /\ ctl.node \in Expressions
    BY <1>2, GotExpression DEF AssignmentTarget
  <2>2. CASE Call(Tail(stack), parser_advance, "assignment_value", <<ctl.node>>, "assignment")
    <3>1. Held("assignment_value", <<ctl.node>>, Top.depth)
      BY <2>1, CollectedFacts
    <3>. QED
      BY <2>1, <2>2, <3>1, CallOnTyped
  <2>3. CASE Yield(Tail(stack), current, ctl.node)
    BY <2>1, <2>3, ExpressionOver
  <2>. QED
    BY <1>2, <2>2, <2>3 DEF AssignmentTarget
<1>3. CASE AssignmentValue
  <2>1. /\ ctl.tag = "return" /\ stack # <<>> /\ Top.fn = "assignment_value" /\ ctl.node \in Expressions
        /\ Collected("assignment_value", Top.nodes, Top.depth)
    BY <1>3, GotExpression DEF AssignmentValue
  <2>2. PICK e \in Expressions : Top.nodes = <<e>>
    BY <2>1, CollectedFacts
  <2>3. CASE e = NULL
    BY <2>2, <2>3, TreesAreOver DEF ExpressionsOver, NULL
  <2>4. CASE e # NULL
    <3>1. e.type = "variable" /\ Yield(Tail(stack), current, expr_new_assign(e.name, ctl.node))
      BY <1>3, <2>2, <2>4 DEF AssignmentValue, error
    <3>2. expr_new_assign(e.name, ctl.node) \in Expressions
      BY <2>1, <3>1, VariableNames, ExpressionsBuilt
    <3>. QED
      BY <2>1, <3>1, <3>2, ExpressionOver
  <2>. QED
    BY <2>3, <2>4
<1>4. CASE BinaryLevel
  <2>1. ctl.tag = "at" /\ ctl.point \in Levels /\ Call(stack, current, ctl.point, <<>>, Operand[ctl.point])
    BY <1>4 DEF BinaryLevel
  <2>2. Held(ctl.point, <<>>, Inside(stack))
    BY <2>1, CollectedFacts, OperandsAre
  <2>3. Results(Operand[ctl.point]) = WaitsFor(ctl.point)
    BY <2>1, OperandsAre
  <2>. QED
    BY <2>1, <2>2, <2>3, OperandsAre, CallTyped
<1>5. CASE BinaryOperand
  <2> DEFINE level == Top.fn
             left == Top.nodes
             expr == Joined(level, left, ctl.node)
  <2>1. level \in Levels /\ level \in ExpressionWaits /\ Returned(level)
    BY <1>5, OperandsAre DEF BinaryOperand, Returned
  <2>2. /\ ctl.tag = "return" /\ stack # <<>> /\ ctl.node \in Expressions
        /\ Collected(level, left, Top.depth)
    BY <2>1, GotExpression
  <2>3. left = <<>> \/ \E e \in Expressions, op \in Lexemes : left = <<e, op>>
    BY <2>1, <2>2, CollectedFacts
  <2>4. expr \in Expressions
    <3>1. CASE left = <<>>
      BY <2>2, <3>1 DEF Joined
    <3>2. CASE left # <<>>
      <4>1. PICK e \in Expressions, op \in Lexemes : left = <<e, op>>
        BY <2>3, <3>2
      <4>2. left[1] = e /\ left[2] = op
        BY <4>1
      <4>3. \/ expr = expr_new_logical(e, op, ctl.node)
            \/ expr = expr_new_binary(e, op, ctl.node)
        BY <3>2, <4>2 DEF Joined
      <4>. QED
        BY <2>2, <4>3, ExpressionsBuilt
    <3>. QED
      BY <3>1, <3>2
  <2>5. CASE Call(Tail(stack), parser_advance, level, <<expr, parser_peek.lexeme>>, Operand[level])
    <3> DEFINE nodes == <<expr, parser_peek.lexeme>>
    <3>1. Call(Tail(stack), parser_advance, level, nodes, Operand[level])
      BY <2>5
    <3>. HIDE DEF expr
    <3>2. \E e \in Expressions, op \in Lexemes : nodes = <<e, op>>
      BY <2>4, PeekFacts
    <3>. HIDE DEF nodes
    <3>3. Held(level, nodes, Top.depth)
      BY <2>1, <3>2, CollectedFacts, OperandsAre
    <3>4. Results(Operand[level]) = WaitsFor(level)
      BY <2>1, OperandsAre
    <3>. QED
      BY <2>1, <2>2, <3>1, <3>3, <3>4, OperandsAre, CallOnTyped
  <2>6. CASE Yield(Tail(stack), current, expr)
    <3>. HIDE DEF expr
    <3>. QED
      BY <2>1, <2>2, <2>4, <2>6, OperandsAre, ExpressionOver
  <2>. QED
    BY <1>5, <2>5, <2>6 DEF BinaryOperand
<1>6. CASE parse_unary
  <2>1. ctl.tag = "at" /\ ctl.point = "unary"
    BY <1>6, ReachedTyped DEF parse_unary
  <2>2. CASE Call(stack, parser_advance, "unary", <<parser_peek.lexeme>>, "unary")
    <3>1. Held("unary", <<parser_peek.lexeme>>, Inside(stack))
      BY PeekFacts, CollectedFacts
    <3>. QED
      BY <2>1, <2>2, <3>1, CallTyped
  <2>3. CASE Call(stack, current, "call", <<>>, "primary")
    BY <2>1, <2>3, EnterTyped
  <2>. QED
    BY <1>6, <2>2, <2>3 DEF parse_unary
<1>7. CASE UnaryOperand
  <2>1. /\ ctl.tag = "return" /\ stack # <<>> /\ Top.fn = "unary" /\ ctl.node \in Expressions
        /\ Held("unary", Top.nodes, Top.depth)
    BY <1>7, GotExpression DEF UnaryOperand, Got
  <2>2. PICK op \in Lexemes : Top.nodes = <<op>>
    BY <2>1 DEF Held
  <2>3. expr_new_unary(Top.nodes[1], ctl.node) \in Expressions
    BY <2>1, <2>2, ExpressionsBuilt
  <2>. QED
    BY <1>7, <2>1, <2>3, ExpressionOver DEF UnaryOperand
<1>. QED
  BY <1>1, <1>2, <1>3, <1>4, <1>5, <1>6, <1>7

LEMMA LiteralsAre ==
  ASSUME ParserInv
  PROVE  LiteralOf(parser_peek) \in Constants
BY PeekFacts DEF LiteralOf, Constants

LEMMA CallsKeepTrees ==
  ASSUME ParserInv, Typed, ~HadError',
         \/ parse_call \/ finish_call \/ CallArgument \/ CallArgumentEnd \/ CallClose
         \/ parse_primary \/ Grouping
  PROVE  Typed'
<1>. USE LevelsAre, Kinds DEF ExpressionPoints, ExpressionWaits, Entries, Empty, Keywords
<1>. USE DEF ArgumentPoints
<1>1. CASE parse_call
  <2>1. ctl.tag = "return" /\ stack # <<>> /\ Top.fn = "call" /\ ctl.node \in Expressions
    BY <1>1, GotExpression DEF parse_call, Got
  <2>2. CASE Goto(Tail(stack), parser_advance, "finish_call", <<ctl.node>>)
    <3> DEFINE l == <<>>
    <3>1. <<ctl.node>> = <<ctl.node>> \o l /\ l \in Seq(Expressions)
      OBVIOUS
    <3>2. Applying(<<ctl.node>>)
      <4>. HIDE DEF l
      <4>. QED
        BY <2>1, <3>1 DEF Applying
    <3>3. Collected("finish_call", <<ctl.node>>, Top.depth)
      BY <3>2, CollectedFacts
    <3>. QED
      BY <2>1, <2>2, <3>3, GotoOnTyped
  <2>3. CASE Yield(Tail(stack), current, ctl.node)
    BY <2>1, <2>3, ExpressionOver
  <2>. QED
    BY <1>1, <2>2, <2>3 DEF parse_call
<1>2. CASE finish_call
  <2>1. /\ ctl.tag = "at" /\ ctl.point = "finish_call"
        /\ Collected("finish_call", ctl.nodes, Inside(stack))
    BY <1>2, ReachedTyped DEF finish_call
  <2>2. /\ Collected("call_close", ctl.nodes, Inside(stack))
        /\ Collected("argument", ctl.nodes, Inside(stack))
    BY <2>1, CollectedFacts
  <2>. QED
    BY <1>2, <2>1, <2>2, GotoTyped DEF finish_call
<1>3. CASE CallArgument
  <2>1. /\ ctl.tag = "at" /\ ctl.point = "argument"
        /\ Collected("argument", ctl.nodes, Inside(stack))
    BY <1>3, ReachedTyped DEF CallArgument
  <2>2. Held("argument", ctl.nodes, Inside(stack))
    BY <2>1, CollectedFacts
  <2>. QED
    BY <1>3, <2>1, <2>2, CallTyped DEF CallArgument
<1>4. CASE CallArgumentEnd
  <2>1. /\ ctl.tag = "return" /\ stack # <<>> /\ Top.fn = "argument" /\ ctl.node \in Expressions
        /\ Collected("argument", Top.nodes, Top.depth)
    BY <1>4, GotExpression DEF CallArgumentEnd, Got
  <2>2. Applying(Top.nodes)
    BY <2>1, CollectedFacts
  <2>3. PICK e \in Expressions, l \in Seq(Expressions) : Top.nodes = <<e>> \o l
    BY <2>2 DEF Applying
  <2> DEFINE nodes == Append(Top.nodes, ctl.node)
  <2>4. nodes = <<e>> \o Append(l, ctl.node) /\ Append(l, ctl.node) \in Seq(Expressions)
    BY <2>1, <2>3, Joining
  <2>5. \/ Goto(Tail(stack), parser_advance, "argument", nodes)
        \/ Goto(Tail(stack), current, "call_close", nodes)
    BY <1>4 DEF CallArgumentEnd
  <2>. HIDE DEF nodes
  <2>6. Applying(nodes)
    BY <2>4 DEF Applying
  <2>7. Collected("argument", nodes, Top.depth) /\ Collected("call_close", nodes, Top.depth)
    BY <2>6, CollectedFacts
  <2>. QED
    BY <2>1, <2>5, <2>7, GotoOnTyped
<1>5. CASE CallClose
  <2>1. /\ ctl.tag = "at" /\ ctl.point = "call_close" /\ stack # <<>> /\ Inside(stack) \in Nat
        /\ Collected("call_close", ctl.nodes, Inside(stack))
    BY <1>5, ReachedTyped DEF CallClose
  <2>2. Applying(ctl.nodes)
    BY <2>1, CollectedFacts
  <2>3. PICK e \in Expressions, l \in Seq(Expressions) : ctl.nodes = <<e>> \o l
    BY <2>2 DEF Applying
  <2>4. Head(ctl.nodes) = e /\ Tail(ctl.nodes) = l
    BY <2>3, Heads
  <2> DEFINE f == Frame(stack, current, "call", <<>>)
             node == expr_new_call(e, l)
  <2>5. node \in Expressions
    BY ExpressionsBuilt
  <2>6. f.fn = "call" /\ f.nodes = <<>> /\ f.depth = Inside(stack)
    BY DEF Frame
  <2>7. stack' = <<f>> \o stack /\ ctl' = Return(node)
    BY <1>5, <2>4, MissingReports DEF CallClose, parser_consume, Yield
  <2>. HIDE DEF f, node
  <2>8. PICK S : stack \in Seq(S)
    BY DEF ParserInv
  <2>9. Filled(f)
    BY <2>1, <2>6, CollectedFacts DEF Filled
  <2>10. StackTyped(stack')
    <3>1. Results("call") = WaitsFor(Head(stack).fn)
      BY <2>1 DEF Typed, CtlTyped
    <3>. QED
      BY <2>6, <2>7, <2>8, <2>9, <3>1, PushTyped DEF Typed
  <2>11. Head(stack') = f
    BY <2>7, <2>8
  <2>12. CtlTyped(ctl', stack')
    BY <2>5, <2>6, <2>7, <2>11, NodeKinds DEF CtlTyped, Return
  <2>. QED
    BY <2>10, <2>12 DEF Typed
<1>6. CASE parse_primary
  <2>1. ctl.tag = "at" /\ ctl.point = "primary" /\ stack # <<>>
    BY <1>6, ReachedTyped DEF parse_primary
  <2>2. CASE Yield(stack, parser_advance, expr_new_literal(LiteralOf(parser_peek)))
    <3>1. IsNode("expression", expr_new_literal(LiteralOf(parser_peek)), Inside(stack))
      BY LiteralsAre, ExpressionsBuilt, NodeKinds
    <3>. QED
      BY <2>1, <2>2, <3>1, YieldTyped
  <2>3. CASE parser_match({"IDENTIFIER"}) /\ Yield(stack, parser_advance, expr_new_variable(parser_peek.lexeme))
    <3>1. parser_peek.lexeme \in Identifiers
      BY <2>3, PeekFacts DEF parser_match, parser_check, Identifiers
    <3>2. IsNode("expression", expr_new_variable(parser_peek.lexeme), Inside(stack))
      BY <3>1, ExpressionsBuilt, NodeKinds
    <3>. QED
      BY <2>1, <2>3, <3>2, YieldTyped
  <2>4. CASE Call(stack, parser_advance, "grouping", <<>>, "assignment")
    BY <2>1, <2>4, EnterTyped
  <2>5. CASE error
    BY <2>5 DEF error
  <2>. QED
    BY <1>6, <2>2, <2>3, <2>4, <2>5 DEF parse_primary
<1>7. CASE Grouping
  <2>1. ctl.tag = "return" /\ stack # <<>> /\ Top.fn = "grouping" /\ ctl.node \in Expressions
    BY <1>7, GotExpression DEF Grouping
  <2>2. expr_new_grouping(ctl.node) \in Expressions
    BY <2>1, ExpressionsBuilt
  <2>. QED
    BY <1>7, <2>1, <2>2, ExpressionOver DEF Grouping
<1>. QED
  BY <1>1, <1>2, <1>3, <1>4, <1>5, <1>6, <1>7

(* No step takes an error back. *)
LEMMA ErrorsStay ==
  ASSUME Next, HadError
  PROVE  HadError'
<1>1. ASSUME Quietly \/ error \/ \E children : Building(children)
      PROVE  HadError'
  BY <1>1 DEF Quietly, error, Building
<1>3. CASE \/ parser_parse \/ ParsedDeclaration \/ parse_declaration \/ DeclarationEnds \/ parser_synchronize
           \/ parse_statement \/ BlockStatement \/ parse_block \/ BlockDeclaration \/ PassOnNull
  BY <1>1, <1>3
     DEF parser_parse, ParsedDeclaration, parse_declaration, DeclarationEnds, parser_synchronize,
         parse_statement, BlockStatement, parse_block, BlockDeclaration, PassOnNull, parser_consume, Missing
<1>4. CASE \/ parse_print_statement \/ PrintEnds \/ parse_expression_statement \/ ExpressionStatementEnds
           \/ parse_return_statement \/ ReturnEnds \/ parse_var_declaration \/ VarNamed \/ VarEnds
           \/ parse_if_statement \/ IfCondition \/ IfThen \/ IfElse
           \/ parse_while_statement \/ WhileCondition \/ WhileBody
  BY <1>1, <1>4
     DEF parse_print_statement, PrintEnds, parse_expression_statement, ExpressionStatementEnds,
         parse_return_statement, ReturnEnds, parse_var_declaration, VarNamed, VarEnds,
         parse_if_statement, IfCondition, IfThen, IfElse,
         parse_while_statement, WhileCondition, WhileBody, parser_consume, Missing
<1>5. CASE \/ parse_for_statement \/ ForClauses \/ ForInitializer \/ ForInitialized
           \/ ForCondition \/ ForConditioned \/ ForIncrement \/ ForBody
           \/ parse_function \/ FunctionNamed \/ FunctionParameters \/ FunctionParameter
           \/ FunctionParameterEnd \/ FunctionClose \/ FunctionClosed \/ FunctionBody
  BY <1>1, <1>5
     DEF parse_for_statement, ForClauses, ForInitializer, ForInitialized,
         ForCondition, ForConditioned, ForIncrement, ForBody,
         parse_function, FunctionNamed, FunctionParameters, FunctionParameter,
         FunctionParameterEnd, FunctionClose, FunctionClosed, FunctionBody, parser_consume, Missing
<1>6. CASE \/ parse_assignment \/ AssignmentTarget \/ AssignmentValue
           \/ BinaryLevel \/ BinaryOperand \/ parse_unary \/ UnaryOperand
           \/ parse_call \/ finish_call \/ CallArgument \/ CallArgumentEnd \/ CallClose
           \/ parse_primary \/ Grouping
  BY <1>1, <1>6
     DEF parse_assignment, AssignmentTarget, AssignmentValue, BinaryLevel, BinaryOperand,
         parse_unary, UnaryOperand, parse_call, finish_call, CallArgument, CallArgumentEnd, CallClose,
         parse_primary, Grouping, parser_consume, Missing
<1>. QED
  BY <1>3, <1>4, <1>5, <1>6 DEF Next

LEMMA StartsTreeInv == Starts => TreeInv
<1> SUFFICES ASSUME Starts PROVE TreeInv
  OBVIOUS
<1>1. stack = <<>> /\ ctl = At("parser_parse", <<>>) /\ Inside(stack) = 0
  BY DEF Starts, Inside
<1>2. StackTyped(stack)
  BY <1>1 DEF StackTyped
<1> DEFINE none == <<>>
<1>3. none \in Seq(StatementsAt(0))
  OBVIOUS
<1>4. Collected("parser_parse", none, 0)
  <2>. HIDE DEF none
  <2>. QED
    BY <1>3, CollectedFacts
<1>5. CtlTyped(ctl, stack)
  BY <1>1, <1>4 DEF CtlTyped, At
<1>. QED
  BY <1>2, <1>5 DEF TreeInv, Typed

LEMMA NextKeepsTrees == ParserInv /\ TreeInv /\ [Next]_vars => TreeInv'
<1>1. CASE ParserInv /\ TreeInv /\ Next
  <2> SUFFICES ASSUME ~HadError' PROVE Typed'
    BY DEF TreeInv
  <2>1. Typed
    BY <1>1, ErrorsStay DEF TreeInv
  <2>. QED
    BY <1>1, <2>1, LoopsKeepTrees, SimpleStatementsKeepTrees, BranchesKeepTrees, LoopsForKeepTrees,
       FunctionsKeepTrees, OperatorsKeepTrees, CallsKeepTrees DEF Next
<1>2. CASE ParserInv /\ TreeInv /\ UNCHANGED vars
  BY <1>2 DEF vars, TreeInv, Typed
<1>. QED
  BY <1>1, <1>2

-----------------------------------------------------------------------------
(* The theorems.                                                           *)

LEMMA NextKeepsInv == ParserInv /\ [Next]_vars => ParserInv'
<1>1. CASE ParserInv /\ Next
  BY <1>1, LoopsKeepInv, SimpleStatementsKeepInv, CompoundStatementsKeepInv, FunctionsKeepInv,
     OperatorsKeepInv, CallsKeepInv DEF Next
<1>2. CASE ParserInv /\ UNCHANGED vars
  BY <1>2 DEF vars, ParserInv, Chained, FrameOK, Fits, Strict, Carries, CtlOK, CtlAbove
<1>. QED
  BY <1>1, <1>2

LEMMA SpecParserInv == Spec => []ParserInv
BY InitStarts, StartsParserInv, NextKeepsInv, PTL DEF Spec

LEMMA SpecTreeInv == Spec => []TreeInv
BY InitStarts, StartsTreeInv, SpecParserInv, NextKeepsTrees, PTL DEF Spec

(* Whatever the tokens are, the cursor of the parser never leaves the list *)
(* and never moves back behind a call that is open.                        *)
THEOREM ParserTypeOK == Spec => []TypeOK
<1>1. ASSUME ParserInv
      PROVE  TypeOK
  <2>1. \A n \in 1 .. Len(stack) : stack[n].from \in 1 .. current
    BY <1>1 DEF ParserInv, Chained, FrameOK
  <2>2. ctl.tag \in {"at", "return", "done", "crash"} /\ (ctl.tag = "return" => stack # <<>>)
    BY <1>1 DEF ParserInv, CtlOK, CtlAbove
  <2>. QED
    BY <1>1, <2>1, <2>2 DEF ParserInv, TypeOK
<1>. QED
  BY <1>1, SpecParserInv, PTL

(* No text at all makes the parser lose, keep or follow a NULL without an  *)
(* error having been reported: library_run interprets no tree with a hole. *)
THEOREM ParserNullsReported == Spec => []NullsReported
<1>1. ASSUME ParserInv
      PROVE  NullsReported
  BY <1>1, ReturnFacts DEF ParserInv, CtlOK, CtlAbove, NullsReported
<1>. QED
  BY <1>1, SpecParserInv, PTL

(* Error recovery always gets on: no list of tokens makes the loop of      *)
(* parser_parse or of parse_block take a turn without moving the cursor.   *)
THEOREM ParserDeclarationsAdvance == Spec => []DeclarationsAdvance
<1>1. ASSUME ParserInv
      PROVE  DeclarationsAdvance
  BY <1>1, ReturnFacts DEF DeclarationsAdvance, Returned, Loops
<1>. QED
  BY <1>1, SpecParserInv, PTL

(* Whatever the limits are, a function or a call with more parameters or   *)
(* arguments than that is reported before it is built.                     *)
THEOREM ParserLimitsReported == Spec => []LimitsReported
<1>1. ASSUME ParserInv
      PROVE  LimitsReported
  BY <1>1, ListFacts DEF LimitsReported, ListOK, WithinLimit, ListPoints, ParameterPoints, ArgumentPoints
<1>. QED
  BY <1>1, SpecParserInv, PTL

(* Whatever the tokens are, what the parser hands over is a list of whole  *)
(* trees, of some height.                                                  *)
THEOREM ParserTreesWhole == Heights = Nat => (Spec => []TreesWhole)
<1> SUFFICES ASSUME Heights = Nat PROVE Spec => []TreesWhole
  OBVIOUS
<1>1. ASSUME TreeInv
      PROVE  TreesWhole
  <2> SUFFICES ASSUME ctl.tag = "done", ~HadError, NEW n \in 1 .. Len(ctl.statements)
               PROVE  IsStatement(ctl.statements[n]) /\ ctl.statements[n].depth = 0
    BY DEF TreesWhole
  <2>1. ctl.statements \in Seq(StatementsAt(0))
    BY <1>1 DEF TreeInv, Typed, CtlTyped
  <2>2. ctl.statements[n] \in StatementsAt(0)
    BY <2>1
  <2>. QED
    BY <2>2 DEF StatementsAt, Statements, IsStatement
<1>. QED
  BY <1>1, SpecTreeInv, PTL
=============================================================================

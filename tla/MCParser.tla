------------------------------ MODULE MCParser ------------------------------
(* Token lists for module Parser, a grammar of the language to compare it  *)
(* with, and its instance for TLC.                                         *)
EXTENDS Parser, Depths, SequencesExt

Lexeme(type) ==
  CASE type = "LEFT_PAREN" -> "(" [] type = "RIGHT_PAREN" -> ")" [] type = "LEFT_BRACE" -> "{"
    [] type = "RIGHT_BRACE" -> "}" [] type = "COMMA" -> "," [] type = "SEMICOLON" -> ";"
    [] type = "EQUAL" -> "=" [] type = "BANG" -> "!" [] type = "MINUS" -> "-" [] type = "PLUS" -> "+"
    [] type = "STAR" -> "*" [] type = "SLASH" -> "/" [] type = "OR" -> "or" [] type = "AND" -> "and"
    [] type = "BANG_EQUAL" -> "!=" [] type = "EQUAL_EQUAL" -> "==" [] type = "GREATER" -> ">"
    [] type = "GREATER_EQUAL" -> ">=" [] type = "LESS" -> "<" [] type = "LESS_EQUAL" -> "<="
    [] OTHER -> type
Tok(type) == [type |-> type, lexeme |-> Lexeme(type), literal |-> OBJECT_NULL, at |-> 0]
Id(name) == [type |-> "IDENTIFIER", lexeme |-> name, literal |-> OBJECT_NULL, at |-> 0]
Const(obj) ==
  [type |-> IF obj.type = "number" THEN "NUMBER" ELSE "STRING", lexeme |-> "1", literal |-> obj, at |-> 0]

-----------------------------------------------------------------------------
(* The grammar.  The level of an expression is that of the rule it comes   *)
(* from, and its operands come from the rules the grammar names.           *)
OperatorsOf == <<{"or"}, {"and"}, {"!=", "=="}, {">", ">=", "<", "<="}, {"-", "+"}, {"/", "*"}>>
LevelOf(op) == CHOOSE n \in 1 .. 6 : op \in OperatorsOf[n]
TypeOf(op) == CHOOSE type \in UNION {Operators[l] : l \in Levels} : Lexeme(type) = op

RECURSIVE Derives(_, _)
Derives(level, e) ==
  CASE e.type \in {"binary", "logical"} ->
         LET n == LevelOf(e.op)
         IN  /\ level <= n /\ (e.type = "logical") = (n <= 2)
             /\ Derives(n, e.left) /\ Derives(n + 1, e.right)
    [] e.type = "assign" -> level = 0 /\ Derives(0, e.value)
    [] e.type = "unary" -> level <= 7 /\ e.op \in {"!", "-"} /\ Derives(7, e.right)
    [] e.type = "call" ->
         /\ Derives(8, e.callee)
         /\ Len(e.arguments) <= MAX_ARGUMENTS
         /\ \A n \in DOMAIN e.arguments : Derives(0, e.arguments[n])
    [] e.type = "grouping" -> Derives(0, e.expression)
    [] OTHER -> e.type \in {"literal", "variable"}

(* A statement that an `else` behind it would belong to.                   *)
RECURSIVE TakesElse(_)
TakesElse(s) ==
  CASE s.type = "if" -> IF s.else_branch = NULL THEN TRUE ELSE TakesElse(s.else_branch)
    [] s.type = "while" -> TakesElse(s.body)
    [] OTHER -> FALSE

RECURSIVE DerivesStatement(_)
DerivesStatement(s) ==
  LET All(ss) == \A n \in DOMAIN ss : DerivesStatement(ss[n])
      Inner(t) == t.type \notin {"var", "function"} /\ DerivesStatement(t)
      Optional(e) == IF e = NULL THEN TRUE ELSE Derives(0, e)
  IN  CASE s.type \in {"expression", "print"} -> Derives(0, s.expression)
        [] s.type = "return" -> Optional(s.value)
        [] s.type = "var" -> Optional(s.initializer)
        [] s.type = "block" -> All(s.statements)
        [] s.type = "function" -> Len(s.params) <= PARAMS_MAX /\ All(s.body)
        [] s.type = "while" -> Derives(0, s.condition) /\ Inner(s.body)
        [] s.type = "if" ->
             /\ Derives(0, s.condition)
             /\ Inner(s.then_branch)
             /\ IF s.else_branch = NULL THEN TRUE
                ELSE ~TakesElse(s.then_branch) /\ Inner(s.else_branch)

(* The tokens of a tree.                                                   *)
Between(texts, separator) ==
  IF texts = <<>> THEN <<>>
  ELSE FoldLeft(LAMBDA left, right : left \o separator \o right, Head(texts), Tail(texts))
InParens(text) == <<Tok("LEFT_PAREN")>> \o text \o <<Tok("RIGHT_PAREN")>>
InBraces(text) == <<Tok("LEFT_BRACE")>> \o text \o <<Tok("RIGHT_BRACE")>>

RECURSIVE Text(_)
Text(e) ==
  CASE e.type \in {"binary", "logical"} -> Text(e.left) \o <<Tok(TypeOf(e.op))>> \o Text(e.right)
    [] e.type = "assign" -> <<Id(e.name), Tok("EQUAL")>> \o Text(e.value)
    [] e.type = "unary" -> <<Tok(IF e.op = "!" THEN "BANG" ELSE "MINUS")>> \o Text(e.right)
    [] e.type = "call" ->
         Text(e.callee) \o InParens(Between([n \in DOMAIN e.arguments |-> Text(e.arguments[n])], <<Tok("COMMA")>>))
    [] e.type = "grouping" -> InParens(Text(e.expression))
    [] e.type = "variable" -> <<Id(e.name)>>
    [] e.type = "literal" ->
         CASE e.value.type = "bool" -> <<Tok(IF e.value.b THEN "TRUE" ELSE "FALSE")>>
           [] e.value.type = "null" -> <<Tok("NIL")>>
           [] OTHER -> <<Const(e.value)>>

RECURSIVE StatementText(_)
StatementText(s) ==
  LET All(ss) == FlattenSeq([n \in DOMAIN ss |-> StatementText(ss[n])])
      Optional(first, e) == IF e = NULL THEN <<>> ELSE first \o Text(e)
      end == <<Tok("SEMICOLON")>>
  IN  CASE s.type = "expression" -> Text(s.expression) \o end
        [] s.type = "print" -> <<Tok("PRINT")>> \o Text(s.expression) \o end
        [] s.type = "return" -> <<Tok("RETURN")>> \o Optional(<<>>, s.value) \o end
        [] s.type = "var" -> <<Tok("VAR"), Id(s.name)>> \o Optional(<<Tok("EQUAL")>>, s.initializer) \o end
        [] s.type = "block" -> InBraces(All(s.statements))
        [] s.type = "function" ->
             <<Tok("FUN"), Id(s.name)>>
             \o InParens(Between([n \in DOMAIN s.params |-> <<Id(s.params[n])>>], <<Tok("COMMA")>>))
             \o InBraces(All(s.body))
        [] s.type = "while" -> <<Tok("WHILE")>> \o InParens(Text(s.condition)) \o StatementText(s.body)
        [] s.type = "if" ->
             <<Tok("IF")>> \o InParens(Text(s.condition)) \o StatementText(s.then_branch)
             \o IF s.else_branch = NULL THEN <<>> ELSE <<Tok("ELSE")>> \o StatementText(s.else_branch)

ProgramText(ss) == FlattenSeq([n \in DOMAIN ss |-> StatementText(ss[n])]) \o <<Tok("EOF")>>

-----------------------------------------------------------------------------
(* Trees: two operators next to each other, and statements of every kind.  *)
a == expr_new_variable("a")
one == expr_new_literal(OBJECT_NUMBER(1))
nil == expr_new_literal(OBJECT_NULL)
yes == expr_new_literal(OBJECT_BOOL(TRUE))
no == expr_new_literal(OBJECT_BOOL(FALSE))
Ops == UNION {OperatorsOf[n] : n \in 1 .. 6}
Apply(op, l, r) == IF LevelOf(op) <= 2 THEN expr_new_logical(l, op, r) ELSE expr_new_binary(l, op, r)
Minus(e) == expr_new_unary("-", e)
Not(e) == expr_new_unary("!", e)
CallA(arguments) == expr_new_call(a, arguments)

Chains == {e \in UNION {{Apply(q, Apply(p, a, one), yes), Apply(p, a, Apply(q, one, nil))} : p \in Ops, q \in Ops} :
             Derives(0, e)}
Mixtures == {Minus(Not(CallA(<<>>))), Apply("*", Minus(a), Minus(one)), expr_new_call(CallA(<<a>>), <<a, one>>),
             expr_new_assign("a", expr_new_assign("b", Apply("or", nil, no))),
             Apply("*", expr_new_grouping(Apply("+", a, one)), one),
             CallA(<<expr_new_assign("a", one), Apply("and", a, a)>>),
             expr_new_literal(OBJECT_STRING(<<"s">>))}

print == stmt_new_print(a)
if == stmt_new_if(a, print, NULL)
ifelse == stmt_new_if(a, stmt_new_block(<<>>), print)
function == stmt_new_function(0, "f", <<"a", "b">>, <<stmt_new_return(NULL), print>>)
Forms == {stmt_new_var("a", NULL), stmt_new_var("a", one), stmt_new_return(a), if, ifelse, function,
          stmt_new_block(<<stmt_new_var("a", NULL), stmt_new_block(<<print>>)>>),
          stmt_new_if(a, ifelse, print), stmt_new_if(a, if, NULL), stmt_new_if(a, print, if),
          stmt_new_while(a, if), stmt_new_while(yes, ifelse),
          stmt_new_function(0, "f", <<>>, <<function>>)}

Basic == {ProgramText(<<s>>) : s \in Forms \cup {stmt_new_expression(e) : e \in Mixtures}}
Sentences == Basic \cup {ProgramText(<<stmt_new_expression(e), print>>) : e \in Chains}

(* for, with and without each clause, and what it means.                   *)
Initializers == {NULL, stmt_new_var("a", one), stmt_new_expression(a)}
Clauses == {NULL, Apply("<", a, one)}
ForText(initializer, condition, increment) ==
  LET Opt(e) == IF e = NULL THEN <<>> ELSE Text(e)
  IN  <<Tok("FOR")>>
      \o InParens((IF initializer = NULL THEN <<Tok("SEMICOLON")>> ELSE StatementText(initializer))
                  \o Opt(condition) \o <<Tok("SEMICOLON")>> \o Opt(increment))
      \o StatementText(print) \o <<Tok("EOF")>>
ForMeans(initializer, condition, increment) ==
  LET turn == IF increment = NULL THEN print ELSE stmt_new_block(<<print, stmt_new_expression(increment)>>)
      loop == stmt_new_while(IF condition = NULL THEN yes ELSE condition, turn)
  IN  IF initializer = NULL THEN loop ELSE stmt_new_block(<<initializer, loop>>)
Loops == Initializers \X Clauses \X Clauses
LoopTexts == {ForText(l[1], l[2], l[3]) : l \in Loops}

(* Texts with an error in them: one token gone, or one in place of         *)
(* another; one parameter or argument too many; and every short text.      *)
Wrong == {Tok(t) : t \in {"SEMICOLON", "RIGHT_PAREN", "LEFT_BRACE", "PRINT", "EQUAL", "OR", "CLASS"}}
Damaged == {RemoveAt(t[1], t[2]) : t \in {t \in (Basic \cup LoopTexts) \X (1 .. 20) : t[2] < Len(t[1])}}
  \cup {ReplaceAt(t[1], t[2], t[3]) : t \in {t \in (Basic \cup LoopTexts) \X (1 .. 20) \X Wrong : t[2] < Len(t[1])}}
TooLong == {ProgramText(<<stmt_new_function(0, "f", <<"a", "b", "a">>, <<>>)>>),
            ProgramText(<<stmt_new_expression(CallA(<<a, one, a>>))>>)}
Short == {Append(t, Tok("EOF")) :
            t \in SeqOf({Tok(u) : u \in {"LEFT_BRACE", "RIGHT_BRACE", "SEMICOLON", "RIGHT_PAREN", "LEFT_PAREN",
                                         "PRINT", "EQUAL"}} \cup {Id("a")}, 4)}

MCInputs == Sentences \cup LoopTexts \cup Damaged \cup TooLong \cup Short

(* Assignments, to a variable, to a number, and to nothing.                *)
AssignmentInputs ==
  {target \o <<Tok("EQUAL"), Const(OBJECT_NUMBER(1)), Tok("SEMICOLON"), Tok("EOF")>> :
     target \in {<<Id("a")>>, <<Const(OBJECT_NUMBER(1))>>, <<>>}}
MCTokens == UNION {Range(t) : t \in MCInputs}
MCHeights == 0 .. 9

-----------------------------------------------------------------------------
Accepted == ctl.tag = "done" /\ ~HadError
ForFree == \A n \in DOMAIN tokens : tokens[n].type # "FOR"

(* Whatever the parser accepts, after whatever errors and repairs in other *)
(* places of its code, is a sentence of the grammar, and the statements it *)
(* returns are its derivation: all of its tokens, in order, each operator  *)
(* with the operands its precedence and associativity give it, each `else` *)
(* with the nearest `if`, and each statement with its depth.               *)
AcceptsOnlySentences ==
  Accepted /\ ForFree =>
    /\ \A n \in DOMAIN ctl.statements : DerivesStatement(ctl.statements[n])
    /\ ProgramText(ctl.statements) = tokens
    /\ Program(ctl.statements) = ctl.statements

(* Every sentence of the grammar is accepted, the ones whose lists are as  *)
(* long as the limits allow included, and a for loop is the while loop it  *)
(* is short for.                                                           *)
AcceptsSentences ==
  ctl.tag \in {"done", "crash"} =>
    /\ tokens \in Sentences \cup LoopTexts => Accepted
    /\ Accepted /\ tokens \in LoopTexts =>
         \E l \in Loops : /\ tokens = ForText(l[1], l[2], l[3])
                          /\ ctl.statements = Program(<<ForMeans(l[1], l[2], l[3])>>)
=============================================================================

------------------------------- MODULE Parser -------------------------------
(***************************************************************************)
(* The recursive-descent parser of parser.c, with its error recovery, as a *)
(* machine with an explicit stack.                                         *)
(*                                                                         *)
(* A parse_... function that waits for a nested one is a frame of `stack`, *)
(* the innermost first, with the nodes it has collected; `ctl` is what the *)
(* innermost one does: it is entered (or has come to a named point inside  *)
(* it), or it returns a node, NULL after an error.  A function that ends   *)
(* in a nested call leaves no frame.  `current` counts from 1 here and     *)
(* from 0 in the code.  The six binary levels are one function with the    *)
(* operators and the operand of the level as parameters.                   *)
(***************************************************************************)
EXTENDS Trees

CONSTANTS
  Inputs,         \* the token lists the scanner may hand over
  PARAMS_MAX,     \* 255 in the code
  MAX_ARGUMENTS   \* 255 in the code

ASSUME LimitsAssumption == PARAMS_MAX \in Nat /\ MAX_ARGUMENTS \in Nat

(* The scanner ends every list with one TOKEN_EOF.                         *)
Terminated(input) ==
  /\ Len(input) > 0
  /\ \A n \in 1 .. Len(input) : input[n].type = "EOF" <=> n = Len(input)
ASSUME InputsAssumption ==
  Inputs \subseteq Seq(Tokens) /\ \A input \in Inputs : Terminated(input)

VARIABLES
  tokens,    \* parser->tokens
  current,   \* parser->current, plus 1
  HadError,  \* the flag of lib.c, which library_error_at_token sets
  ctl,       \* what the innermost function is doing
  stack,     \* the functions that are waiting, innermost first
  hole       \* history: a node was built around a NULL that it should not have

(* The struct stmt_list that parse_block returns.                          *)
stmt_list(statements) == [type |-> "stmt_list", statements |-> statements]

vars == <<tokens, current, HadError, ctl, stack, hole>>

-----------------------------------------------------------------------------
parser_peek == tokens[current]
parser_is_at_end == parser_peek.type = "EOF"
parser_check(type) == ~parser_is_at_end /\ parser_peek.type = type

(* The test of parser_match; the action that passes it goes on from        *)
(* parser_advance, and the token parser_previous then names is parser_peek.*)
parser_match(types) == \E type \in types : parser_check(type)

(* Variants named Faulty... are the mistakes the properties must reject;   *)
(* no specification uses them.  Here: the end of the list is passed.       *)
FaultyAdvance == current + 1

parser_advance == IF parser_is_at_end THEN current ELSE current + 1

-----------------------------------------------------------------------------
(* What ctl may be.                                                        *)
At(point, nodes) == [tag |-> "at", point |-> point, nodes |-> nodes]
Return(node) == [tag |-> "return", node |-> node]
Done(statements) == [tag |-> "done", statements |-> statements]
Crash == [tag |-> "crash"]

Top == Head(stack)
Reached(point) == ctl.tag = "at" /\ ctl.point = point
Returned(waiting) == ctl.tag = "return" /\ stack # <<>> /\ Top.fn = waiting
Got(waiting) == Returned(waiting) /\ ctl.node # NULL

(* The number of blocks and function bodies around what the functions wait *)
(* for; a frame has the number around it.  A for loop is within one block  *)
(* if it has an initializer, and its body within another if it has an      *)
(* increment.                                                              *)
Opened(node) == IF node = NULL THEN 0 ELSE 1
Opens(frame) ==
  CASE frame.fn \in {"block_statement", "function_body", "for_initializer"} -> 1
    [] frame.fn = "for_body" -> Opened(frame.nodes[1]) + Opened(frame.nodes[3])
    [] OTHER -> 0
Inside(frames) == IF frames = <<>> THEN 0 ELSE Head(frames).depth + Opens(Head(frames))

(* From position p on: call a function and wait for it, go on at a point   *)
(* (of the same function, or of one whose result is returned as it is), or *)
(* return.  `frames` are the functions that are waiting besides.           *)
Frame(frames, p, fn, nodes) == [fn |-> fn, nodes |-> nodes, from |-> p, depth |-> Inside(frames)]
Call(frames, p, fn, nodes, callee) ==
  /\ stack' = <<Frame(frames, p, fn, nodes)>> \o frames
  /\ current' = p
  /\ ctl' = At(callee, <<>>)
Goto(frames, p, point, nodes) ==
  /\ stack' = frames
  /\ current' = p
  /\ ctl' = At(point, nodes)
Yield(frames, p, node) ==
  /\ stack' = frames
  /\ current' = p
  /\ ctl' = Return(node)

(* A statement is returned with its depth.                                 *)
Placed(statement, depth) == [statement EXCEPT !.depth = depth]
YieldStatement(frames, p, statement) == Yield(frames, p, Placed(statement, Inside(frames)))

(* The error flag, and the history of the nodes that are built.            *)
Quietly == UNCHANGED <<tokens, HadError, hole>>
error == HadError' = TRUE /\ UNCHANGED <<tokens, hole>>
Building(children) ==
  /\ hole' = (hole \/ NULL \in children)
  /\ UNCHANGED <<tokens, HadError>>

(* The parser fails without a word. *)
FaultyMissing(type, frames) ==
  /\ ~parser_check(type)
  /\ Quietly
  /\ Yield(frames, current, NULL)

(* parser_consume, when the token is not there, and the `return NULL` that *)
(* follows; when it is, the function goes on.                              *)
Missing(type, frames) ==
  /\ ~parser_check(type)
  /\ error
  /\ Yield(frames, current, NULL)
parser_consume(type, frames, GoesOn) ==
  \/ Missing(type, frames)
  \/ parser_check(type) /\ Quietly /\ GoesOn

-----------------------------------------------------------------------------
(* parser_new                                                              *)
Init ==
  /\ tokens \in Inputs
  /\ current = 1
  /\ HadError = FALSE
  /\ ctl = At("parser_parse", <<>>)
  /\ stack = <<>>
  /\ hole = FALSE

(* The loop of parser_parse, over the statements so far.                   *)
parser_parse ==
  /\ Reached("parser_parse")
  /\ \/ ~parser_is_at_end /\ Call(stack, current, "parser_parse", ctl.nodes, "declaration")
     \/ parser_is_at_end /\ ctl' = Done(ctl.nodes) /\ UNCHANGED <<current, stack>>
  /\ Quietly
ParsedDeclaration ==
  /\ Returned("parser_parse")
  /\ Goto(Tail(stack), current, "parser_parse",
          IF ctl.node = NULL THEN Top.nodes ELSE Append(Top.nodes, ctl.node))
  /\ Quietly

parse_declaration ==
  /\ Reached("declaration")
  /\ \/ parser_match({"FUN"}) /\ Call(stack, parser_advance, "declaration", <<>>, "function")
     \/ parser_match({"VAR"}) /\ Call(stack, parser_advance, "declaration", <<>>, "var_declaration")
     \/ ~parser_match({"FUN", "VAR"}) /\ Call(stack, current, "declaration", <<>>, "statement")
  /\ Quietly

StatementStarts == {"CLASS", "FOR", "FUN", "IF", "PRINT", "RETURN", "VAR", "WHILE"}

(* The token at fault is not skipped if a statement may start there. *)
FaultyDeclarationEnds ==
  /\ Returned("declaration")
  /\ \/ ctl.node # NULL /\ Yield(Tail(stack), current, ctl.node)
     \/ /\ ctl.node = NULL
        /\ IF parser_peek.type \in StatementStarts THEN Yield(Tail(stack), current, NULL)
           ELSE Goto(Tail(stack), parser_advance, "synchronize", <<>>)
  /\ Quietly

DeclarationEnds ==
  /\ Returned("declaration")
  /\ \/ ctl.node # NULL /\ Yield(Tail(stack), current, ctl.node)
     \/ ctl.node = NULL /\ Goto(Tail(stack), parser_advance, "synchronize", <<>>)
  /\ Quietly

(* The loop of parser_synchronize, one token on.                           *)
Synchronized ==
  \/ parser_is_at_end
  \/ tokens[current - 1].type = "SEMICOLON"
  \/ parser_peek.type \in StatementStarts
parser_synchronize ==
  /\ Reached("synchronize")
  /\ \/ Synchronized /\ Yield(stack, current, NULL)
     \/ ~Synchronized /\ Goto(stack, parser_advance, "synchronize", <<>>)
  /\ Quietly

(* The five statements with a keyword start at the point of its name.      *)
Keywords == {"IF", "FOR", "PRINT", "RETURN", "WHILE"}
parse_statement ==
  /\ Reached("statement")
  /\ \/ parser_match(Keywords) /\ Goto(stack, parser_advance, parser_peek.type, <<>>)
     \/ parser_match({"LEFT_BRACE"}) /\ Call(stack, parser_advance, "block_statement", <<>>, "block")
     \/ ~parser_match({"LEFT_BRACE"} \cup Keywords) /\ Goto(stack, current, "expression_statement", <<>>)
  /\ Quietly
BlockStatement ==
  /\ Got("block_statement")
  /\ YieldStatement(Tail(stack), current, stmt_new_block(ctl.node.statements))
  /\ Quietly

(* The loop of parse_block, which an error in a declaration ends.          *)
parse_block ==
  /\ Reached("block")
  /\ IF parser_check("RIGHT_BRACE") \/ parser_is_at_end
     THEN parser_consume("RIGHT_BRACE", stack, Yield(stack, parser_advance, stmt_list(ctl.nodes)))
     ELSE Call(stack, current, "block", ctl.nodes, "declaration") /\ Quietly
BlockDeclaration ==
  /\ Got("block")
  /\ Goto(Tail(stack), current, "block", Append(Top.nodes, ctl.node))
  /\ Quietly

(* Every `if (!node) return NULL;` after a nested call.                    *)
TestsForNull ==
  {"block_statement", "block", "print", "expression_statement",
   "if_condition", "if_then", "if_else", "while_condition", "while_body",
   "for_initializer", "for_condition", "for_increment", "for_body", "return", "var",
   "equality", "comparison", "term", "factor", "unary", "call", "argument"}
PassOnNull ==
  /\ ctl.tag = "return"
  /\ ctl.node = NULL
  /\ stack # <<>>
  /\ Top.fn \in TestsForNull
  /\ Yield(Tail(stack), current, NULL)
  /\ Quietly

parse_print_statement ==
  Reached("PRINT") /\ Call(stack, current, "print", <<>>, "assignment") /\ Quietly
PrintEnds ==
  /\ Got("print")
  /\ parser_consume("SEMICOLON", Tail(stack), YieldStatement(Tail(stack), parser_advance, stmt_new_print(ctl.node)))

parse_expression_statement ==
  /\ Reached("expression_statement")
  /\ Call(stack, current, "expression_statement", <<>>, "assignment")
  /\ Quietly
ExpressionStatementEnds ==
  /\ Got("expression_statement")
  /\ parser_consume("SEMICOLON", Tail(stack),
       YieldStatement(Tail(stack), parser_advance, stmt_new_expression(ctl.node)))

parse_if_statement ==
  /\ Reached("IF")
  /\ parser_consume("LEFT_PAREN", stack,
       Call(stack, parser_advance, "if_condition", <<>>, "assignment"))
IfCondition ==
  /\ Got("if_condition")
  /\ parser_consume("RIGHT_PAREN", Tail(stack),
       Call(Tail(stack), parser_advance, "if_then", <<ctl.node>>, "statement"))
IfThen ==
  /\ Got("if_then")
  /\ \/ /\ parser_match({"ELSE"})
        /\ Call(Tail(stack), parser_advance, "if_else", Append(Top.nodes, ctl.node), "statement")
     \/ /\ ~parser_match({"ELSE"})
        /\ YieldStatement(Tail(stack), current, stmt_new_if(Top.nodes[1], ctl.node, NULL))
  /\ Quietly
IfElse ==
  /\ Got("if_else")
  /\ YieldStatement(Tail(stack), current, stmt_new_if(Top.nodes[1], Top.nodes[2], ctl.node))
  /\ Quietly

parse_while_statement ==
  /\ Reached("WHILE")
  /\ parser_consume("LEFT_PAREN", stack,
       Call(stack, parser_advance, "while_condition", <<>>, "assignment"))
WhileCondition ==
  /\ Got("while_condition")
  /\ parser_consume("RIGHT_PAREN", Tail(stack),
       Call(Tail(stack), parser_advance, "while_body", <<ctl.node>>, "statement"))
WhileBody ==
  /\ Got("while_body")
  /\ YieldStatement(Tail(stack), current, stmt_new_while(Top.nodes[1], ctl.node))
  /\ Quietly

-----------------------------------------------------------------------------
(* for: the nodes are the initializer, the condition and the increment;    *)
(* each may be absent.                                                     *)
parse_for_statement ==
  /\ Reached("FOR")
  /\ parser_consume("LEFT_PAREN", stack, Goto(stack, parser_advance, "for_clauses", <<>>))
ForClauses ==
  /\ Reached("for_clauses")
  /\ \/ parser_match({"SEMICOLON"}) /\ Goto(stack, parser_advance, "for_initialized", <<NULL>>)
     \/ parser_match({"VAR"}) /\ Call(stack, parser_advance, "for_initializer", <<>>, "var_declaration")
     \/ /\ ~parser_match({"SEMICOLON", "VAR"})
        /\ Call(stack, current, "for_initializer", <<>>, "expression_statement")
  /\ Quietly
ForInitializer ==
  /\ Got("for_initializer")
  /\ Goto(Tail(stack), current, "for_initialized", <<ctl.node>>)
  /\ Quietly
ForInitialized ==
  /\ Reached("for_initialized")
  /\ \/ /\ parser_check("SEMICOLON")
        /\ Goto(stack, parser_advance, "for_conditioned", Append(ctl.nodes, NULL))
     \/ ~parser_check("SEMICOLON") /\ Call(stack, current, "for_condition", ctl.nodes, "assignment")
  /\ Quietly
ForCondition ==
  /\ Got("for_condition")
  /\ parser_consume("SEMICOLON", Tail(stack),
       Goto(Tail(stack), parser_advance, "for_conditioned", Append(Top.nodes, ctl.node)))
ForConditioned ==
  /\ Reached("for_conditioned")
  /\ \/ /\ parser_check("RIGHT_PAREN")
        /\ Call(stack, parser_advance, "for_body", Append(ctl.nodes, NULL), "statement")
     \/ ~parser_check("RIGHT_PAREN") /\ Call(stack, current, "for_increment", ctl.nodes, "assignment")
  /\ Quietly
ForIncrement ==
  /\ Got("for_increment")
  /\ parser_consume("RIGHT_PAREN", Tail(stack),
       Call(Tail(stack), parser_advance, "for_body", Append(Top.nodes, ctl.node), "statement"))

(* The increment behind the loop and not in it. *)
FaultyDesugared(depth, initializer, condition, increment, body) ==
  LET inner == depth + Opened(initializer)
      loop == Placed(stmt_new_while(
                IF condition = NULL THEN expr_new_literal(OBJECT_BOOL(TRUE)) ELSE condition, body), inner)
      after == IF increment = NULL THEN <<>> ELSE <<Placed(stmt_new_expression(increment), inner)>>
  IN  IF initializer = NULL THEN loop
      ELSE Placed(stmt_new_block(<<initializer, loop>> \o after), depth)

Desugared(depth, initializer, condition, increment, body) ==
  LET inner == depth + Opened(initializer)
      step == Placed(stmt_new_expression(increment), inner + 1)
      loop == Placed(stmt_new_while(
                       IF condition = NULL THEN expr_new_literal(OBJECT_BOOL(TRUE)) ELSE condition,
                       IF increment = NULL THEN body ELSE Placed(stmt_new_block(<<body, step>>), inner)),
                     inner)
  IN  IF initializer = NULL THEN loop ELSE Placed(stmt_new_block(<<initializer, loop>>), depth)
ForBody ==
  /\ Got("for_body")
  /\ Yield(Tail(stack), current,
           Desugared(Inside(Tail(stack)), Top.nodes[1], Top.nodes[2], Top.nodes[3], ctl.node))
  /\ Quietly

-----------------------------------------------------------------------------
(* fun: the nodes are the name, and the parameters.  The address of the    *)
(* name stands for that of the node.                                       *)
parse_function ==
  /\ Reached("function")
  /\ parser_consume("IDENTIFIER", stack, Goto(stack, parser_advance, "function_named", <<parser_peek>>))
FunctionNamed ==
  /\ Reached("function_named")
  /\ parser_consume("LEFT_PAREN", stack, Goto(stack, parser_advance, "parameters", ctl.nodes))
FunctionParameters ==
  /\ Reached("parameters")
  /\ Goto(stack, current, IF parser_check("RIGHT_PAREN") THEN "function_close" ELSE "parameter", ctl.nodes)
  /\ Quietly

(* The limit is tested after the parameter is taken. *)
FaultyFunctionParameter ==
  /\ Reached("parameter")
  /\ \/ Missing("IDENTIFIER", stack)
     \/ /\ parser_check("IDENTIFIER")
        /\ HadError' = (HadError \/ Len(ctl.nodes) - 1 > PARAMS_MAX)
        /\ Goto(stack, parser_advance, "parameter_end", Append(ctl.nodes, parser_peek.lexeme))
        /\ UNCHANGED <<tokens, hole>>

(* One turn of the loop: a parameter too many is reported and taken.       *)
FunctionParameter ==
  /\ Reached("parameter")
  /\ \/ Missing("IDENTIFIER", stack)
     \/ /\ parser_check("IDENTIFIER")
        /\ HadError' = (HadError \/ Len(ctl.nodes) - 1 >= PARAMS_MAX)
        /\ Goto(stack, parser_advance, "parameter_end", Append(ctl.nodes, parser_peek.lexeme))
        /\ UNCHANGED <<tokens, hole>>
FunctionParameterEnd ==
  /\ Reached("parameter_end")
  /\ \/ parser_match({"COMMA"}) /\ Goto(stack, parser_advance, "parameter", ctl.nodes)
     \/ ~parser_match({"COMMA"}) /\ Goto(stack, current, "function_close", ctl.nodes)
  /\ Quietly
FunctionClose ==
  /\ Reached("function_close")
  /\ parser_consume("RIGHT_PAREN", stack, Goto(stack, parser_advance, "function_closed", ctl.nodes))
FunctionClosed ==
  /\ Reached("function_closed")
  /\ parser_consume("LEFT_BRACE", stack,
       Call(stack, parser_advance, "function_body", ctl.nodes, "block"))

(* The body is not tested: after an error in it, the function has none.    *)
FunctionBody ==
  /\ Returned("function_body")
  /\ LET name == Head(Top.nodes)
         body == IF ctl.node = NULL THEN NULL ELSE ctl.node.statements
     IN  YieldStatement(Tail(stack), current,
                        stmt_new_function(name.at, name.lexeme, Tail(Top.nodes), body))
  /\ Building({ctl.node})

parse_return_statement ==
  /\ Reached("RETURN")
  /\ \/ parser_check("SEMICOLON") /\ YieldStatement(stack, parser_advance, stmt_new_return(NULL))
     \/ ~parser_check("SEMICOLON") /\ Call(stack, current, "return", <<>>, "assignment")
  /\ Quietly
ReturnEnds ==
  /\ Got("return")
  /\ parser_consume("SEMICOLON", Tail(stack), YieldStatement(Tail(stack), parser_advance, stmt_new_return(ctl.node)))

parse_var_declaration ==
  /\ Reached("var_declaration")
  /\ parser_consume("IDENTIFIER", stack,
       Goto(stack, parser_advance, "var_named", <<parser_peek.lexeme>>))
VarNamed ==
  /\ Reached("var_named")
  /\ IF parser_match({"EQUAL"})
     THEN Call(stack, parser_advance, "var", ctl.nodes, "assignment") /\ Quietly
     ELSE parser_consume("SEMICOLON", stack,
            YieldStatement(stack, parser_advance, stmt_new_var(ctl.nodes[1], NULL)))
VarEnds ==
  /\ Got("var")
  /\ parser_consume("SEMICOLON", Tail(stack),
       YieldStatement(Tail(stack), parser_advance, stmt_new_var(Top.nodes[1], ctl.node)))

-----------------------------------------------------------------------------
(* Expressions; parse_expression is parse_assignment.                      *)
parse_assignment ==
  Reached("assignment") /\ Call(stack, current, "assignment", <<>>, "or") /\ Quietly
AssignmentTarget ==
  /\ Returned("assignment")
  /\ \/ /\ parser_match({"EQUAL"})
        /\ Call(Tail(stack), parser_advance, "assignment_value", <<ctl.node>>, "assignment")
     \/ ~parser_match({"EQUAL"}) /\ Yield(Tail(stack), current, ctl.node)
  /\ Quietly

(* The type of the target is read without a test for NULL, and the value   *)
(* is not tested.                                                          *)
AssignmentValue ==
  /\ Returned("assignment_value")
  /\ LET expr == Top.nodes[1]
     IN  \/ /\ expr = NULL
            /\ ctl' = Crash
            /\ UNCHANGED <<current, stack>>
            /\ Quietly
         \/ /\ expr # NULL
            /\ expr.type = "variable"
            /\ Yield(Tail(stack), current, expr_new_assign(expr.name, ctl.node))
            /\ Building({ctl.node})
         \/ /\ expr # NULL
            /\ expr.type # "variable"
            /\ Yield(Tail(stack), current, expr)
            /\ error

(* parse_or, parse_and, parse_equality, parse_comparison, parse_term and   *)
(* parse_factor: the operators of a level, and the level of its operands.  *)
Operand == [or |-> "and", and |-> "equality", equality |-> "comparison",
            comparison |-> "term", term |-> "factor", factor |-> "unary"]
Levels == DOMAIN Operand
Operators == [or |-> {"OR"}, and |-> {"AND"}, equality |-> {"BANG_EQUAL", "EQUAL_EQUAL"},
              comparison |-> {"GREATER", "GREATER_EQUAL", "LESS", "LESS_EQUAL"},
              term |-> {"MINUS", "PLUS"}, factor |-> {"SLASH", "STAR"}]
LogicalLevels == {"or", "and"}

BinaryLevel ==
  /\ ctl.tag = "at"
  /\ ctl.point \in Levels
  /\ Call(stack, current, ctl.point, <<>>, Operand[ctl.point])
  /\ Quietly

(* What the loop of a level has so far: `left` is empty with the first     *)
(* operand, or the operand and the operator before the last one.           *)
Joined(level, left, right) ==
  IF left = <<>> THEN right
  ELSE IF level \in LogicalLevels THEN expr_new_logical(left[1], left[2], right)
  ELSE expr_new_binary(left[1], left[2], right)

(* Operators of a level that nest to the right. *)
FaultyBinaryOperand ==
  /\ ctl.tag = "return"
  /\ stack # <<>>
  /\ LET level == Top.fn
         left == Top.nodes
     IN  /\ level \in Levels
         /\ ctl.node # NULL \/ level \in LogicalLevels
         /\ \/ /\ parser_match(Operators[level])
               /\ Call(IF left = <<>> THEN Tail(stack) ELSE stack, parser_advance, level,
                       <<ctl.node, parser_peek.lexeme>>, Operand[level])
            \/ ~parser_match(Operators[level]) /\ Yield(Tail(stack), current, Joined(level, left, ctl.node))
         /\ Building({})

(* The loop of a level; only parse_or and parse_and do not test for NULL.  *)
BinaryOperand ==
  /\ ctl.tag = "return"
  /\ stack # <<>>
  /\ LET level == Top.fn
         left == Top.nodes
         expr == Joined(level, left, ctl.node)
     IN  /\ level \in Levels
         /\ ctl.node # NULL \/ level \in LogicalLevels
         /\ \/ /\ parser_match(Operators[level])
               /\ Call(Tail(stack), parser_advance, level, <<expr, parser_peek.lexeme>>, Operand[level])
            \/ ~parser_match(Operators[level]) /\ Yield(Tail(stack), current, expr)
         /\ Building(IF left = <<>> THEN {} ELSE {left[1], ctl.node})

(* parse_unary, and with it the beginning of parse_call.                   *)
parse_unary ==
  /\ Reached("unary")
  /\ \/ /\ parser_match({"BANG", "MINUS"})
        /\ Call(stack, parser_advance, "unary", <<parser_peek.lexeme>>, "unary")
     \/ ~parser_match({"BANG", "MINUS"}) /\ Call(stack, current, "call", <<>>, "primary")
  /\ Quietly
UnaryOperand ==
  /\ Got("unary")
  /\ Yield(Tail(stack), current, expr_new_unary(Top.nodes[1], ctl.node))
  /\ Quietly

(* The loop of parse_call, with a callee in hand, and finish_call; the     *)
(* nodes are the callee and the arguments so far.                          *)
parse_call ==
  /\ Got("call")
  /\ \/ parser_match({"LEFT_PAREN"}) /\ Goto(Tail(stack), parser_advance, "finish_call", <<ctl.node>>)
     \/ ~parser_match({"LEFT_PAREN"}) /\ Yield(Tail(stack), current, ctl.node)
  /\ Quietly
finish_call ==
  /\ Reached("finish_call")
  /\ Goto(stack, current, IF parser_check("RIGHT_PAREN") THEN "call_close" ELSE "argument", ctl.nodes)
  /\ Quietly

(* One argument too many is reported and taken.                            *)
CallArgument ==
  /\ Reached("argument")
  /\ HadError' = (HadError \/ Len(ctl.nodes) - 1 >= MAX_ARGUMENTS)
  /\ Call(stack, current, "argument", ctl.nodes, "assignment")
  /\ UNCHANGED <<tokens, hole>>
CallArgumentEnd ==
  /\ Got("argument")
  /\ LET nodes == Append(Top.nodes, ctl.node)
     IN  \/ parser_match({"COMMA"}) /\ Goto(Tail(stack), parser_advance, "argument", nodes)
         \/ ~parser_match({"COMMA"}) /\ Goto(Tail(stack), current, "call_close", nodes)
  /\ Quietly

(* The call is the callee of the next turn of the loop of parse_call.      *)
CallClose ==
  /\ Reached("call_close")
  /\ parser_consume("RIGHT_PAREN", stack,
       Yield(<<Frame(stack, current, "call", <<>>)>> \o stack, parser_advance,
             expr_new_call(Head(ctl.nodes), Tail(ctl.nodes))))

Literals == {"FALSE", "TRUE", "NIL", "NUMBER", "STRING"}
LiteralOf(token) ==
  CASE token.type \in {"FALSE", "TRUE"} -> OBJECT_BOOL(token.type = "TRUE")
    [] token.type = "NIL" -> OBJECT_NULL
    [] OTHER -> token.literal

parse_primary ==
  /\ Reached("primary")
  /\ \/ /\ parser_match(Literals)
        /\ Yield(stack, parser_advance, expr_new_literal(LiteralOf(parser_peek)))
        /\ Quietly
     \/ /\ parser_match({"IDENTIFIER"})
        /\ Yield(stack, parser_advance, expr_new_variable(parser_peek.lexeme))
        /\ Quietly
     \/ /\ parser_match({"LEFT_PAREN"})
        /\ Call(stack, parser_advance, "grouping", <<>>, "assignment")
        /\ Quietly
     \/ /\ ~parser_match({"IDENTIFIER", "LEFT_PAREN"} \cup Literals)
        /\ Yield(stack, current, NULL)
        /\ error

(* Neither the expression nor the parenthesis is tested.                   *)
Grouping ==
  /\ Returned("grouping")
  /\ Yield(Tail(stack), IF parser_check("RIGHT_PAREN") THEN parser_advance ELSE current,
           expr_new_grouping(ctl.node))
  /\ HadError' = (HadError \/ ~parser_check("RIGHT_PAREN"))
  /\ hole' = (hole \/ ctl.node = NULL)
  /\ UNCHANGED tokens

Next ==
  \/ parser_parse \/ ParsedDeclaration \/ parse_declaration \/ DeclarationEnds \/ parser_synchronize
  \/ parse_statement \/ BlockStatement \/ parse_block \/ BlockDeclaration \/ PassOnNull
  \/ parse_print_statement \/ PrintEnds
  \/ parse_expression_statement \/ ExpressionStatementEnds
  \/ parse_if_statement \/ IfCondition \/ IfThen \/ IfElse
  \/ parse_while_statement \/ WhileCondition \/ WhileBody
  \/ parse_for_statement \/ ForClauses \/ ForInitializer \/ ForInitialized
  \/ ForCondition \/ ForConditioned \/ ForIncrement \/ ForBody
  \/ parse_function \/ FunctionNamed \/ FunctionParameters \/ FunctionParameter
  \/ FunctionParameterEnd \/ FunctionClose \/ FunctionClosed \/ FunctionBody
  \/ parse_return_statement \/ ReturnEnds
  \/ parse_var_declaration \/ VarNamed \/ VarEnds
  \/ parse_assignment \/ AssignmentTarget \/ AssignmentValue
  \/ BinaryLevel \/ BinaryOperand
  \/ parse_unary \/ UnaryOperand
  \/ parse_call \/ finish_call \/ CallArgument \/ CallArgumentEnd \/ CallClose
  \/ parse_primary \/ Grouping

(* The parser is one thread of C code: it keeps running while it can.      *)
Spec == Init /\ [][Next]_vars /\ WF_vars(Next)

-----------------------------------------------------------------------------
(* Properties.                                                             *)

(* The cursor stays on the list, at its TOKEN_EOF at the latest, and no    *)
(* function returns to a point before the one it was called at.            *)
TypeOK ==
  /\ current \in 1 .. Len(tokens)
  /\ {HadError, hole} \subseteq BOOLEAN
  /\ \A n \in 1 .. Len(stack) : stack[n].from \in 1 .. current
  /\ ctl.tag \in {"at", "return", "done", "crash"}
  /\ ctl.tag = "return" => stack # <<>>

(* Half of the functions test what a nested one returns and half do not;   *)
(* whichever way a NULL takes, into a return value, into a tree or under a *)
(* pointer that is followed, the error flag is set by then.  So a text     *)
(* that library_run goes on to interpret has a tree without holes, and     *)
(* parsing it did not crash.                                               *)
NullsReported ==
  hole \/ ctl.tag = "crash" \/ (ctl.tag = "return" /\ ctl.node = NULL) => HadError

(* The trees of a text that is accepted are whole: no node lacks a child,  *)
(* or has one of another kind, whatever way through the functions of the   *)
(* parser, its lists and the loops it writes for `for` it was built on.    *)
TreesWhole ==
  ctl.tag = "done" /\ ~HadError =>
    \A n \in 1 .. Len(ctl.statements) : IsStatement(ctl.statements[n]) /\ ctl.statements[n].depth = 0

(* A declaration, a failed one too, leaves the loops of parser_parse and   *)
(* parse_block further on than it found them.                              *)
DeclarationsAdvance ==
  Returned("parser_parse") \/ Returned("block") => current > Top.from

(* Parsing ends, whatever the tokens are.                                  *)
ParserFinishes == <>(ctl.tag \in {"done", "crash"})

(* What parse_assignment says of a target that is no variable,             *)
(* `error(equals, "Invalid assignment target.")`, is what happens to every *)
(* such target: an error is reported, and nothing worse.                   *)
NullsNeverFollowed == ctl.tag # "crash"

(* A list that has grown past its limit has been reported by the time it   *)
(* is complete, by the error that was raised when it grew.                 *)
LimitsReported ==
  /\ Reached("function_close") /\ Len(ctl.nodes) - 1 > PARAMS_MAX => HadError
  /\ Reached("call_close") /\ Len(ctl.nodes) - 1 > MAX_ARGUMENTS => HadError
=============================================================================

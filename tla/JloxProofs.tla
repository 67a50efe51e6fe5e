----------------------------- MODULE JloxProofs -----------------------------
(***************************************************************************)
(* TLAPS proofs about module Jlox: whatever is typed, no null pointer of a *)
(* damaged line reaches the dump or the interpreter, and what is proved of *)
(* the interpreter for whole trees holds for the trees of the parser.      *)
(*                                                                         *)
(* The proof composes the ones of the three machines: what the scanner is  *)
(* shown to hand over is what the parser is assumed to get, and what the   *)
(* parser is shown to hand over is what the interpreter is assumed to run. *)
(***************************************************************************)
EXTENDS Jlox, TLAPS

-----------------------------------------------------------------------------
(* The machines with their proofs.  The tokens of the parser are the ones  *)
(* the scanner can cut out of a line, and the trees of the interpreter the *)
(* ones of the parser over these tokens, of any height.                    *)
SP == INSTANCE ScannerProofs WITH
        Texts <- Lines, start <- s_start, current <- s_current, line <- s_line,
        tokens <- s_tokens, pc <- s_pc

LineTokens ==
  {t \in {AsParsed(x, token) : x \in Lines, token \in SP!Scanned} :
     t.type = "IDENTIFIER" => t.lexeme \in Names}

PP == INSTANCE ParserProofs WITH
        Tokens <- LineTokens, Heights <- Nat, Inputs <- {}, tokens <- p_tokens,
        current <- p_current, ctl <- p_ctl, stack <- p_stack, hole <- p_hole

Nodes == PP!Expressions \cup PP!Statements
Whole == Seq(PP!StatementsAt(0))

J == INSTANCE ScopesProofs WITH
       Expressions <- PP!Expressions, Statements <- PP!Statements, Programs <- Whole,
       MaxRuns <- MaxLines, ctl <- i_ctl, stack <- i_stack

(* The assumptions of the machines. *)
LEMMA ScannerAssumptions ==
  /\ MaxNumber \in Nat \ {0}
  /\ \A t \in Lines : t \in Seq(STRING)
  /\ \A word \in DOMAIN Keyword : Keyword[word] \notin {"EOF", "IDENTIFIER"}
BY MaxNumberAssumption, LinesAssumption, KeywordAssumption

LEMMA ScannerNext == S!Next <=> SP!Next
BY Zenon
   DEF S!Digits, SP!Digits, S!Letters, SP!Letters, S!isdigit, SP!isdigit, S!is_alpha, SP!is_alpha,
     S!is_alphanumeric, SP!is_alphanumeric, S!Blanks, SP!Blanks, S!Single, SP!Single, S!SingleType,
     SP!SingleType, S!Comparing, SP!Comparing, S!ComparingType, SP!ComparingType, S!Expected,
     SP!Expected, S!Span, SP!Span, S!CString, SP!CString, S!DigitsInOrder, SP!DigitsInOrder,
     S!strtod, SP!strtod, S!source_begin, SP!source_begin, S!scanner_is_at_end,
     SP!scanner_is_at_end, S!scanner_match, SP!scanner_match, S!scanner_peek, SP!scanner_peek,
     S!scanner_peek_next, SP!scanner_peek_next, S!Advance, SP!Advance, S!scanner_add_token,
     SP!scanner_add_token, S!Scan, SP!Scan, S!SingleToken, SP!SingleToken, S!ComparingToken,
     SP!ComparingToken, S!Blank, SP!Blank, S!Newline, SP!Newline, S!Slash, SP!Slash, S!Comment,
     SP!Comment, S!Enter, SP!Enter, S!StringCharacter, SP!StringCharacter, S!StringUnterminated,
     SP!StringUnterminated, S!StringEnds, SP!StringEnds, S!FractionStarts, SP!FractionStarts,
     S!NumberDigit, SP!NumberDigit, S!NumberPoint, SP!NumberPoint, S!NumberEnds, SP!NumberEnds,
     S!IdentifierCharacter, SP!IdentifierCharacter, S!IdentifierEnds, SP!IdentifierEnds,
     S!Unexpected, SP!Unexpected, S!EndOfText, SP!EndOfText, S!LIST_INITIAL_CAPACITY,
     SP!LIST_INITIAL_CAPACITY, S!Zero, SP!Zero, S!LIST_INIT, SP!LIST_INIT, S!GC_REALLOC,
     SP!GC_REALLOC, S!Doubled, SP!Doubled, S!list_reserve_, SP!list_reserve_, S!LIST_PUSH,
     SP!LIST_PUSH, S!OBJECT_STRING, SP!OBJECT_STRING, S!OBJECT_NUMBER, SP!OBJECT_NUMBER,
     S!OBJECT_BOOL, SP!OBJECT_BOOL, S!OBJECT_NULL, SP!OBJECT_NULL, S!OBJECT_NATIVE_FUNCTION,
     SP!OBJECT_NATIVE_FUNCTION, S!OBJECT_FUNCTION, SP!OBJECT_FUNCTION, S!Next, SP!Next,
     S!SelectInSeq, SP!SelectInSeq, S!Min, SP!Min, S!Max, SP!Max, S!FoldLeft, SP!FoldLeft,
     S!MapThenFoldSet, SP!MapThenFoldSet

LEMMA ParserNext == P!Next <=> PP!Next
BY Zenon
   DEF P!Terminated, PP!Terminated, P!stmt_list, PP!stmt_list, P!parser_peek, PP!parser_peek,
     P!parser_is_at_end, PP!parser_is_at_end, P!parser_check, PP!parser_check, P!parser_match,
     PP!parser_match, P!parser_advance, PP!parser_advance, P!At, PP!At, P!Return, PP!Return, P!Done,
     PP!Done, P!Crash, PP!Crash, P!Top, PP!Top, P!Reached, PP!Reached, P!Returned, PP!Returned,
     P!Got, PP!Got, P!Opened, PP!Opened, P!Opens, PP!Opens, P!Inside, PP!Inside, P!Frame, PP!Frame,
     P!Call, PP!Call, P!Goto, PP!Goto, P!Yield, PP!Yield, P!Placed, PP!Placed, P!YieldStatement,
     PP!YieldStatement, P!Quietly, PP!Quietly, P!error, PP!error, P!Building, PP!Building,
     P!Missing, PP!Missing, P!parser_consume, PP!parser_consume, P!parser_parse, PP!parser_parse,
     P!ParsedDeclaration, PP!ParsedDeclaration, P!parse_declaration, PP!parse_declaration,
     P!StatementStarts, PP!StatementStarts, P!DeclarationEnds, PP!DeclarationEnds, P!Synchronized,
     PP!Synchronized, P!parser_synchronize, PP!parser_synchronize, P!Keywords, PP!Keywords,
     P!parse_statement, PP!parse_statement, P!BlockStatement, PP!BlockStatement, P!parse_block,
     PP!parse_block, P!BlockDeclaration, PP!BlockDeclaration, P!TestsForNull, PP!TestsForNull,
     P!PassOnNull, PP!PassOnNull, P!parse_print_statement, PP!parse_print_statement, P!PrintEnds,
     PP!PrintEnds, P!parse_expression_statement, PP!parse_expression_statement,
     P!ExpressionStatementEnds, PP!ExpressionStatementEnds, P!parse_if_statement,
     PP!parse_if_statement, P!IfCondition, PP!IfCondition, P!IfThen, PP!IfThen, P!IfElse, PP!IfElse,
     P!parse_while_statement, PP!parse_while_statement, P!WhileCondition, PP!WhileCondition,
     P!WhileBody, PP!WhileBody, P!parse_for_statement, PP!parse_for_statement, P!ForClauses,
     PP!ForClauses, P!ForInitializer, PP!ForInitializer, P!ForInitialized, PP!ForInitialized,
     P!ForCondition, PP!ForCondition, P!ForConditioned, PP!ForConditioned, P!ForIncrement,
     PP!ForIncrement, P!Desugared, PP!Desugared, P!ForBody, PP!ForBody, P!parse_function,
     PP!parse_function, P!FunctionNamed, PP!FunctionNamed, P!FunctionParameters,
     PP!FunctionParameters, P!FunctionParameter, PP!FunctionParameter, P!FunctionParameterEnd,
     PP!FunctionParameterEnd, P!FunctionClose, PP!FunctionClose, P!FunctionClosed,
     PP!FunctionClosed, P!FunctionBody, PP!FunctionBody, P!parse_return_statement,
     PP!parse_return_statement, P!ReturnEnds, PP!ReturnEnds, P!parse_var_declaration,
     PP!parse_var_declaration, P!VarNamed, PP!VarNamed, P!VarEnds, PP!VarEnds, P!parse_assignment,
     PP!parse_assignment, P!AssignmentTarget, PP!AssignmentTarget, P!AssignmentValue,
     PP!AssignmentValue, P!Operand, PP!Operand, P!Levels, PP!Levels, P!Operators, PP!Operators,
     P!LogicalLevels, PP!LogicalLevels, P!BinaryLevel, PP!BinaryLevel, P!Joined, PP!Joined,
     P!BinaryOperand, PP!BinaryOperand, P!parse_unary, PP!parse_unary, P!UnaryOperand,
     PP!UnaryOperand, P!parse_call, PP!parse_call, P!finish_call, PP!finish_call, P!CallArgument,
     PP!CallArgument, P!CallArgumentEnd, PP!CallArgumentEnd, P!CallClose, PP!CallClose, P!Literals,
     PP!Literals, P!LiteralOf, PP!LiteralOf, P!parse_primary, PP!parse_primary, P!Grouping,
     PP!Grouping, P!expr_new_assign, PP!expr_new_assign, P!expr_new_binary, PP!expr_new_binary,
     P!expr_new_call, PP!expr_new_call, P!expr_new_grouping, PP!expr_new_grouping,
     P!expr_new_literal, PP!expr_new_literal, P!expr_new_logical, PP!expr_new_logical,
     P!expr_new_unary, PP!expr_new_unary, P!expr_new_variable, PP!expr_new_variable,
     P!stmt_new_block, PP!stmt_new_block, P!stmt_new_expression, PP!stmt_new_expression,
     P!stmt_new_function, PP!stmt_new_function, P!stmt_new_if, PP!stmt_new_if, P!stmt_new_print,
     PP!stmt_new_print, P!stmt_new_return, PP!stmt_new_return, P!stmt_new_var, PP!stmt_new_var,
     P!stmt_new_while, PP!stmt_new_while, P!NULL, PP!NULL, P!OBJECT_STRING, PP!OBJECT_STRING,
     P!OBJECT_NUMBER, PP!OBJECT_NUMBER, P!OBJECT_BOOL, PP!OBJECT_BOOL, P!OBJECT_NULL,
     PP!OBJECT_NULL, P!OBJECT_NATIVE_FUNCTION, PP!OBJECT_NATIVE_FUNCTION, P!OBJECT_FUNCTION,
     PP!OBJECT_FUNCTION, P!Next, PP!Next

LEMMA InterpreterRun == I!Run <=> J!Run
BY Zenon
   DEF I!scopeVars, J!scopeVars, I!sessionVars, J!sessionVars, I!Globals, J!Globals, I!Idle, J!Idle,
     I!Evaluate, J!Evaluate, I!Execute, J!Execute, I!Call, J!Call, I!INTERPRET_OK, J!INTERPRET_OK,
     I!INTERPRET_ERROR, J!INTERPRET_ERROR, I!EXECUTION_RESULT_NONE, J!EXECUTION_RESULT_NONE,
     I!EXECUTION_RESULT_RUNTIME_ERROR, J!EXECUTION_RESULT_RUNTIME_ERROR, I!EXECUTION_RESULT_RETURN,
     J!EXECUTION_RESULT_RETURN, I!Frame, J!Frame, I!BlockFrame, J!BlockFrame, I!Advanced,
     J!Advanced, I!Top, J!Top, I!Waiting, J!Waiting, I!VisitingExpr, J!VisitingExpr, I!VisitingStmt,
     J!VisitingStmt, I!Await, J!Await, I!Resuming, J!Resuming, I!Pop, J!Pop, I!Result, J!Result,
     I!ExprFails, J!ExprFails, I!StmtFails, J!StmtFails, I!Interpret, J!Interpret, I!InterpretLoop,
     J!InterpretLoop, I!library_runtime_error, J!library_runtime_error, I!InterpretError,
     J!InterpretError, I!InterpretReturn, J!InterpretReturn, I!VisitLiteral, J!VisitLiteral,
     I!VisitVariable, J!VisitVariable, I!VisitGrouping, J!VisitGrouping, I!VisitAssign,
     J!VisitAssign, I!AssignValue, J!AssignValue, I!VisitBinary, J!VisitBinary, I!BinaryLeft,
     J!BinaryLeft, I!BinaryRight, J!BinaryRight, I!VisitLogical, J!VisitLogical, I!LogicalLeft,
     J!LogicalLeft, I!VisitUnary, J!VisitUnary, I!UnaryRight, J!UnaryRight, I!VisitCall,
     J!VisitCall, I!CallOperand, J!CallOperand, I!lox_clock, J!lox_clock, I!EnterBlock,
     J!EnterBlock, I!WithParameters, J!WithParameters, I!CallFunction, J!CallFunction,
     I!StackOverflow, J!StackOverflow, I!CallReturns, J!CallReturns, I!VisitBlock, J!VisitBlock,
     I!BlockLoop, J!BlockLoop, I!BlockExit, J!BlockExit, I!VisitExpression, J!VisitExpression,
     I!ExpressionValue, J!ExpressionValue, I!VisitPrint, J!VisitPrint, I!PrintValue, J!PrintValue,
     I!VisitReturn, J!VisitReturn, I!ReturnValue, J!ReturnValue, I!VisitFunction, J!VisitFunction,
     I!VisitIf, J!VisitIf, I!IfCondition, J!IfCondition, I!VisitVar, J!VisitVar, I!VarValue,
     J!VarValue, I!VisitWhile, J!VisitWhile, I!WhileCondition, J!WhileCondition, I!WhileBody,
     J!WhileBody, I!Run, J!Run, I!hash_table_new, J!hash_table_new, I!NeedsRehash, J!NeedsRehash,
     I!GrownCapacity, J!GrownCapacity, I!hash_table_insert, J!hash_table_insert, I!environment_new,
     J!environment_new, I!environment_new_enclosed, J!environment_new_enclosed,
     I!environment_define, J!environment_define, I!Holder, J!Holder, I!environment_get,
     J!environment_get, I!environment_assign, J!environment_assign, I!Infinity, J!Infinity, I!NaN,
     J!NaN, I!Numbers, J!Numbers, I!OBJECT_STRING, J!OBJECT_STRING, I!OBJECT_NUMBER,
     J!OBJECT_NUMBER, I!OBJECT_BOOL, J!OBJECT_BOOL, I!OBJECT_NULL, J!OBJECT_NULL,
     I!OBJECT_NATIVE_FUNCTION, J!OBJECT_NATIVE_FUNCTION, I!OBJECT_FUNCTION, J!OBJECT_FUNCTION,
     I!IsNumber, J!IsNumber, I!IsCallable, J!IsCallable, I!object_arity, J!object_arity, I!IsFinite,
     J!IsFinite, I!Rounded, J!Rounded, I!Negate, J!Negate, I!Add, J!Add, I!Multiply, J!Multiply,
     I!Divide, J!Divide, I!Arithmetic, J!Arithmetic, I!Compare, J!Compare, I!is_truthy, J!is_truthy,
     I!WithinDelta, J!WithinDelta, I!is_equal, J!is_equal, I!CanStringify, J!CanStringify,
     I!Success, J!Success, I!Failure, J!Failure, I!Abort, J!Abort, I!Unreachable, J!Unreachable,
     I!check_number_operand, J!check_number_operand, I!check_number_operands,
     J!check_number_operands, I!BinaryResult, J!BinaryResult, I!UnaryResult, J!UnaryResult,
     I!B!NoBindings, J!B!NoBindings, I!B!IsBound, J!B!IsBound, I!B!Bind, J!B!Bind, I!B!FirstValue,
     J!B!FirstValue, I!B!ReplaceFirst, J!B!ReplaceFirst, I!B!Rotate, J!B!Rotate, I!B!RotationOf,
     J!B!RotationOf, I!B!Rehashed, J!B!Rehashed

LEMMA InterpreterInterpret == ASSUME NEW p PROVE I!Interpret(p) <=> J!Interpret(p)
BY Zenon
   DEF I!Interpret, J!Interpret, I!Cardinality, J!Cardinality, I!Frame, J!Frame,
       I!scopeVars, J!scopeVars, I!EXECUTION_RESULT_NONE, J!EXECUTION_RESULT_NONE

LEMMA InterpreterInit == I!Init <=> J!Init
BY Zenon
   DEF I!Init, J!Init, I!Idle, J!Idle, I!Globals, J!Globals, I!hash_table_new, J!hash_table_new, I!NeedsRehash,
     J!NeedsRehash, I!GrownCapacity, J!GrownCapacity, I!hash_table_insert, J!hash_table_insert,
     I!environment_new, J!environment_new, I!environment_new_enclosed, J!environment_new_enclosed,
     I!environment_define, J!environment_define, I!Holder, J!Holder, I!environment_get,
     J!environment_get, I!environment_assign, J!environment_assign, I!Depth, J!Depth,
     I!OBJECT_NATIVE_FUNCTION, J!OBJECT_NATIVE_FUNCTION, I!B!NoBindings, J!B!NoBindings,
     I!B!IsBound, J!B!IsBound, I!B!Bind, J!B!Bind, I!B!FirstValue, J!B!FirstValue, I!B!ReplaceFirst,
     J!B!ReplaceFirst, I!B!Rotate, J!B!Rotate, I!B!RotationOf, J!B!RotationOf, I!B!Rehashed,
     J!B!Rehashed

(* And the properties of the interpreter. *)
LEMMA InterpreterProperties ==
  /\ I!EnvironmentRestored <=> J!EnvironmentRestored
  /\ I!LexicalScoping <=> J!LexicalScoping
  /\ I!ErrorsPropagate <=> J!ErrorsPropagate
BY Zenon
   DEF I!EnvironmentRestored, J!EnvironmentRestored, I!Restored, J!Restored, I!Leaves, J!Leaves,
       I!Globals, J!Globals, I!LexicalScoping, J!LexicalScoping, I!Depth, J!Depth,
       I!ErrorsPropagate, J!ErrorsPropagate

LEMMA ParserAssumptions ==
  /\ MaxNumber \in Nat \ {0}
  /\ PARAMS_MAX \in Nat /\ MAX_ARGUMENTS \in Nat
  /\ {} \subseteq Seq(LineTokens) /\ \A input \in {} : PP!Terminated(input)
BY MaxNumberAssumption, LimitsAssumption

-----------------------------------------------------------------------------
(* The trees.                                                              *)

(* What the scanner hands over as a literal is one to the interpreter. *)
LEMMA LiteralsAreLiterals ==
  ASSUME NEW obj \in SP!Literals
  PROVE  J!IsLiteral(Literal(obj))
<1>1. CASE IsNumber(obj)
  <2> DEFINE n == obj.d.digits \div 10 ^ obj.d.places
             d == IF n \in 0 .. MaxNumber THEN n ELSE Infinity
  <2>1. Literal(obj) = OBJECT_NUMBER(d)
    BY <1>1 DEF Literal
  <2>. HIDE DEF n
  <2>2. d \in J!Numbers
    BY MaxNumberAssumption DEF J!Numbers, J!Infinity, J!NaN, Infinity
  <2>. HIDE DEF d
  <2>. QED
    BY <2>1, <2>2 DEF J!IsLiteral, OBJECT_NUMBER
<1>2. CASE ~IsNumber(obj)
  <2>1. Literal(obj) = obj
    BY <1>2 DEF Literal
  <2>2. obj.type \in {"null", "string"}
    BY <1>2 DEF SP!Literals, SP!OBJECT_NULL, SP!OBJECT_NUMBER, SP!OBJECT_STRING, IsNumber
  <2>. QED
    BY <2>1, <2>2 DEF J!IsLiteral
<1>. QED
  BY <1>1, <1>2

LEMMA TokensFacts ==
  /\ PP!Identifiers \subseteq Names
  /\ \A obj \in PP!Constants : J!IsLiteral(obj)
<1>1. PP!Identifiers \subseteq Names
  BY DEF PP!Identifiers, LineTokens
<1>2. ASSUME NEW t \in LineTokens PROVE J!IsLiteral(t.literal)
  <2>1. PICK x \in Lines, token \in SP!Scanned : t = AsParsed(x, token)
    BY DEF LineTokens
  <2>2. t.literal = Literal(token.literal)
    BY <2>1 DEF AsParsed
  <2>3. token.literal \in SP!Literals
    BY DEF SP!Scanned
  <2>. QED
    BY <2>2, <2>3, LiteralsAreLiterals
<1>3. J!IsLiteral(PP!OBJECT_BOOL(TRUE)) /\ J!IsLiteral(PP!OBJECT_BOOL(FALSE))
  <2>1. ASSUME NEW b \in BOOLEAN PROVE J!IsLiteral(PP!OBJECT_BOOL(b))
    <3>1. PP!OBJECT_BOOL(b).type = "bool" /\ PP!OBJECT_BOOL(b).b = b
      BY DEF PP!OBJECT_BOOL
    <3>. QED
      BY <3>1 DEF J!IsLiteral
  <2>. QED
    BY <2>1
<1>4. J!IsLiteral(PP!OBJECT_NULL)
  BY DEF PP!OBJECT_NULL, J!IsLiteral
<1>. QED
  BY <1>1, <1>2, <1>3, <1>4 DEF PP!Constants

LEMMA TreesOver ==
  /\ PP!Expressions \subseteq PP!ExpressionsOver(PP!Expressions)
  /\ PP!Statements \subseteq PP!StatementsOver(PP!Expressions, PP!Statements)
BY ParserAssumptions, PP!TreesAreOver

(* A child of a node is a node, and the children of a node that opens a    *)
(* scope are one level deeper.                                             *)
LEMMA ExpressionsAreExpressions ==
  ASSUME NEW x \in PP!Expressions
  PROVE  J!IsExpression(x)
<1>1. x \in PP!ExpressionsOver(PP!Expressions)
  BY TreesOver
<1> DEFINE E == PP!Expressions
           C == PP!Constants
           Ids == PP!Identifiers
<1>. HIDE DEF E, C, Ids
<1>2. /\ x.type = "literal" => x.value \in C
      /\ x.type = "variable" => x.name \in Ids
      /\ x.type = "assign" => x.name \in Ids /\ x.value \in E
      /\ x.type \in {"binary", "logical"} => x.left \in E /\ x.right \in E
      /\ x.type = "grouping" => x.expression \in E
      /\ x.type = "unary" => x.right \in E
      /\ x.type = "call" => x.callee \in E /\ x.arguments \in Seq(E)
  BY <1>1 DEF PP!ExpressionsOver, E, C, Ids
<1>. QED
  BY <1>2, TokensFacts DEF J!IsExpression, E, C, Ids

LEMMA StatementsAreStatements ==
  ASSUME NEW s \in PP!Statements
  PROVE  J!IsStatement(s)
<1>1. s \in PP!ShapesOver(PP!Expressions, PP!Statements) /\ PP!Nested(s)
  BY TreesOver DEF PP!StatementsOver
<1>2. /\ s.type = "block" => s.statements \in Seq(PP!Statements)
      /\ s.type \in {"expression", "print"} => s.expression \in PP!Expressions
      /\ s.type = "function" => s.params \in Seq(PP!Identifiers) /\ s.body \in Seq(PP!Statements)
      /\ s.type = "if" =>
           /\ s.condition \in PP!Expressions
           /\ s.then_branch \in PP!Statements
           /\ s.else_branch \in PP!Statements \cup {NULL}
      /\ s.type = "return" => s.value \in PP!Expressions \cup {NULL}
      /\ s.type = "var" => s.initializer \in PP!Expressions \cup {NULL}
      /\ s.type = "while" => s.condition \in PP!Expressions /\ s.body \in PP!Statements
  BY <1>1 DEF PP!ShapesOver, PP!NULL, NULL
<1>3. s.type = "function" => s.params \in Seq(Names)
  BY <1>2, TokensFacts
<1>. QED
  BY <1>1, <1>2, <1>3 DEF PP!Nested, PP!AllAt, PP!NULL, NULL, J!IsStatement, J!AllAt, J!IsBranch

LEMMA InterpreterAssumptions ==
  /\ MaxNumber \in Nat \ {0}
  /\ J!TreesAssumption
  /\ J!ClockAssumption
<1>1. \A p \in Whole : J!AllAt(p, 0)
  BY DEF Whole, PP!StatementsAt, J!AllAt
<1>2. J!TreesAssumption
  BY <1>1, ExpressionsAreExpressions, StatementsAreStatements DEF J!TreesAssumption
<1>3. J!ClockAssumption
  BY ClockAssumption DEF J!ClockAssumption, J!Numbers, J!Infinity, J!NaN, Numbers, Infinity, NaN
<1>. QED
  BY <1>2, <1>3, MaxNumberAssumption

(* The dump goes from nodes to nodes. *)
LEMMA NodesArePresent ==
  /\ \A x \in PP!Expressions : x.type \notin StatementTypes /\ x # NULL
  /\ \A s \in PP!Statements : s.type \in StatementTypes /\ s # NULL
<1>1. ASSUME NEW x \in PP!Expressions
      PROVE  x.type \notin StatementTypes /\ x # NULL
  <2>1. x.type \in {"literal", "variable", "assign", "binary", "logical", "grouping", "unary", "call"}
    BY TreesOver DEF PP!ExpressionsOver
  <2>. QED
    BY <2>1 DEF StatementTypes, NULL
<1>2. ASSUME NEW s \in PP!Statements
      PROVE  s.type \in StatementTypes /\ s # NULL
  <2>1. s.type \in StatementTypes
    BY TreesOver DEF PP!StatementsOver, PP!ShapesOver, StatementTypes
  <2>. QED
    BY <2>1 DEF StatementTypes, NULL
<1>. QED
  BY <1>1, <1>2

LEMMA VisitedAreNodes ==
  ASSUME NEW node \in Nodes
  PROVE  Visited(node) \in Seq(Nodes)
<1>1. CASE node \in PP!Expressions
  <2>1. node.type \in {"literal", "variable", "assign", "binary", "logical", "grouping", "unary", "call"}
    BY <1>1, TreesOver DEF PP!ExpressionsOver
  <2>2. Visited(node) = expr_debug(node)
    BY <1>1, NodesArePresent DEF Visited
  <2>3. J!IsExpression(node)
    BY <1>1, ExpressionsAreExpressions
  <2>4. PP!Expressions \subseteq Nodes
    BY DEF Nodes
  <2>. HIDE DEF Nodes
  <2>5. node.type = "call" => <<node.callee>> \o node.arguments \in Seq(Nodes)
    BY <2>3, <2>4 DEF J!IsExpression
  <2>. QED
    BY <2>1, <2>2, <2>3, <2>4, <2>5 DEF J!IsExpression, expr_debug
<1>2. CASE node \in PP!Statements
  <2>1. node.type \in StatementTypes
    BY <1>2, NodesArePresent
  <2>2. Visited(node) = stmt_debug(node)
    BY <2>1 DEF Visited
  <2>3. J!IsStatement(node)
    BY <1>2, StatementsAreStatements
  <2>4. PP!Expressions \subseteq Nodes /\ PP!Statements \subseteq Nodes
    BY DEF Nodes
  <2>. HIDE DEF Nodes
  <2>5. \A child \in Nodes \cup {NULL} : Present(child) \in Seq(Nodes)
    BY DEF Present
  <2>6. node.type = "if" => <<node.condition, node.then_branch>> \o Present(node.else_branch) \in Seq(Nodes)
    <3>1. node.type = "if" =>
            /\ node.condition \in Nodes /\ node.then_branch \in Nodes
            /\ Present(node.else_branch) \in Seq(Nodes)
      BY <2>3, <2>4, <2>5 DEF J!IsStatement, J!IsBranch
    <3>. HIDE DEF Present
    <3>. QED
      BY <3>1
  <2>7. node.type = "block" => node.statements \in Seq(Nodes)
    BY <2>3, <2>4 DEF J!IsStatement, J!AllAt
  <2>. QED
    BY <2>1, <2>2, <2>3, <2>4, <2>5, <2>6, <2>7 DEF J!IsStatement, J!IsBranch, stmt_debug, StatementTypes
<1>. QED
  BY <1>1, <1>2 DEF Nodes

-----------------------------------------------------------------------------
(* From the scanner to the parser.                                         *)

(* The lexeme of an identifier is one of the names of the interpreter. *)
LEMMA WordsAreNames ==
  ASSUME text \in Lines, NEW token \in SP!Scanned, token.type = "IDENTIFIER", SP!WholeWord(token),
         token.start < token.stop, token.stop <= Len(text)
  PROVE  Spelled(SubSeq(text, token.start + 1, token.stop)) \in Names
<1> DEFINE word == SubSeq(text, token.start + 1, token.stop)
<1>1. token.start \in Nat /\ token.stop \in Nat /\ Len(text) \in Nat
  BY LinesAssumption DEF SP!Scanned
<1>2. SP!IsWord(text, token.start, token.stop) /\ word \notin DOMAIN Keyword
  BY KeywordAssumption DEF SP!WholeWord, SP!Span
<1>3. S!IsWord(text, token.start, token.stop)
  BY <1>2 DEF SP!IsWord, S!IsWord, SP!is_alpha, S!is_alpha, SP!is_alphanumeric, S!is_alphanumeric,
              SP!isdigit, S!isdigit, SP!Letters, S!Letters, SP!Digits, S!Digits
<1>4. word \in Words(text)
  <2> DEFINE spans == {p \in (0 .. Len(text) - 1) \X (1 .. Len(text)) :
                         p[1] < p[2] /\ S!IsWord(text, p[1], p[2])}
             span == <<token.start, token.stop>>
  <2>1. span \in (0 .. Len(text) - 1) \X (1 .. Len(text))
    BY <1>1
  <2>2. span[1] = token.start /\ span[2] = token.stop
    OBVIOUS
  <2>3. span \in spans
    BY <1>3, <2>1, <2>2
  <2>. QED
    BY <2>2, <2>3 DEF Words
<1>. HIDE DEF word
<1>5. word \in (UNION {Words(t) : t \in Lines}) \ DOMAIN Keyword
  BY <1>2, <1>4
<1>. QED
  BY <1>5 DEF Names, word

LEMMA TokensOfLine ==
  ASSUME SP!ScannerInv, SP!WordInv, s_pc = "done"
  PROVE  LET list == [n \in 1 .. s_tokens.length |-> AsParsed(text, s_tokens.pointer[n])]
         IN  list \in Seq(LineTokens) /\ PP!Terminated(list)
<1> DEFINE list == [n \in 1 .. s_tokens.length |-> AsParsed(text, s_tokens.pointer[n])]
<1>1. /\ text \in Lines /\ s_tokens.length \in Nat /\ Len(text) \in Nat
      /\ s_tokens.length > 0 /\ s_tokens.pointer[s_tokens.length].type = "EOF"
      /\ s_current \in 0 .. Len(text)
  BY LinesAssumption DEF SP!ScannerInv, SP!Fit, SP!WellFormed, SP!Token
<1>2. ASSUME NEW n \in 1 .. s_tokens.length
      PROVE  /\ s_tokens.pointer[n] \in SP!Scanned
             /\ SP!WholeWord(s_tokens.pointer[n])
             /\ s_tokens.pointer[n].stop \in 0 .. s_current
             /\ s_tokens.pointer[n].type = "EOF" => n = s_tokens.length
             /\ s_tokens.pointer[n].type # "EOF" => s_tokens.pointer[n].start < s_tokens.pointer[n].stop
  <2>1. s_pc \notin SP!InToken
    BY DEF SP!InToken
  <2>2. SP!Fit(text, s_tokens, s_current, s_pc)
    BY <2>1 DEF SP!ScannerInv
  <2>. QED
    BY <2>2 DEF SP!Fit, SP!WordInv, SP!WordsWhole, SP!Token
<1>3. ASSUME NEW n \in 1 .. s_tokens.length
      PROVE  list[n] \in LineTokens /\ list[n].type = s_tokens.pointer[n].type
  <2>1. list[n] = AsParsed(text, s_tokens.pointer[n])
    OBVIOUS
  <2>2. /\ list[n].type = s_tokens.pointer[n].type
        /\ list[n].lexeme = Spelled(SubSeq(text, s_tokens.pointer[n].start + 1, s_tokens.pointer[n].stop))
    BY <2>1 DEF AsParsed
  <2>3. s_tokens.pointer[n].stop <= Len(text)
    BY <1>1, <1>2
  <2>4. list[n].type = "IDENTIFIER" => list[n].lexeme \in Names
    BY <1>1, <1>2, <2>2, <2>3, WordsAreNames
  <2>5. list[n] \in {AsParsed(x, token) : x \in Lines, token \in SP!Scanned}
    BY <1>1, <1>2, <2>1
  <2>. QED
    BY <2>2, <2>4, <2>5 DEF LineTokens
<1>4. list \in Seq(LineTokens) /\ Len(list) = s_tokens.length
  <2>1. list \in [1 .. s_tokens.length -> LineTokens]
    BY <1>3
  <2>. HIDE DEF list
  <2>. QED
    BY <1>1, <2>1
<1>5. PP!Terminated(list)
  <2>. HIDE DEF list
  <2>. QED
    BY <1>1, <1>2, <1>3, <1>4 DEF PP!Terminated
<1>. QED
  BY <1>4, <1>5

-----------------------------------------------------------------------------
(* The steps of the machines.                                              *)

LEMMA ScannerStarts == SP!Starts => SP!ScannerInv /\ SP!WordInv
BY ScannerAssumptions, SP!StartsScannerInv, SP!StartsWordInv

LEMMA ScannerStartsNext == SP!Starts' => SP!ScannerInv' /\ SP!WordInv'
BY ScannerStarts, PTL

LEMMA ScannerKeeps ==
  ASSUME SP!ScannerInv, SP!WordInv, S!Next
  PROVE  SP!ScannerInv' /\ SP!WordInv'
BY ScannerAssumptions, ScannerNext, SP!NextKeepsInv, SP!NextKeepsWords

LEMMA ParserStarts == PP!Starts => PP!ParserInv /\ PP!TreeInv
BY ParserAssumptions, PP!StartsParserInv, PP!StartsTreeInv

LEMMA ParserStartsNext == PP!Starts' => PP!ParserInv' /\ PP!TreeInv'
BY ParserStarts, PTL

LEMMA ParserKeeps ==
  ASSUME PP!ParserInv, PP!TreeInv, P!Next
  PROVE  PP!ParserInv' /\ PP!TreeInv'
BY ParserAssumptions, ParserNext, PP!NextKeepsInv, PP!NextKeepsTrees

InterpreterInv == J!Scoping /\ J!FlagInv /\ J!ErrorsPropagate

LEMMA InterpreterStarts == I!Init => InterpreterInv
<1>1. J!Init => J!Scoping
  BY InterpreterAssumptions, J!InitScoping
<1>2. J!Init => J!FlagInv /\ J!ErrorsPropagate
  BY DEF J!Init, J!FlagInv, J!ErrorsPropagate
<1>. QED
  BY <1>1, <1>2, InterpreterInit DEF InterpreterInv

LEMMA InterpreterKeeps ==
  ASSUME InterpreterInv,
         I!Run \/ (\E p \in Whole : I!Interpret(p)) \/ UNCHANGED interpreterVars
  PROVE  InterpreterInv'
<1>1. J!ProgramStep
  BY InterpreterRun, InterpreterInterpret DEF J!ProgramStep, J!vars, interpreterVars
<1>2. J!Scoping'
  BY <1>1, InterpreterAssumptions, J!StepScoping DEF InterpreterInv
<1>3. J!Step
  BY <1>1, InterpreterAssumptions, J!ProgramStepSteps
<1>4. J!FlagInv' /\ J!ErrorsPropagate'
  BY <1>3, InterpreterAssumptions, J!StepErrorsPropagate DEF InterpreterInv
<1>. QED
  BY <1>2, <1>4 DEF InterpreterInv

-----------------------------------------------------------------------------
(* The inductive invariant: between two lines the machines are as new, the *)
(* scanner and the parser keep their invariants while they work, and what  *)
(* is dumped and run are whole trees.                                      *)
NoScanner == s_start = 0 /\ s_current = 0 /\ s_line = 1 /\ s_tokens = S!LIST_INIT /\ s_pc = "scan"

JloxInv ==
  /\ pc \in {"prompt", "scan", "parse", "dump", "interpret", "returned"}
  /\ Keywords \in {<<>>, Keyword}
  /\ pc = "prompt" => HadError = FALSE /\ NoScanner /\ NoParser
  /\ pc = "scan" => SP!ScannerInv /\ SP!WordInv /\ NoParser
  /\ pc = "parse" => PP!ParserInv /\ PP!TreeInv
  /\ pc \in {"dump", "interpret"} => ~p_hole /\ p_ctl.statements \in Whole
  /\ todo \in Seq(Nodes)
  /\ InterpreterInv

LEMMA InitJloxInv == Init => JloxInv
<1> SUFFICES ASSUME Init PROVE JloxInv
  OBVIOUS
<1>1. InterpreterInv
  BY InterpreterStarts DEF Init
<1>2. todo \in Seq(Nodes)
  BY DEF Init
<1>. QED
  BY <1>1, <1>2 DEF Init, JloxInv, NoScanner

LEMMA ReadLineKeepsInv ==
  ASSUME JloxInv, ReadLine
  PROVE  JloxInv'
<1>1. /\ pc = "prompt" /\ pc' = "scan" /\ text' \in Lines
      /\ UNCHANGED <<HadError, s_start, s_current, s_line, s_tokens, Keywords, s_pc, parserVars, todo,
                     interpreterVars>>
  BY DEF ReadLine
<1>2. HadError = FALSE /\ NoScanner /\ NoParser /\ Keywords \in {<<>>, Keyword}
  BY <1>1 DEF JloxInv
<1>3. S!LIST_INIT = SP!LIST_INIT
  BY DEF S!LIST_INIT, SP!LIST_INIT
<1>4. SP!Starts'
  BY <1>1, <1>2, <1>3 DEF SP!Starts, NoScanner
<1>5. SP!ScannerInv' /\ SP!WordInv'
  BY <1>4, ScannerStartsNext
<1>6. NoParser'
  BY <1>1, <1>2 DEF NoParser, parserVars, P!At
<1>7. InterpreterInv' /\ todo' \in Seq(Nodes)
  BY <1>1, InterpreterKeeps DEF JloxInv
<1>. QED
  BY <1>1, <1>2, <1>5, <1>6, <1>7 DEF JloxInv

LEMMA ScannerStepKeepsInv ==
  ASSUME JloxInv, ScannerStep
  PROVE  JloxInv'
<1>1. /\ pc = "scan" /\ pc' = "scan" /\ S!Next /\ UNCHANGED <<parserVars, todo, interpreterVars>>
  BY DEF ScannerStep
<1>2. SP!ScannerInv /\ SP!WordInv /\ NoParser
  BY <1>1 DEF JloxInv
<1>3. SP!ScannerInv' /\ SP!WordInv'
  BY <1>1, <1>2, ScannerKeeps
<1>4. Keywords' \in {<<>>, Keyword}
  BY <1>3 DEF SP!WordInv
<1>5. NoParser'
  BY <1>1, <1>2 DEF NoParser, parserVars, P!At
<1>6. InterpreterInv' /\ todo' \in Seq(Nodes)
  BY <1>1, InterpreterKeeps DEF JloxInv
<1>. QED
  BY <1>1, <1>3, <1>4, <1>5, <1>6 DEF JloxInv

LEMMA TokenizedKeepsInv ==
  ASSUME JloxInv, Tokenized
  PROVE  JloxInv'
<1> DEFINE list == [n \in 1 .. s_tokens.length |-> AsParsed(text, s_tokens.pointer[n])]
<1>1. /\ pc = "scan" /\ pc' = "parse" /\ s_pc = "done" /\ p_tokens' = list
      /\ UNCHANGED <<HadError, Keywords, p_current, p_ctl, p_stack, p_hole, todo, interpreterVars>>
  BY DEF Tokenized, scannerVars
<1>2. SP!ScannerInv /\ SP!WordInv /\ NoParser /\ Keywords \in {<<>>, Keyword}
  BY <1>1 DEF JloxInv
<1>3. list \in Seq(LineTokens) /\ PP!Terminated(list)
  BY <1>1, <1>2, TokensOfLine
<1>4. HadError \in BOOLEAN
  BY <1>2 DEF SP!ScannerInv
<1>. HIDE DEF list
<1>5. p_current' = 1 /\ p_ctl' = PP!At("parser_parse", <<>>) /\ p_stack' = <<>> /\ p_hole' = FALSE
  BY <1>1, <1>2 DEF NoParser, P!At, PP!At
<1>6. PP!Starts'
  <2>1. PP!Terminated(p_tokens)'
    BY <1>1, <1>3 DEF PP!Terminated
  <2>2. PP!At("parser_parse", <<>>)' = PP!At("parser_parse", <<>>)
    BY DEF PP!At
  <2>. QED
    BY <1>1, <1>3, <1>4, <1>5, <2>1, <2>2 DEF PP!Starts
<1>7. PP!ParserInv' /\ PP!TreeInv'
  BY <1>6, ParserStartsNext
<1>8. InterpreterInv' /\ todo' \in Seq(Nodes)
  BY <1>1, InterpreterKeeps DEF JloxInv
<1>. QED
  BY <1>1, <1>2, <1>7, <1>8 DEF JloxInv

LEMMA ParserStepKeepsInv ==
  ASSUME JloxInv, ParserStep
  PROVE  JloxInv'
<1>1. /\ pc = "parse" /\ pc' = "parse" /\ P!Next /\ UNCHANGED <<Keywords, todo, interpreterVars>>
  BY DEF ParserStep, scannerVars
<1>2. PP!ParserInv /\ PP!TreeInv /\ Keywords \in {<<>>, Keyword}
  BY <1>1 DEF JloxInv
<1>3. PP!ParserInv' /\ PP!TreeInv'
  BY <1>1, <1>2, ParserKeeps
<1>4. InterpreterInv' /\ todo' \in Seq(Nodes)
  BY <1>1, InterpreterKeeps DEF JloxInv
<1>. QED
  BY <1>1, <1>2, <1>3, <1>4 DEF JloxInv

LEMMA ParsedKeepsInv ==
  ASSUME JloxInv, Parsed
  PROVE  JloxInv'
<1>1. /\ pc = "parse" /\ p_ctl.tag = "done"
      /\ IF HadError THEN pc' = "returned" /\ UNCHANGED todo
         ELSE pc' = "dump" /\ todo' = p_ctl.statements
      /\ UNCHANGED <<HadError, Keywords, p_ctl, p_hole, interpreterVars>>
  BY DEF Parsed, Rejects, scannerVars, parserVars
<1>2. PP!ParserInv /\ PP!TreeInv /\ Keywords \in {<<>>, Keyword} /\ todo \in Seq(Nodes)
  BY <1>1 DEF JloxInv
<1>3. InterpreterInv'
  BY <1>1, InterpreterKeeps DEF JloxInv
<1>4. CASE HadError
  BY <1>1, <1>2, <1>3, <1>4 DEF JloxInv
<1>5. CASE ~HadError
  <2>1. ~p_hole /\ p_ctl.statements \in Whole
    BY <1>1, <1>2, <1>5 DEF PP!ParserInv, PP!TreeInv, PP!Typed, PP!CtlTyped, Whole
  <2>2. p_ctl.statements \in Seq(Nodes)
    <3>1. PP!StatementsAt(0) \subseteq Nodes
      BY DEF PP!StatementsAt, Nodes
    <3>. HIDE DEF Nodes
    <3>. QED
      BY <2>1, <3>1 DEF Whole
  <2>. QED
    BY <1>1, <1>2, <1>3, <1>5, <2>1, <2>2 DEF JloxInv
<1>. QED
  BY <1>4, <1>5

LEMMA DumpKeepsInv ==
  ASSUME JloxInv, Dump
  PROVE  JloxInv'
<1>1. /\ pc = "dump" /\ todo # <<>> /\ todo' = Visited(Head(todo)) \o Tail(todo)
      /\ UNCHANGED <<pc, Keywords, p_ctl, p_hole, interpreterVars>>
  BY DEF Dump, scannerVars, parserVars
<1>2. todo \in Seq(Nodes)
  BY DEF JloxInv
<1>3. todo' \in Seq(Nodes)
  <2>. HIDE DEF Nodes
  <2>1. Head(todo) \in Nodes /\ Tail(todo) \in Seq(Nodes)
    BY <1>1, <1>2
  <2>2. Visited(Head(todo)) \in Seq(Nodes)
    BY <2>1, VisitedAreNodes
  <2>. QED
    BY <1>1, <2>1, <2>2
<1>4. InterpreterInv'
  BY <1>1, InterpreterKeeps DEF JloxInv
<1>. QED
  BY <1>1, <1>3, <1>4 DEF JloxInv

LEMMA DumpedKeepsInv ==
  ASSUME JloxInv, Dumped
  PROVE  JloxInv'
<1>1. /\ pc = "dump" /\ pc' = "interpret" /\ I!Interpret(p_ctl.statements)
      /\ UNCHANGED <<Keywords, p_ctl, p_hole, todo>>
  BY DEF Dumped, scannerVars, parserVars
<1>2. ~p_hole /\ p_ctl.statements \in Whole
  BY <1>1 DEF JloxInv
<1>3. InterpreterInv'
  BY <1>1, <1>2, InterpreterKeeps DEF JloxInv
<1>. QED
  BY <1>1, <1>2, <1>3 DEF JloxInv

LEMMA InterpreterStepKeepsInv ==
  ASSUME JloxInv, InterpreterStep
  PROVE  JloxInv'
<1>1. /\ pc = "interpret" /\ pc' \in {"interpret", "returned"} /\ I!Run
      /\ UNCHANGED <<Keywords, p_ctl, p_hole, todo>>
  BY DEF InterpreterStep, scannerVars, parserVars
<1>2. InterpreterInv'
  BY <1>1, InterpreterKeeps DEF JloxInv
<1>. QED
  BY <1>1, <1>2 DEF JloxInv

LEMMA LineDoneKeepsInv ==
  ASSUME JloxInv, LineDone
  PROVE  JloxInv'
<1>1. /\ pc' = "prompt" /\ HadError' = FALSE /\ NoScanner' /\ NoParser'
      /\ UNCHANGED <<Keywords, todo, interpreterVars>>
  BY DEF LineDone, NoScanner, NoParser, S!LIST_INIT, P!At
<1>2. InterpreterInv'
  BY <1>1, InterpreterKeeps DEF JloxInv
<1>. QED
  BY <1>1, <1>2 DEF JloxInv

LEMMA StutteringKeepsInv ==
  ASSUME JloxInv, UNCHANGED vars
  PROVE  JloxInv'
<1>1. /\ UNCHANGED <<pc, HadError, text, s_start, s_current, s_line, s_tokens, Keywords, s_pc>>
      /\ UNCHANGED <<p_tokens, p_current, p_ctl, p_stack, p_hole, todo, interpreterVars>>
  BY DEF vars, scannerVars, parserVars
<1>2. pc = "scan" => SP!ScannerInv' /\ SP!WordInv'
  BY <1>1, ScannerAssumptions, SP!NextKeepsInv, SP!NextKeepsWords DEF JloxInv, SP!vars
<1>3. pc = "parse" => PP!ParserInv' /\ PP!TreeInv'
  BY <1>1, ParserAssumptions, PP!NextKeepsInv, PP!NextKeepsTrees DEF JloxInv, PP!vars
<1>4. InterpreterInv'
  BY <1>1, InterpreterKeeps DEF JloxInv
<1>5. NoScanner => NoScanner'
  BY <1>1 DEF NoScanner, S!LIST_INIT
<1>6. NoParser => NoParser'
  BY <1>1 DEF NoParser, P!At
<1>. QED
  BY <1>1, <1>2, <1>3, <1>4, <1>5, <1>6 DEF JloxInv

LEMMA NextKeepsInv == JloxInv /\ [Next]_vars => JloxInv'
BY ReadLineKeepsInv, ScannerStepKeepsInv, TokenizedKeepsInv, ParserStepKeepsInv, ParsedKeepsInv,
   DumpKeepsInv, DumpedKeepsInv, InterpreterStepKeepsInv, LineDoneKeepsInv, StutteringKeepsInv
   DEF Next, library_run

LEMMA SpecJloxInv == Spec => []JloxInv
BY InitJloxInv, NextKeepsInv, PTL DEF Spec

-----------------------------------------------------------------------------
(* The null pointers that the parser leaves in the tree of a damaged line  *)
(* stop at the test of HadError in library_run: for every set of lines,    *)
(* every table of keywords and every session, the nodes that the dump, the *)
(* expression visitors and the statement visitors are entered with exist.  *)
THEOREM TreesAreWhole == Spec => []WholeTrees
<1>1. ASSUME JloxInv PROVE WholeTrees
  <2>1. pc \in {"dump", "interpret"} => ~p_hole
    BY <1>1 DEF JloxInv
  <2>2. ASSUME NEW n \in 1 .. Len(todo) PROVE todo[n] # NULL
    <3>1. todo[n] \in Nodes
      <4>. HIDE DEF Nodes
      <4>. QED
        BY <1>1 DEF JloxInv
    <3>. QED
      BY <3>1, NodesArePresent DEF Nodes
  <2>3. J!IsControl(envs, environment, i_ctl)
    BY <1>1 DEF JloxInv, InterpreterInv, J!Scoping, J!Scoped, J!ScopeInv
  <2>4. i_ctl.tag = "evaluate" => i_ctl.expr # NULL
    BY <2>3, NodesArePresent DEF J!IsControl
  <2>5. i_ctl.tag = "execute" => i_ctl.stmt # NULL
    BY <2>3, NodesArePresent DEF J!IsControl, J!IsBranch
  <2>. QED
    BY <2>1, <2>2, <2>4, <2>5 DEF WholeTrees
<1>. QED
  BY <1>1, SpecJloxInv, PTL

(* Over a session in which lines fail in the scanner, in the parser or in  *)
(* the interpreter, interpreter->environment is what it was whenever a     *)
(* call returns and the globals when the next line is read: no line leaves *)
(* the scope of one of its blocks or calls behind.                         *)
THEOREM SessionRestoresScopes == Spec => []EnvironmentRestored
<1>1. ASSUME JloxInv PROVE EnvironmentRestored
  <2>1. J!StackInv
    BY <1>1 DEF JloxInv, InterpreterInv, J!Scoping, J!Scoped
  <2>2. J!EnvironmentRestored
    BY <2>1 DEF J!StackInv, J!Restored, J!EnvironmentRestored
  <2>. QED
    BY <2>2, InterpreterProperties DEF EnvironmentRestored
<1>. QED
  BY <1>1, SpecJloxInv, PTL

(* The trees that the parser builds of any text, the loops it makes of     *)
(* for statements included, run in environments nested as deeply as the    *)
(* statements are in the text, also in a function that an earlier line     *)
(* left among the globals.                                                 *)
THEOREM SessionScopesLexically == Spec => []LexicalScoping
<1>1. ASSUME JloxInv PROVE LexicalScoping
  <2>1. J!IsControl(envs, environment, i_ctl)
    BY <1>1 DEF JloxInv, InterpreterInv, J!Scoping, J!Scoped, J!ScopeInv
  <2>2. J!LexicalScoping
    BY <2>1 DEF J!LexicalScoping, J!IsControl, J!IsBranch
  <2>. QED
    BY <2>2, InterpreterProperties DEF LexicalScoping
<1>. QED
  BY <1>1, SpecJloxInv, PTL

(* A runtime error on any line of a session is all the interpreter deals   *)
(* with until library_runtime_error has it, and the line after it starts   *)
(* without it.                                                             *)
THEOREM SessionReportsErrors == Spec => []ErrorsPropagate
<1>1. ASSUME JloxInv PROVE ErrorsPropagate
  BY <1>1, InterpreterProperties DEF JloxInv, InterpreterInv, ErrorsPropagate
<1>. QED
  BY <1>1, SpecJloxInv, PTL
=============================================================================

-------------------------------- MODULE Jlox --------------------------------
(***************************************************************************)
(* The program at its prompt: each line goes through the scanner, the      *)
(* parser, the dump of its statements and, if neither of the first two     *)
(* has reported an error, the one interpreter, which keeps its globals     *)
(* from line to line.                                                      *)
(*                                                                         *)
(* The machines are those of modules Scanner, Parser and Interpreter.      *)
(* They share HadError, the scanner's table of keywords outlives a line,   *)
(* and the rest of the scanner and the parser is new for every line.  What *)
(* a character, a lexeme and a number are differs between the machines;    *)
(* AsParsed is the conversion of a token.                                  *)
(***************************************************************************)
EXTENDS Objects, FiniteSets, SequencesExt

CONSTANTS
  Lines,             \* texts that may be typed, each at most once
  MaxLines,          \* bound: lines typed
  Keyword,           \* what init_keywords enters
  PARAMS_MAX, MAX_ARGUMENTS,
  INITIAL_CAPACITY, MaxStack, ClockReadings   \* see module Interpreter

ASSUME LinesAssumption == \A t \in Lines : t \in Seq(STRING)
ASSUME KeywordAssumption == \A word \in DOMAIN Keyword : Keyword[word] \notin {"EOF", "IDENTIFIER"}
ASSUME LimitsAssumption == PARAMS_MAX \in Nat /\ MAX_ARGUMENTS \in Nat
ASSUME ClockAssumption == ClockReadings \subseteq Numbers

VARIABLES
  pc,         \* where library_run_prompt is
  typed,      \* history: the lines typed so far
  HadError,   \* the flag of lib.c
  text, s_start, s_current, s_line, s_tokens, Keywords, s_pc,       \* the scanner
  p_tokens, p_current, p_ctl, p_stack, p_hole,                      \* the parser
  todo,                                                             \* the dump: nodes to be printed
  i_ctl, i_stack, environment, envs, out, HadRuntimeError,          \* the interpreter
  ran, raised, swallowed

scannerVars == <<text, s_start, s_current, s_line, s_tokens, Keywords, s_pc>>
parserVars == <<p_tokens, p_current, p_ctl, p_stack, p_hole>>
interpreterVars ==
  <<i_ctl, i_stack, environment, envs, out, HadRuntimeError, ran, raised, swallowed>>
vars == <<pc, typed, HadError, scannerVars, parserVars, todo, interpreterVars>>

NULL == [type |-> "NULL"]
NoText == <<>>

S == INSTANCE Scanner WITH
       Texts <- Lines, start <- s_start, current <- s_current, line <- s_line,
       tokens <- s_tokens, pc <- s_pc
P == INSTANCE Parser WITH
       Tokens <- {}, Heights <- {}, Inputs <- {}, tokens <- p_tokens, current <- p_current,
       ctl <- p_ctl, stack <- p_stack, hole <- p_hole

-----------------------------------------------------------------------------
(* The lexeme of a token is the string it was copied to, and its number,   *)
(* a decimal to the scanner, one of the doubles of module Objects.         *)
Spelled(chars) == FoldLeft(LAMBDA s, c : s \o c, "", chars)
Literal(obj) ==
  IF IsNumber(obj)
  THEN LET n == obj.d.digits \div 10 ^ obj.d.places
       IN  OBJECT_NUMBER(IF n \in 0 .. MaxNumber THEN n ELSE Infinity)
  ELSE obj
AsParsed(t, token) ==
  [type |-> token.type, lexeme |-> Spelled(SubSeq(t, token.start + 1, token.stop)),
   literal |-> Literal(token.literal), at |-> <<t, token.start>>]

(* The names a program may use: what interpreter_new defines, and the      *)
(* words of the lines, from a letter that no letter precedes to the end of *)
(* the letters and digits, that are no keywords.                           *)
Words(t) ==
  {SubSeq(t, span[1] + 1, span[2]) :
     span \in {p \in (0 .. Len(t) - 1) \X (1 .. Len(t)) : p[1] < p[2] /\ S!IsWord(t, p[1], p[2])}}
Names == {"clock"} \cup {Spelled(word) : word \in (UNION {Words(t) : t \in Lines}) \ DOMAIN Keyword}

I == INSTANCE Interpreter WITH
       Programs <- {}, MaxRuns <- MaxLines, ctl <- i_ctl, stack <- i_stack

-----------------------------------------------------------------------------
(* The dump: the nodes that expr_debug and stmt_debug visit below a node,  *)
(* in this order.  Functions and returns are not printed.                  *)
expr_debug(e) ==
  CASE e.type = "assign" -> <<e.value>>
    [] e.type \in {"binary", "logical"} -> <<e.left, e.right>>
    [] e.type = "call" -> <<e.callee>> \o e.arguments
    [] e.type = "grouping" -> <<e.expression>>
    [] e.type = "unary" -> <<e.right>>
    [] e.type \in {"literal", "variable"} -> <<>>

Present(node) == IF node = NULL THEN <<>> ELSE <<node>>
stmt_debug(s) ==
  CASE s.type = "block" -> s.statements
    [] s.type \in {"expression", "print"} -> <<s.expression>>
    [] s.type = "if" -> <<s.condition, s.then_branch>> \o Present(s.else_branch)
    [] s.type = "var" -> Present(s.initializer)
    [] s.type = "while" -> <<s.condition, s.body>>
    [] s.type \in {"function", "return"} -> <<>>

StatementTypes == {"block", "expression", "print", "if", "var", "while", "function", "return"}
Visited(node) == IF node.type \in StatementTypes THEN stmt_debug(node) ELSE expr_debug(node)

-----------------------------------------------------------------------------
(* Between two lines there is no scanner and no parser.                    *)
NoParser ==
  /\ p_tokens = <<>>
  /\ p_current = 1
  /\ p_ctl = P!At("parser_parse", <<>>)
  /\ p_stack = <<>>
  /\ p_hole = FALSE

Init ==
  /\ pc = "prompt"
  /\ typed = {}
  /\ text = NoText
  /\ HadError = FALSE
  /\ s_start = 0 /\ s_current = 0 /\ s_line = 1 /\ s_tokens = S!LIST_INIT /\ s_pc = "scan"
  /\ Keywords = <<>>
  /\ NoParser
  /\ todo = <<>>
  /\ I!Init

(* getline, and scanner_new.                                               *)
ReadLine ==
  /\ pc = "prompt"
  /\ \E t \in Lines \ typed :
       /\ Cardinality(typed) < MaxLines
       /\ text' = t
       /\ typed' = typed \cup {t}
  /\ pc' = "scan"
  /\ UNCHANGED <<HadError, s_start, s_current, s_line, s_tokens, Keywords, s_pc, parserVars, todo, interpreterVars>>

ScannerStep ==
  /\ pc = "scan"
  /\ S!Next
  /\ UNCHANGED <<pc, typed, parserVars, todo, interpreterVars>>

(* scanner_scan_tokens returns, and parser_new.                            *)
Tokenized ==
  /\ pc = "scan"
  /\ s_pc = "done"
  /\ p_tokens' = [n \in 1 .. s_tokens.length |-> AsParsed(text, s_tokens.pointer[n])]
  /\ pc' = "parse"
  /\ UNCHANGED <<typed, HadError, scannerVars, p_current, p_ctl, p_stack, p_hole, todo,
                 interpreterVars>>

ParserStep ==
  /\ pc = "parse"
  /\ P!Next
  /\ UNCHANGED <<pc, typed, scannerVars, todo, interpreterVars>>

(* Variants named Faulty... are the mistakes the properties must reject;   *)
(* no specification uses them.  Here: only a parser that returns nothing   *)
(* keeps library_run from going on.                                        *)
FaultyRejects == HadError /\ p_ctl.statements = <<>>

(* parser_parse returns, and so does library_run after an error.           *)
Rejects == HadError
Parsed ==
  /\ pc = "parse"
  /\ p_ctl.tag = "done"
  /\ IF Rejects THEN pc' = "returned" /\ UNCHANGED todo
     ELSE pc' = "dump" /\ todo' = p_ctl.statements
  /\ UNCHANGED <<typed, HadError, scannerVars, parserVars, interpreterVars>>

(* The loop over the statements: stmt_debug or expr_debug is entered, with *)
(* the nodes below first among those that are left.  Then interpret.       *)
Dump ==
  /\ pc = "dump"
  /\ todo # <<>>
  /\ todo' = Visited(Head(todo)) \o Tail(todo)
  /\ UNCHANGED <<pc, typed, HadError, scannerVars, parserVars, interpreterVars>>
Dumped ==
  /\ pc = "dump"
  /\ todo = <<>>
  /\ I!Interpret(p_ctl.statements)
  /\ pc' = "interpret"
  /\ UNCHANGED <<typed, HadError, scannerVars, parserVars, todo>>

InterpreterStep ==
  /\ pc = "interpret"
  /\ I!Run
  /\ pc' = IF i_ctl'.tag = "idle" THEN "returned" ELSE pc
  /\ UNCHANGED <<typed, HadError, scannerVars, parserVars, todo>>

(* The flag keeps its value.                                               *)
FaultyLineDone ==
  /\ pc = "returned"
  /\ pc' = "prompt"
  /\ text' = NoText
  /\ s_start' = 0 /\ s_current' = 0 /\ s_line' = 1 /\ s_tokens' = S!LIST_INIT /\ s_pc' = "scan"
  /\ p_tokens' = <<>> /\ p_current' = 1 /\ p_ctl' = P!At("parser_parse", <<>>) /\ p_stack' = <<>>
  /\ p_hole' = FALSE
  /\ UNCHANGED <<HadError, typed, Keywords, todo, interpreterVars>>

(* library_run returns, HadError is reset, and the line is freed;          *)
(* HadRuntimeError is reset in Interpret, where the next line needs it.    *)
LineDone ==
  /\ pc = "returned"
  /\ pc' = "prompt"
  /\ HadError' = FALSE
  /\ text' = NoText
  /\ s_start' = 0 /\ s_current' = 0 /\ s_line' = 1 /\ s_tokens' = S!LIST_INIT /\ s_pc' = "scan"
  /\ p_tokens' = <<>> /\ p_current' = 1 /\ p_ctl' = P!At("parser_parse", <<>>) /\ p_stack' = <<>>
  /\ p_hole' = FALSE
  /\ UNCHANGED <<typed, Keywords, todo, interpreterVars>>

library_run ==
  \/ ScannerStep \/ Tokenized \/ ParserStep \/ Parsed \/ Dump \/ Dumped \/ InterpreterStep
  \/ LineDone

Next == ReadLine \/ library_run

(* The program is one thread: it works on a line while it can.  Nobody is  *)
(* obliged to type another one.                                            *)
Spec == Init /\ [][Next]_vars /\ WF_vars(library_run)

-----------------------------------------------------------------------------
(* Properties.                                                             *)

(* The null pointers that the parser leaves in the tree of a damaged line  *)
(* go no further than the test of HadError: the dump and the visitors of   *)
(* the interpreter, which follow the pointers to their nodes without a     *)
(* test, meet none, wherever in the tree they are.                         *)
WholeTrees ==
  pc \in {"dump", "interpret"} =>
    /\ ~p_hole
    /\ \A n \in 1 .. Len(todo) : todo[n] # NULL
    /\ i_ctl.tag = "evaluate" => i_ctl.expr # NULL
    /\ i_ctl.tag = "execute" => i_ctl.stmt # NULL

(* The properties of module Interpreter, for the trees the parser builds,  *)
(* over a session in which lines fail at any stage.                        *)
EnvironmentRestored == I!EnvironmentRestored
LexicalScoping == I!LexicalScoping
ErrorsPropagate == I!ErrorsPropagate

(* Every line comes to an end: back to the prompt, to a failed assertion,  *)
(* or to the null pointer that parse_assignment follows.                   *)
LinesFinish == pc # "prompt" ~> pc = "prompt" \/ p_ctl.tag = "crash" \/ i_ctl.tag = "abort"
=============================================================================

---------------------------- MODULE Interpreter ----------------------------
(***************************************************************************)
(* The tree-walking interpreter of interpreter.c as a machine with an      *)
(* explicit stack.                                                         *)
(*                                                                         *)
(* Each C call that waits for a nested evaluate or interpreter_execute is  *)
(* a frame of `stack`, the innermost first; `ctl` is what the innermost    *)
(* call is doing: visiting a node, or returning one of the results of enum *)
(* interpret_result_type and enum execution_result_type.  A visitor that   *)
(* ends in a nested call and returns its result unchanged leaves no frame. *)
(* A syntax tree is a record with the fields of its C struct; a statement  *)
(* also carries the number of blocks and function bodies around it, and a  *)
(* function its address, which is what is_equal compares.                  *)
(*                                                                         *)
(* One interpreter runs program after program, as it does at the prompt;   *)
(* a script is a session of one program.                                   *)
(***************************************************************************)
EXTENDS Objects, Environment, FiniteSets

CONSTANTS
  Programs,       \* the statement lists that may be run, each at most once
  MaxRuns,        \* bound: programs per session
  MaxStack,       \* bound: calls that may be waiting when a function is called
  ClockReadings,  \* what time(NULL) - init_time may be
  NULL            \* the null pointer

VARIABLES
  ctl,              \* what the innermost call is doing
  stack,            \* the calls that are waiting, innermost first
  environment,      \* interpreter->environment
  envs,             \* the heap of environments
  out,              \* what the current run has printed
  HadRuntimeError,  \* the flag of lib.c
  ran,              \* the programs run so far
  raised,           \* history: a runtime error of the current run is under way or reported
  swallowed         \* history: a loop of the current run has dropped a runtime error

scopeVars == <<environment, envs>>
sessionVars == <<out, HadRuntimeError, ran>>
vars == <<ctl, stack, environment, envs, out, HadRuntimeError, ran, raised, swallowed>>

Globals == 1

-----------------------------------------------------------------------------
(* What ctl may be.                                                        *)
Idle == [tag |-> "idle"]
Evaluate(e) == [tag |-> "evaluate", expr |-> e]
Execute(s) == [tag |-> "execute", stmt |-> s]
Call(callee, arguments) == [tag |-> "call", callee |-> callee, arguments |-> arguments]
INTERPRET_OK(obj) == Success(obj)
INTERPRET_ERROR(err) == Failure(err)
EXECUTION_RESULT_NONE == [tag |-> "none"]
EXECUTION_RESULT_RUNTIME_ERROR(err) == [tag |-> "runtime_error", error |-> err]
EXECUTION_RESULT_RETURN(obj) == [tag |-> "return", value |-> obj]

(* The frames: the function that waits, the node it visits (a list of      *)
(* statements for interpret and interpreter_execute_block), the objects it *)
(* has computed, its loop counter, and its locals `previous` and           *)
(* `environment`.  Only interpreter_execute_block has these two; in the    *)
(* others the latter records interpreter->environment at the time the      *)
(* function began to wait.                                                 *)
Frame(fn, node, objects) ==
  [fn |-> fn, node |-> node, objects |-> objects, i |-> 0,
   previous |-> 0, environment |-> environment]
BlockFrame(statements, e) ==
  [fn |-> "execute_block", node |-> statements, objects |-> <<>>, i |-> 0,
   previous |-> environment, environment |-> e]
Advanced(f) ==
  [fn |-> f.fn, node |-> f.node, objects |-> f.objects, i |-> f.i + 1,
   previous |-> f.previous, environment |-> f.environment]

Top == Head(stack)
Waiting(fn) == stack # <<>> /\ Top.fn = fn

(* A visitor is entered, and calls evaluate on a child and waits.          *)
VisitingExpr(type) == ctl.tag = "evaluate" /\ ctl.expr.type = type
VisitingStmt(type) == ctl.tag = "execute" /\ ctl.stmt.type = type
Await(frame, child) ==
  /\ stack' = <<frame>> \o stack
  /\ ctl' = Evaluate(child)
  /\ UNCHANGED <<scopeVars, sessionVars, raised, swallowed>>

(* The call evaluate returns to the visitor fn that waits for it.          *)
Resuming(fn) == Waiting(fn) /\ ctl.tag \in {"ok", "error"}
Pop == stack' = Tail(stack)

(* A visitor returns a result, or an error it has created itself.          *)
Result(r) ==
  /\ ctl' = r
  /\ raised' = (raised \/ r.tag = "error")

(* The early return of a visitor whose nested evaluate failed.             *)
ExprFails == ctl.tag = "error" /\ UNCHANGED <<ctl, raised>>
StmtFails ==
  /\ ctl.tag = "error"
  /\ ctl' = EXECUTION_RESULT_RUNTIME_ERROR(ctl.error)
  /\ UNCHANGED raised

-----------------------------------------------------------------------------
(* interpreter_new                                                         *)
Init ==
  /\ ctl = Idle
  /\ stack = <<>>
  /\ environment = Globals
  /\ envs \in environment_define(<<environment_new>>, Globals, "clock",
                                 OBJECT_NATIVE_FUNCTION(0, "lox_clock"))
  /\ out = <<>>
  /\ HadRuntimeError = FALSE
  /\ ran = {}
  /\ raised = FALSE
  /\ swallowed = FALSE

(* library_run hands a program to interpret; library_run_prompt has reset  *)
(* the error flag after the run before.                                    *)
Interpret(statements) ==
  /\ ctl.tag = "idle"
  /\ Cardinality(ran) < MaxRuns
  /\ stack' = <<Frame("interpret", statements, <<>>)>> \o stack
  /\ ctl' = EXECUTION_RESULT_NONE
  /\ out' = <<>>
  /\ HadRuntimeError' = FALSE
  /\ ran' = ran \cup {statements}
  /\ raised' = FALSE
  /\ swallowed' = FALSE
  /\ UNCHANGED scopeVars

(* The loop of interpret: the next statement, or the end of the run.       *)
InterpretLoop ==
  /\ Waiting("interpret")
  /\ ctl.tag = "none"
  /\ IF Top.i < Len(Top.node)
     THEN /\ ctl' = Execute(Top.node[Top.i + 1])
          /\ stack' = <<Advanced(Top)>> \o Tail(stack)
     ELSE ctl' = Idle /\ Pop
  /\ UNCHANGED <<scopeVars, sessionVars, raised, swallowed>>

(* An error that has come this far is reported, and ends the run.          *)
library_runtime_error == HadRuntimeError' = TRUE

InterpretError ==
  /\ Waiting("interpret")
  /\ ctl.tag = "runtime_error"
  /\ library_runtime_error
  /\ ctl' = Idle
  /\ Pop
  /\ UNCHANGED <<scopeVars, out, ran, raised, swallowed>>

InterpretReturn ==
  /\ Waiting("interpret")
  /\ ctl.tag = "return"
  /\ ctl' = Abort("interpret: entered unreachable code")
  /\ UNCHANGED <<stack, scopeVars, sessionVars, raised, swallowed>>

-----------------------------------------------------------------------------
(* Expressions.                                                            *)

VisitLiteral ==
  /\ VisitingExpr("literal")
  /\ ctl' = INTERPRET_OK(ctl.expr.value)
  /\ UNCHANGED <<stack, scopeVars, sessionVars, raised, swallowed>>

VisitVariable ==
  /\ VisitingExpr("variable")
  /\ Result(IF Holder(envs, environment, ctl.expr.name) = 0
            THEN INTERPRET_ERROR("undefined variable")
            ELSE INTERPRET_OK(environment_get(envs, environment, ctl.expr.name)))
  /\ UNCHANGED <<stack, scopeVars, sessionVars, swallowed>>

VisitGrouping ==
  /\ VisitingExpr("grouping")
  /\ ctl' = Evaluate(ctl.expr.expression)
  /\ UNCHANGED <<stack, scopeVars, sessionVars, raised, swallowed>>

VisitAssign ==
  /\ VisitingExpr("assign")
  /\ Await(Frame("assign", ctl.expr, <<>>), ctl.expr.value)

AssignValue ==
  /\ Resuming("assign")
  /\ Pop
  /\ \/ ExprFails /\ UNCHANGED envs
     \/ /\ ctl.tag = "ok"
        /\ IF Holder(envs, environment, Top.node.name) = 0
           THEN Result(INTERPRET_ERROR("undefined variable")) /\ UNCHANGED envs
           ELSE /\ envs' = environment_assign(envs, environment, Top.node.name, ctl.value)
                /\ UNCHANGED <<ctl, raised>>
  /\ UNCHANGED <<environment, sessionVars, swallowed>>

VisitBinary ==
  /\ VisitingExpr("binary")
  /\ Await(Frame("binary_left", ctl.expr, <<>>), ctl.expr.left)

BinaryLeft ==
  /\ Resuming("binary_left")
  /\ \/ ExprFails /\ Pop
     \/ /\ ctl.tag = "ok"
        /\ stack' = <<Frame("binary_right", Top.node, <<ctl.value>>)>> \o Tail(stack)
        /\ ctl' = Evaluate(Top.node.right)
        /\ UNCHANGED raised
  /\ UNCHANGED <<scopeVars, sessionVars, swallowed>>

BinaryRight ==
  /\ Resuming("binary_right")
  /\ Pop
  /\ \/ ExprFails
     \/ /\ ctl.tag = "ok"
        /\ Result(BinaryResult(Top.node.op, Top.objects[1], ctl.value))
  /\ UNCHANGED <<scopeVars, sessionVars, swallowed>>

VisitLogical ==
  /\ VisitingExpr("logical")
  /\ Await(Frame("logical", ctl.expr, <<>>), ctl.expr.left)

LogicalLeft ==
  /\ Resuming("logical")
  /\ Pop
  /\ \/ ExprFails
     \/ /\ ctl.tag = "ok"
        /\ ctl' = IF is_truthy(ctl.value) = (Top.node.op = "or")
                  THEN ctl
                  ELSE Evaluate(Top.node.right)
        /\ UNCHANGED raised
  /\ UNCHANGED <<scopeVars, sessionVars, swallowed>>

VisitUnary ==
  /\ VisitingExpr("unary")
  /\ Await(Frame("unary", ctl.expr, <<>>), ctl.expr.right)

UnaryRight ==
  /\ Resuming("unary")
  /\ Pop
  /\ \/ ExprFails
     \/ ctl.tag = "ok" /\ Result(UnaryResult(Top.node.op, ctl.value))
  /\ UNCHANGED <<scopeVars, sessionVars, swallowed>>

VisitCall ==
  /\ VisitingExpr("call")
  /\ Await(Frame("call", ctl.expr, <<>>), ctl.expr.callee)

(* The callee, then the arguments from left to right; with all of them     *)
(* there, the two checks and interpreter_call.                             *)
CallOperand ==
  /\ Resuming("call")
  /\ \/ ExprFails /\ Pop
     \/ /\ ctl.tag = "ok"
        /\ LET objects == Append(Top.objects, ctl.value)
               callee == Head(objects)
               arguments == Tail(objects)
           IN  IF Len(arguments) < Len(Top.node.arguments)
               THEN /\ stack' = <<Frame("call", Top.node, objects)>> \o Tail(stack)
                    /\ ctl' = Evaluate(Top.node.arguments[Len(arguments) + 1])
                    /\ UNCHANGED raised
               ELSE /\ Pop
                    /\ Result(CASE ~IsCallable(callee) -> INTERPRET_ERROR("can only call functions")
                                [] IsCallable(callee) /\ object_arity(callee) # Len(arguments) ->
                                     INTERPRET_ERROR("wrong number of arguments")
                                [] OTHER -> Call(callee, arguments))
  /\ UNCHANGED <<scopeVars, sessionVars, swallowed>>

lox_clock ==
  /\ ctl.tag = "call"
  /\ ctl.callee.type = "native_function"
  /\ \E t \in ClockReadings : ctl' = INTERPRET_OK(OBJECT_NUMBER(t))
  /\ UNCHANGED <<stack, scopeVars, sessionVars, raised, swallowed>>

(* interpreter_execute_block, as far as its loop: `waiting` are the calls  *)
(* it returns to.                                                          *)
EnterBlock(statements, e, waiting) ==
  /\ stack' = <<BlockFrame(statements, e)>> \o waiting
  /\ environment' = e
  /\ ctl' = EXECUTION_RESULT_NONE
  /\ UNCHANGED <<sessionVars, raised, swallowed>>

(* Variants named Faulty... are the mistakes the properties must reject;   *)
(* no specification uses them.  Here: the loop ends one parameter early.   *)
FaultyWithParameters(es, e, params, arguments) ==
  LET Defined[n \in 0 .. Len(params)] ==
        IF n = 0 THEN {es}
        ELSE UNION {environment_define(d, e, params[n], arguments[n]) : d \in Defined[n - 1]}
  IN  Defined[IF params = <<>> THEN 0 ELSE Len(params) - 1]

(* The parameters, defined in order in a new environment.                  *)
WithParameters(es, e, params, arguments) ==
  LET Defined[n \in 0 .. Len(params)] ==
        IF n = 0 THEN {es}
        ELSE UNION {environment_define(d, e, params[n], arguments[n]) : d \in Defined[n - 1]}
  IN  Defined[Len(params)]

(* Dynamic scope: the environment of the caller around the parameters. *)
FaultyCallFunction ==
  /\ ctl.tag = "call"
  /\ ctl.callee.type = "function"
  /\ Len(stack) < MaxStack
  /\ LET declaration == ctl.callee.f.declaration
         e == Len(envs) + 1
     IN  /\ envs' \in WithParameters(Append(envs, environment_new_enclosed(environment)),
                                     e, declaration.params, ctl.arguments)
         /\ EnterBlock(declaration.body, e, <<Frame("interpreter_call", declaration, <<>>)>> \o stack)

CallFunction ==
  /\ ctl.tag = "call"
  /\ ctl.callee.type = "function"
  /\ Len(stack) < MaxStack
  /\ LET declaration == ctl.callee.f.declaration
         e == Len(envs) + 1
     IN  /\ envs' \in WithParameters(Append(envs, environment_new_enclosed(ctl.callee.f.closure)),
                                     e, declaration.params, ctl.arguments)
         /\ EnterBlock(declaration.body, e, <<Frame("interpreter_call", declaration, <<>>)>> \o stack)

(* The visitors are recursive C functions and nothing counts how deep they *)
(* are: a program that recurses for ever exhausts the stack of the process.*)
StackOverflow ==
  /\ ctl.tag = "call"
  /\ ctl.callee.type = "function"
  /\ Len(stack) >= MaxStack
  /\ ctl' = Abort("stack overflow")
  /\ UNCHANGED <<stack, scopeVars, sessionVars, raised, swallowed>>

(* The result of the block returned as the result of the call. *)
FaultyCallReturns ==
  /\ Waiting("interpreter_call")
  /\ ctl.tag \in {"none", "runtime_error", "return"}
  /\ Pop
  /\ ctl' = CASE ctl.tag = "runtime_error" -> ctl
              [] ctl.tag = "return" -> INTERPRET_OK(ctl.value)
              [] ctl.tag = "none" -> INTERPRET_OK(OBJECT_NULL)
  /\ UNCHANGED <<scopeVars, sessionVars, raised, swallowed>>

CallReturns ==
  /\ Waiting("interpreter_call")
  /\ ctl.tag \in {"none", "runtime_error", "return"}
  /\ Pop
  /\ ctl' = CASE ctl.tag = "runtime_error" -> INTERPRET_ERROR(ctl.error)
              [] ctl.tag = "return" -> INTERPRET_OK(ctl.value)
              [] ctl.tag = "none" -> INTERPRET_OK(OBJECT_NULL)
  /\ UNCHANGED <<scopeVars, sessionVars, raised, swallowed>>

-----------------------------------------------------------------------------
(* Statements.                                                             *)

VisitBlock ==
  /\ VisitingStmt("block")
  /\ envs' = Append(envs, environment_new_enclosed(environment))
  /\ EnterBlock(ctl.stmt.statements, Len(envs) + 1, stack)

(* The loop of interpreter_execute_block: the next statement ...           *)
BlockLoop ==
  /\ Waiting("execute_block")
  /\ ctl.tag = "none"
  /\ Top.i < Len(Top.node)
  /\ ctl' = Execute(Top.node[Top.i + 1])
  /\ stack' = <<Advanced(Top)>> \o Tail(stack)
  /\ UNCHANGED <<scopeVars, sessionVars, raised, swallowed>>

(* An early return from the loop, past the line that restores. *)
FaultyBlockExit ==
  /\ Waiting("execute_block")
  /\ \/ ctl.tag = "none" /\ Top.i >= Len(Top.node)
     \/ ctl.tag \in {"runtime_error", "return"}
  /\ environment' = IF ctl.tag = "none" THEN Top.previous ELSE environment
  /\ Pop
  /\ UNCHANGED <<ctl, envs, sessionVars, raised, swallowed>>

(* ... or the way out, after the last one or with a result of another kind *)
(* than NONE, which is passed on.                                          *)
BlockExit ==
  /\ Waiting("execute_block")
  /\ \/ ctl.tag = "none" /\ Top.i >= Len(Top.node)
     \/ ctl.tag \in {"runtime_error", "return"}
  /\ environment' = Top.previous
  /\ Pop
  /\ UNCHANGED <<ctl, envs, sessionVars, raised, swallowed>>

VisitExpression ==
  /\ VisitingStmt("expression")
  /\ Await(Frame("expression", ctl.stmt, <<>>), ctl.stmt.expression)

ExpressionValue ==
  /\ Resuming("expression")
  /\ Pop
  /\ \/ StmtFails
     \/ ctl.tag = "ok" /\ Result(EXECUTION_RESULT_NONE)
  /\ UNCHANGED <<scopeVars, sessionVars, swallowed>>

VisitPrint ==
  /\ VisitingStmt("print")
  /\ Await(Frame("print", ctl.stmt, <<>>), ctl.stmt.expression)

PrintValue ==
  /\ Resuming("print")
  /\ Pop
  /\ \/ StmtFails /\ UNCHANGED out
     \/ /\ ctl.tag = "ok"
        /\ CanStringify(ctl.value)
        /\ out' = Append(out, ctl.value)
        /\ Result(EXECUTION_RESULT_NONE)
     \/ /\ ctl.tag = "ok"
        /\ ~CanStringify(ctl.value)
        /\ Result(Abort("stringify: impossible object type"))
        /\ UNCHANGED out
  /\ UNCHANGED <<scopeVars, HadRuntimeError, ran, swallowed>>

VisitReturn ==
  /\ VisitingStmt("return")
  /\ \/ /\ ctl.stmt.value # NULL
        /\ Await(Frame("return", ctl.stmt, <<>>), ctl.stmt.value)
     \/ /\ ctl.stmt.value = NULL
        /\ ctl' = EXECUTION_RESULT_RETURN(OBJECT_NULL)
        /\ UNCHANGED <<stack, scopeVars, sessionVars, raised, swallowed>>

ReturnValue ==
  /\ Resuming("return")
  /\ Pop
  /\ \/ StmtFails
     \/ ctl.tag = "ok" /\ Result(EXECUTION_RESULT_RETURN(ctl.value))
  /\ UNCHANGED <<scopeVars, sessionVars, swallowed>>

VisitFunction ==
  /\ VisitingStmt("function")
  /\ envs' \in environment_define(envs, environment, ctl.stmt.name,
                                  OBJECT_FUNCTION(ctl.stmt, environment))
  /\ ctl' = EXECUTION_RESULT_NONE
  /\ UNCHANGED <<stack, environment, sessionVars, raised, swallowed>>

VisitIf ==
  /\ VisitingStmt("if")
  /\ Await(Frame("if", ctl.stmt, <<>>), ctl.stmt.condition)

IfCondition ==
  /\ Resuming("if")
  /\ Pop
  /\ \/ StmtFails
     \/ /\ ctl.tag = "ok"
        /\ Result(CASE is_truthy(ctl.value) -> Execute(Top.node.then_branch)
                    [] ~is_truthy(ctl.value) /\ Top.node.else_branch # NULL ->
                         Execute(Top.node.else_branch)
                    [] OTHER -> EXECUTION_RESULT_NONE)
  /\ UNCHANGED <<scopeVars, sessionVars, swallowed>>

(* A variable without an initializer is defined as nil at once.            *)
VisitVar ==
  /\ VisitingStmt("var")
  /\ \/ /\ ctl.stmt.initializer # NULL
        /\ Await(Frame("var", ctl.stmt, <<>>), ctl.stmt.initializer)
     \/ /\ ctl.stmt.initializer = NULL
        /\ envs' \in environment_define(envs, environment, ctl.stmt.name, OBJECT_NULL)
        /\ ctl' = EXECUTION_RESULT_NONE
        /\ UNCHANGED <<stack, environment, sessionVars, raised, swallowed>>

(* An initializer that fails leaves the variable nil. *)
FaultyVarValue ==
  /\ Resuming("var")
  /\ Pop
  /\ envs' \in environment_define(envs, environment, Top.node.name,
                                  IF ctl.tag = "ok" THEN ctl.value ELSE OBJECT_NULL)
  /\ Result(EXECUTION_RESULT_NONE)
  /\ UNCHANGED <<environment, sessionVars, swallowed>>

VarValue ==
  /\ Resuming("var")
  /\ Pop
  /\ \/ StmtFails /\ UNCHANGED envs
     \/ /\ ctl.tag = "ok"
        /\ envs' \in environment_define(envs, environment, Top.node.name, ctl.value)
        /\ Result(EXECUTION_RESULT_NONE)
  /\ UNCHANGED <<environment, sessionVars, swallowed>>

VisitWhile ==
  /\ VisitingStmt("while")
  /\ Await(Frame("while_condition", ctl.stmt, <<>>), ctl.stmt.condition)

(* A continue where the loop should break. *)
FaultyWhileCondition ==
  /\ Resuming("while_condition")
  /\ \/ StmtFails /\ Pop
     \/ /\ ctl.tag = "ok"
        /\ ~is_truthy(ctl.value)
        /\ Result(Evaluate(Top.node.condition))
        /\ UNCHANGED stack
     \/ /\ ctl.tag = "ok"
        /\ is_truthy(ctl.value)
        /\ Result(Execute(Top.node.body))
        /\ stack' = <<Frame("while_body", Top.node, <<>>)>> \o Tail(stack)
  /\ UNCHANGED <<scopeVars, sessionVars, swallowed>>

WhileCondition ==
  /\ Resuming("while_condition")
  /\ \/ StmtFails /\ Pop
     \/ /\ ctl.tag = "ok"
        /\ ~is_truthy(ctl.value)
        /\ Result(EXECUTION_RESULT_NONE)
        /\ Pop
     \/ /\ ctl.tag = "ok"
        /\ is_truthy(ctl.value)
        /\ Result(Execute(Top.node.body))
        /\ stack' = <<Frame("while_body", Top.node, <<>>)>> \o Tail(stack)
  /\ UNCHANGED <<scopeVars, sessionVars, swallowed>>

(* The result of the body is not looked at.                                *)
WhileBody ==
  /\ Waiting("while_body")
  /\ ctl.tag \in {"none", "runtime_error", "return"}
  /\ ctl' = Evaluate(Top.node.condition)
  /\ stack' = <<Frame("while_condition", Top.node, <<>>)>> \o Tail(stack)
  /\ swallowed' = (swallowed \/ ctl.tag = "runtime_error")
  /\ raised' = (raised /\ ctl.tag # "runtime_error")
  /\ UNCHANGED <<scopeVars, sessionVars>>

Run ==
  \/ InterpretLoop \/ InterpretError \/ InterpretReturn
  \/ VisitLiteral \/ VisitVariable \/ VisitGrouping
  \/ VisitAssign \/ AssignValue
  \/ VisitBinary \/ BinaryLeft \/ BinaryRight
  \/ VisitLogical \/ LogicalLeft
  \/ VisitUnary \/ UnaryRight
  \/ VisitCall \/ CallOperand \/ lox_clock \/ CallFunction \/ StackOverflow \/ CallReturns
  \/ VisitBlock \/ BlockLoop \/ BlockExit
  \/ VisitExpression \/ ExpressionValue
  \/ VisitPrint \/ PrintValue
  \/ VisitReturn \/ ReturnValue
  \/ VisitFunction
  \/ VisitIf \/ IfCondition
  \/ VisitVar \/ VarValue
  \/ VisitWhile \/ WhileCondition \/ WhileBody

Next == Run \/ (ctl = Idle /\ \E p \in Programs \ ran : Interpret(p))

(* The interpreter is one thread of C code: it keeps running while it can. *)
(* Nobody is obliged to type another line.                                 *)
Spec == Init /\ [][Next]_vars /\ WF_vars(Run)

-----------------------------------------------------------------------------
(* Properties.                                                             *)

AwaitsExpr == {"assign", "binary_left", "binary_right", "logical", "unary", "call",
               "expression", "print", "return", "if", "var", "while_condition"}
AwaitsStmt == {"interpret", "execute_block", "interpreter_call", "while_body"}

IsEnvironment(e) == e \in 1 .. Len(envs)

IsObject(obj) ==
  CASE obj.type = "number" -> obj.d \in Numbers
    [] obj.type = "bool" -> obj.b \in BOOLEAN
    [] obj.type = "function" -> IsEnvironment(obj.f.closure)
    [] OTHER -> obj.type \in {"string", "null", "native_function"}

(* Every pointer points somewhere, an environment is younger than the one  *)
(* around it (so that a lookup ends), only objects are stored, and a       *)
(* result is of the kind the function that waits for it expects: no union  *)
(* of interpret_result or execution_result is read by the wrong member.    *)
TypeOK ==
  /\ IsEnvironment(environment)
  /\ \A e \in 1 .. Len(envs) :
       /\ envs[e].enclosing \in 0 .. e - 1
       /\ \A name \in Names : \A n \in 1 .. Len(envs[e].values.bindings[name]) :
            IsObject(envs[e].values.bindings[name][n])
  /\ \A n \in 1 .. Len(stack) :
       /\ stack[n].fn \in AwaitsExpr \cup AwaitsStmt
       /\ stack[n].fn = "execute_block" => IsEnvironment(stack[n].previous)
       /\ \A m \in 1 .. Len(stack[n].objects) : IsObject(stack[n].objects[m])
  /\ CASE ctl.tag = "idle" -> stack = <<>>
       [] ctl.tag \in {"evaluate", "call", "ok", "error"} -> Top.fn \in AwaitsExpr
       [] ctl.tag \in {"execute", "none", "runtime_error", "return"} -> Top.fn \in AwaitsStmt
       [] ctl.tag = "abort" -> TRUE
  /\ ctl.tag \in {"ok", "return"} => IsObject(ctl.value)
  /\ \A n \in 1 .. Len(out) : IsObject(out[n])
  /\ {HadRuntimeError, raised, swallowed} \subseteq BOOLEAN

(* The environment a waiting function will find when it is resumed is the  *)
(* one it left: interpreter_execute_block undoes its own change on every   *)
(* way out, by the end of the list, by a return or by an error.  So a call *)
(* leaves the caller's scope as it was, and after any run, a failed one    *)
(* included, the interpreter is back in the globals.                       *)
Leaves(frame) == IF frame.fn = "execute_block" THEN frame.previous ELSE frame.environment
Restored(frames, e) ==
  /\ e = IF frames = <<>> THEN Globals ELSE Head(frames).environment
  /\ \A n \in 1 .. Len(frames) :
       Leaves(frames[n]) = IF n = Len(frames) THEN Globals ELSE frames[n + 1].environment
EnvironmentRestored ==
  /\ Restored(stack, environment)
  /\ ctl.tag = "idle" => environment = Globals

(* A statement runs in an environment nested as deeply as the statement is *)
(* in the text, wherever the function around it was called from and how    *)
(* ever far the blocks around the call were: scoping is lexical.           *)
LexicalScoping ==
  ctl.tag = "execute" => Depth(envs, environment) = ctl.stmt.depth

(* A call in progress has a scope of its own, made by interpreter_call and *)
(* younger than every scope in use below it on the stack, so that no two   *)
(* calls of one function share their variables however they recurse; and   *)
(* each of its parameters is bound there from the arguments ("arity was    *)
(* checked, so this is OK") to its end, whatever the body and the calls    *)
(* made from it define, assign or let the table grow by.                   *)
BindsAll(table, params) == \A n \in 1 .. Len(params) : B!IsBound(table.bindings, params[n])
CallsOwnScopes ==
  \A n \in 1 .. Len(stack) - 1 :
    stack[n + 1].fn = "interpreter_call" =>
      /\ \A m \in n + 1 .. Len(stack) : stack[m].environment < stack[n].environment
      /\ BindsAll(envs[stack[n].environment].values, stack[n + 1].node.params)

(* A runtime error is on its way to library_runtime_error from the moment  *)
(* it is created, past every visitor, block and call in progress; no other *)
(* work is done in between.  Only the body of a while loop escapes this.   *)
ErrorsPropagate ==
  raised => ctl.tag \in {"error", "runtime_error"} \/ HadRuntimeError

(* A program that is run comes to an end, or to an assertion.              *)
RunsFinish == ctl.tag # "idle" ~> ctl.tag \in {"idle", "abort"}

(* What the code or its description says, and the code does not keep.      *)

(* interpret asserts that no statement at the top level returns.           *)
ReturnStaysInside == ctl # Abort("interpret: entered unreachable code")

(* A run in which a runtime error was created has reported it.             *)
ErrorsReported == ctl.tag = "idle" /\ (raised \/ swallowed) => HadRuntimeError
=============================================================================

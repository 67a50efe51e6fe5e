------------------------------- MODULE Scopes -------------------------------
(***************************************************************************)
(* Why scoping is lexical in the interpreter of module Interpreter: the    *)
(* trees it may be given, and the invariant that relates the text of every *)
(* function object, every waiting call and every environment.              *)
(***************************************************************************)
EXTENDS Interpreter

CONSTANTS
  Expressions,  \* the nodes of the programs' trees that are expressions
  Statements    \* and those that are statements

-----------------------------------------------------------------------------
(* The trees parser_parse returns when it has met no error: a child is a   *)
(* node, or NULL where the grammar makes it optional, a literal is a       *)
(* number, a string, a boolean or nil, and a node that opens a scope has   *)
(* statements that are one level deeper.                                   *)
IsLiteral(obj) ==
  CASE obj.type = "number" -> obj.d \in Numbers
    [] obj.type = "bool" -> obj.b \in BOOLEAN
    [] OTHER -> obj.type \in {"string", "null"}

IsExpression(x) ==
  /\ x.type = "literal" => IsLiteral(x.value)
  /\ x.type = "variable" => x.name \in Names
  /\ x.type = "assign" => x.name \in Names /\ x.value \in Expressions
  /\ x.type \in {"binary", "logical"} => x.left \in Expressions /\ x.right \in Expressions
  /\ x.type = "grouping" => x.expression \in Expressions
  /\ x.type = "unary" => x.right \in Expressions
  /\ x.type = "call" => x.callee \in Expressions /\ x.arguments \in Seq(Expressions)

AllAt(statements, depth) ==
  /\ statements \in Seq(Statements)
  /\ \A n \in 1 .. Len(statements) : statements[n].depth = depth
IsBranch(s, depth) == s \in Statements /\ s.depth = depth

IsStatement(s) ==
  /\ s.type = "block" => AllAt(s.statements, s.depth + 1)
  /\ s.type \in {"expression", "print"} => s.expression \in Expressions
  /\ s.type = "function" => s.params \in Seq(Names) /\ AllAt(s.body, s.depth + 1)
  /\ s.type = "if" =>
       /\ s.condition \in Expressions
       /\ IsBranch(s.then_branch, s.depth)
       /\ s.else_branch = NULL \/ IsBranch(s.else_branch, s.depth)
  /\ s.type = "return" => s.value = NULL \/ s.value \in Expressions
  /\ s.type = "var" => s.initializer = NULL \/ s.initializer \in Expressions
  /\ s.type = "while" => s.condition \in Expressions /\ IsBranch(s.body, s.depth)

ASSUME TreesAssumption ==
  /\ \A x \in Expressions : IsExpression(x)
  /\ \A s \in Statements : IsStatement(s)
  /\ \A p \in Programs : AllAt(p, 0)

(* time(NULL) - init_time is a double.                                     *)
ASSUME ClockAssumption == ClockReadings \subseteq Numbers

-----------------------------------------------------------------------------
(* The heap.  An environment is younger than the one around it.  A         *)
(* function object has a declaration of the program's text, and was made   *)
(* in an environment as deep as the declaration is in the text.            *)
IsEnvironmentOf(es, e) == e \in 1 .. Len(es)

IsClosure(es, f) ==
  /\ IsEnvironmentOf(es, f.closure)
  /\ f.declaration \in Statements
  /\ f.declaration.type = "function"
  /\ f.declaration.depth = Depth(es, f.closure)

IsObjectOf(es, obj) ==
  CASE obj.type = "number" -> obj.d \in Numbers
    [] obj.type = "bool" -> obj.b \in BOOLEAN
    [] obj.type = "function" -> IsClosure(es, obj.f)
    [] OTHER -> obj.type \in {"string", "null", "native_function"}

Elements(l) == {l[n] : n \in 1 .. Len(l)}
AreObjectsOf(es, l) == l \in Seq(Elements(l)) /\ \A x \in Elements(l) : IsObjectOf(es, x)

IsChain(es) == Len(es) \in Nat /\ \A e \in 1 .. Len(es) : es[e].enclosing \in 0 .. e - 1

AreBindingsOf(es, b) ==
  /\ b \in [Names -> {b[name] : name \in Names}]
  /\ \A name \in Names : AreObjectsOf(es, b[name])

IsHeap(es) ==
  /\ es \in Seq(Elements(es))
  /\ IsChain(es)
  /\ \A e \in 1 .. Len(es) : AreBindingsOf(es, es[e].values.bindings)

-----------------------------------------------------------------------------
(* The stack.  What a waiting call still needs of its node is there, and   *)
(* the statements it may go on to run are as deep in the text as its       *)
(* environment is; and below it is a call that waits for its result.       *)
ExprVisitors == {"assign", "binary_left", "binary_right", "logical", "unary", "call",
                 "interpreter_call"}
StmtVisitors == {"expression", "print", "return", "if", "var", "while_condition", "while_body",
                 "execute_block"}

NodeOf(fn) ==
  CASE fn = "assign" -> "assign"
    [] fn \in {"binary_left", "binary_right"} -> "binary"
    [] fn = "logical" -> "logical"
    [] fn = "unary" -> "unary"
    [] fn = "call" -> "call"
    [] fn = "if" -> "if"
    [] OTHER -> "while"

IsFrame(es, f) ==
  /\ f.fn \in ExprVisitors \cup StmtVisitors \cup {"interpret"}
  /\ IsEnvironmentOf(es, f.environment)
  /\ f.fn \in {"assign", "binary_left", "binary_right", "logical", "unary", "call"} =>
       f.node \in Expressions /\ f.node.type = NodeOf(f.fn)
  /\ f.fn \in {"if", "while_condition", "while_body"} =>
       IsBranch(f.node, Depth(es, f.environment)) /\ f.node.type = NodeOf(f.fn)
  /\ f.fn \in {"interpret", "execute_block"} =>
       AllAt(f.node, Depth(es, f.environment)) /\ f.i \in Nat
  /\ f.fn = "execute_block" => IsEnvironmentOf(es, f.previous)
  /\ f.fn = "binary_right" => Len(f.objects) = 1
  /\ AreObjectsOf(es, f.objects)

(* The function that waits below f, if any.                                *)
FnOf(frames) == IF frames = <<>> THEN "none" ELSE Head(frames).fn
Expects(fn, below) ==
  /\ fn \in ExprVisitors => below \in AwaitsExpr
  /\ fn \in StmtVisitors => below \in AwaitsStmt

IsStack(es, frames) ==
  \A n \in 1 .. Len(frames) :
    /\ IsFrame(es, frames[n])
    /\ n < Len(frames) => Expects(frames[n].fn, frames[n + 1].fn)
    /\ n = Len(frames) => frames[n].fn = "interpret"

-----------------------------------------------------------------------------
(* The innermost call.  A node it visits is a node of the program, a       *)
(* statement it executes as deep in the text as the environment is, and a  *)
(* result is of the kind that is waited for.                               *)
ExprTags == {"evaluate", "call", "ok", "error"}
StmtTags == {"execute", "none", "runtime_error", "return"}

IsControl(es, e, c) ==
  /\ c.tag \in ExprTags \cup StmtTags \cup {"idle", "abort"}
  /\ c.tag = "evaluate" => c.expr \in Expressions
  /\ c.tag = "execute" => IsBranch(c.stmt, Depth(es, e))
  /\ c.tag = "call" => IsObjectOf(es, c.callee) /\ AreObjectsOf(es, c.arguments)
  /\ c.tag \in {"ok", "return"} => IsObjectOf(es, c.value)

IsAwaited(tag, fn) ==
  /\ tag \in ExprTags => fn \in AwaitsExpr
  /\ tag \in StmtTags => fn \in AwaitsStmt

(* The functions in the environments, on the stack and in the hands of the *)
(* innermost call all know the environment of their declaration, so that a *)
(* call made from anywhere runs the body where its text says.              *)
ScopeInv ==
  /\ IsHeap(envs)
  /\ IsEnvironmentOf(envs, environment)
  /\ IsStack(envs, stack)
  /\ IsControl(envs, environment, ctl)
  /\ IsAwaited(ctl.tag, FnOf(stack))
  /\ AreObjectsOf(envs, out)
=============================================================================

--------------------------- MODULE MCInterpreter ---------------------------
(* Programs for module Interpreter, and its instances for TLC.             *)
EXTENDS Interpreter, Syntax, Depths, TLC

(* The null pointer, as in the trees of module Trees. *)
MCNull == [type |-> "NULL"]

(* Short names for the constructors of syntax trees. *)
Lit(obj) == expr_new_literal(obj)
Num(d) == Lit(OBJECT_NUMBER(d))
Str(s) == Lit(OBJECT_STRING(<<s>>))
Nil == Lit(OBJECT_NULL)
Ref(name) == expr_new_variable(name)
Set(name, e) == expr_new_assign(name, e)
Bin(l, op, r) == expr_new_binary(l, op, r)
Log(l, op, r) == expr_new_logical(l, op, r)
Grp(e) == expr_new_grouping(e)
Un(op, r) == expr_new_unary(op, r)
CallE(callee, arguments) == expr_new_call(callee, arguments)
Block(ss) == stmt_new_block(ss)
Expr(e) == stmt_new_expression(e)
PrintS(e) == stmt_new_print(e)
Return(e) == stmt_new_return(e)
Var(name, e) == stmt_new_var(name, e)
If(c, t, e) == stmt_new_if(c, t, e)
While(c, b) == stmt_new_while(c, b)
Fun(at, name, params, body) == stmt_new_function(at, name, params, body)

-----------------------------------------------------------------------------
(* Every script  var a = 1; fun f(n) { S } { T } U  with S, T, U from a    *)
(* list of statements that use the variable, call, return, fail or nest.   *)
Simple == {
  Var("a", Ref("n")),
  Var("b", NULL),
  Expr(Set("a", Bin(Ref("a"), "+", Str("s")))),
  Expr(Set("b", Grp(CallE(Ref("clock"), <<>>)))),
  PrintS(Ref("f")),
  PrintS(Bin(Num(1), "/", Num(0))),
  PrintS(CallE(Ref("f"), <<Ref("a")>>)),
  Expr(CallE(Ref("f"), <<>>)),
  Expr(CallE(Ref("a"), <<Ref("a")>>)),
  Return(Ref("a")),
  Return(Ref("f"))}
Nesting == {
  Block(<<Var("a", Num(2)), Return(Bin(Ref("a"), "*", Num(1)))>>),
  Block(<<Fun(2, "g", <<"a">>, <<Return(Ref("a"))>>), Return(CallE(Ref("g"), <<Un("-", Nil)>>))>>),
  If(Log(Nil, "and", Ref("b")), Return(NULL), Expr(CallE(Ref("clock"), <<Num(1)>>))),
  If(Bin(Ref("a"), "!=", Str("s")), Block(<<PrintS(Ref("n"))>>), NULL),
  If(Ref("b"), Return(NULL), NULL),
  While(Bin(Ref("a"), "<=", Num(1)),
        Block(<<Expr(Set("a", Bin(Ref("a"), "+", Num(1)))), Return(Un("-", Nil))>>))}

Scripts ==
  {Program(<<Var("a", Num(1)), Fun(1, "f", <<"n">>, <<s>>), Block(<<t>>), u>>) :
     s \in Simple \cup Nesting, t \in Simple \cup Nesting,
     u \in Simple}

-----------------------------------------------------------------------------
(* return 1; *)
TopReturn == {Program(<<Return(Num(1))>>)}

(* var a = 1; while (a < 2) { a = 2; print -nil; } *)
ErrorInLoop ==
  {Program(<<Var("a", Num(1)),
             While(Bin(Ref("a"), "<", Num(2)),
                   Block(<<Expr(Set("a", Num(2))), PrintS(Un("-", Nil))>>))>>)}
=============================================================================

------------------------------ MODULE MCScopes ------------------------------
(* The instance of module Scopes for TLC: the scripts of MCInterpreter, and *)
(* scripts whose functions outlive the scope that declares them.           *)
EXTENDS MCInterpreter, Scopes

(* The nodes of a tree. *)
RECURSIVE ExpressionsIn(_)
ExpressionsIn(x) ==
  {x} \cup
  CASE x.type = "assign" -> ExpressionsIn(x.value)
    [] x.type \in {"binary", "logical"} -> ExpressionsIn(x.left) \cup ExpressionsIn(x.right)
    [] x.type = "grouping" -> ExpressionsIn(x.expression)
    [] x.type = "unary" -> ExpressionsIn(x.right)
    [] x.type = "call" ->
         ExpressionsIn(x.callee) \cup UNION {ExpressionsIn(x.arguments[n]) : n \in DOMAIN x.arguments}
    [] OTHER -> {}

RECURSIVE StatementsIn(_)
StatementsIn(s) ==
  LET All(ss) == UNION {StatementsIn(ss[n]) : n \in DOMAIN ss}
  IN  {s} \cup
      CASE s.type = "block" -> All(s.statements)
        [] s.type = "function" -> All(s.body)
        [] s.type = "if" ->
             StatementsIn(s.then_branch) \cup (IF s.else_branch = NULL THEN {} ELSE StatementsIn(s.else_branch))
        [] s.type = "while" -> StatementsIn(s.body)
        [] OTHER -> {}

Operands(s) ==
  CASE s.type \in {"expression", "print"} -> {s.expression}
    [] s.type \in {"if", "while"} -> {s.condition}
    [] s.type = "return" -> {s.value} \ {NULL}
    [] s.type = "var" -> {s.initializer} \ {NULL}
    [] OTHER -> {}

-----------------------------------------------------------------------------
(* Scripts  var a; fun f(n) { fun g(a) { S } return g; } { var b = f(1); T } U *)
(* in which g is called after the scopes it was declared in have ended.    *)
Bodies == {
  Return(Ref("n")),
  Expr(Set("n", Bin(Ref("n"), "+", Ref("a")))),
  If(Bin(Ref("a"), "<", Num(2)), Return(CallE(Ref("g"), <<Num(2)>>)), Return(Ref("f"))),
  While(Bin(Ref("a"), "<", Num(2)), Block(<<Expr(Set("a", Num(2))), Return(Un("-", Nil))>>)),
  Block(<<Var("n", Ref("g")), Return(CallE(Ref("n"), <<>>))>>)}
Uses == {
  Block(<<PrintS(CallE(Ref("b"), <<Num(1)>>))>>),
  Block(<<Var("f", NULL), Expr(Set("a", CallE(Ref("b"), <<Ref("b")>>)))>>),
  Expr(Set("a", Log(CallE(Ref("b"), <<Num(1)>>), "or", CallE(Ref("clock"), <<>>))))}
Calls == {
  Expr(CallE(Ref("a"), <<Grp(Num(1))>>)),
  PrintS(CallE(CallE(Ref("f"), <<Nil>>), <<Num(1)>>))}

Outer(s) ==
  Fun(1, "f", <<"n">>, <<Fun(2, "g", <<"a">>, <<s>>), Return(Ref("g"))>>)
Inner(t) == Block(<<Var("b", CallE(Ref("f"), <<Num(1)>>)), t>>)

Escapes ==
  {Program(<<Var("a", Nil), Outer(s), Inner(t), u>>) : s \in Bodies, t \in Uses, u \in Calls}

AllScripts == Scripts \cup Escapes

(* Every node of these programs. *)
Roots == UNION {{p[n] : n \in DOMAIN p} : p \in AllScripts}
MCStatements == UNION {StatementsIn(s) : s \in Roots}
MCExpressions ==
  UNION {ExpressionsIn(x) : x \in UNION {Operands(s) : s \in MCStatements}}
=============================================================================

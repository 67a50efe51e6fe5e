------------------------------- MODULE Trees --------------------------------
(***************************************************************************)
(* The whole trees over a set of tokens: the values of struct expr and     *)
(* struct stmt of ast/expr.h and ast/stmt.h in which every pointer that is *)
(* followed without a test points to a node of the right kind, in order of *)
(* their height.  The depth of a statement is one more than that of the    *)
(* block or the function around it.                                        *)
(***************************************************************************)
EXTENDS Objects, Syntax

CONSTANTS
  Tokens,   \* tokens: records with the fields type, lexeme and literal, and at, the address
  Heights   \* bound: the heights of trees, Nat for all of them

(* The null pointer.                                                       *)
NULL == [type |-> "NULL"]

Lexemes == {token.lexeme : token \in Tokens}
Identifiers == {token.lexeme : token \in {t \in Tokens : t.type = "IDENTIFIER"}}
Addresses == {token.at : token \in Tokens}
Constants == {OBJECT_BOOL(TRUE), OBJECT_BOOL(FALSE), OBJECT_NULL} \cup {token.literal : token \in Tokens}

-----------------------------------------------------------------------------
(* The nodes whose children are taken from a set E of expressions and a    *)
(* set S of statements.                                                    *)
ExpressionsOver(E) ==
  [type : {"literal"}, value : Constants]
  \cup [type : {"variable"}, name : Identifiers]
  \cup [type : {"assign"}, name : Identifiers, value : E]
  \cup [type : {"binary", "logical"}, left : E, op : Lexemes, right : E]
  \cup [type : {"grouping"}, expression : E]
  \cup [type : {"unary"}, op : Lexemes, right : E]
  \cup [type : {"call"}, callee : E, arguments : Seq(E)]

ShapesOver(E, S) ==
  [type : {"block"}, depth : Nat, statements : Seq(S)]
  \cup [type : {"expression", "print"}, depth : Nat, expression : E]
  \cup [type : {"function"}, depth : Nat, at : Addresses, name : Identifiers,
        params : Seq(Identifiers), body : Seq(S)]
  \cup [type : {"if"}, depth : Nat, condition : E, then_branch : S, else_branch : S \cup {NULL}]
  \cup [type : {"return"}, depth : Nat, value : E \cup {NULL}]
  \cup [type : {"var"}, depth : Nat, name : Identifiers, initializer : E \cup {NULL}]
  \cup [type : {"while"}, depth : Nat, condition : E, body : S]

AllAt(statements, depth) == \A n \in 1 .. Len(statements) : statements[n].depth = depth
Nested(s) ==
  /\ s.type = "block" => AllAt(s.statements, s.depth + 1)
  /\ s.type = "function" => AllAt(s.body, s.depth + 1)
  /\ s.type = "if" =>
       /\ s.then_branch.depth = s.depth
       /\ s.else_branch # NULL => s.else_branch.depth = s.depth
  /\ s.type = "while" => s.body.depth = s.depth
StatementsOver(E, S) == {s \in ShapesOver(E, S) : Nested(s)}

-----------------------------------------------------------------------------
(* The trees that are lower than a height.                                 *)
NoTrees == [expressions |-> {}, statements |-> {}]
Over(trees) ==
  [expressions |-> ExpressionsOver(trees.expressions),
   statements |-> StatementsOver(trees.expressions, trees.statements)]
Lower[h \in Nat] == IF h = 0 THEN NoTrees ELSE Over(Lower[h - 1])

IsStatement(s) == \E h \in Heights : s \in Lower[h].statements
=============================================================================

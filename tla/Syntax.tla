------------------------------- MODULE Syntax -------------------------------
(***************************************************************************)
(* The syntax trees of ast/expr.c and ast/stmt.c: a node is a record with  *)
(* the fields of its C struct, and the fields of base first.  A token is   *)
(* its lexeme; the tokens that serve only to report a line (`paren`,       *)
(* `keyword`) are left out.  A statement also has the number of blocks and *)
(* function bodies around it, which is filled in where it is known, and a  *)
(* function its address, which is_equal compares.                          *)
(***************************************************************************)

expr_new_assign(name, value) == [type |-> "assign", name |-> name, value |-> value]
expr_new_binary(left, op, right) ==
  [type |-> "binary", left |-> left, op |-> op, right |-> right]
expr_new_call(callee, arguments) ==
  [type |-> "call", callee |-> callee, arguments |-> arguments]
expr_new_grouping(expression) == [type |-> "grouping", expression |-> expression]
expr_new_literal(value) == [type |-> "literal", value |-> value]
expr_new_logical(left, op, right) ==
  [type |-> "logical", left |-> left, op |-> op, right |-> right]
expr_new_unary(op, right) == [type |-> "unary", op |-> op, right |-> right]
expr_new_variable(name) == [type |-> "variable", name |-> name]

stmt_new_block(statements) == [type |-> "block", depth |-> 0, statements |-> statements]
stmt_new_expression(expression) ==
  [type |-> "expression", depth |-> 0, expression |-> expression]
stmt_new_function(at, name, params, body) ==
  [type |-> "function", depth |-> 0, at |-> at, name |-> name, params |-> params, body |-> body]
stmt_new_if(condition, then_branch, else_branch) ==
  [type |-> "if", depth |-> 0, condition |-> condition,
   then_branch |-> then_branch, else_branch |-> else_branch]
stmt_new_print(expression) == [type |-> "print", depth |-> 0, expression |-> expression]
stmt_new_return(value) == [type |-> "return", depth |-> 0, value |-> value]
stmt_new_var(name, initializer) ==
  [type |-> "var", depth |-> 0, name |-> name, initializer |-> initializer]
stmt_new_while(condition, body) ==
  [type |-> "while", depth |-> 0, condition |-> condition, body |-> body]
=============================================================================

------------------------------- MODULE Depths -------------------------------
(* Programs that are written down as trees: the same trees with the depth  *)
(* of every statement filled in, as the parser does.                       *)
EXTENDS Naturals

RECURSIVE NestedAt(_, _)
NestedAt(s, d) ==
  LET All(ss) == [n \in DOMAIN ss |-> NestedAt(ss[n], d + 1)]
      Opt(t) == IF t.type = "NULL" THEN t ELSE NestedAt(t, d)
  IN  CASE s.type = "block" -> [s EXCEPT !.depth = d, !.statements = All(@)]
        [] s.type = "function" -> [s EXCEPT !.depth = d, !.body = All(@)]
        [] s.type = "if" -> [s EXCEPT !.depth = d, !.then_branch = NestedAt(@, d), !.else_branch = Opt(@)]
        [] s.type = "while" -> [s EXCEPT !.depth = d, !.body = NestedAt(@, d)]
        [] OTHER -> [s EXCEPT !.depth = d]

Program(ss) == [n \in DOMAIN ss |-> NestedAt(ss[n], 0)]
=============================================================================

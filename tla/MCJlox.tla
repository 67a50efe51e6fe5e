------------------------------- MODULE MCJlox -------------------------------
(* Lines for module Jlox, what they mean, and its instance for TLC.        *)
EXTENDS Jlox, Syntax, Depths, TLC

(* A text as the scanner sees it. *)
Chars(s) ==
  LET Named(c) == CASE c = " " -> "SP" [] c = "\"" -> "QUOTE" [] OTHER -> c
  IN  [n \in 1 .. Len(s) |-> Named(SubSeq(s, n, n))]

Reserved == <<"and", "class", "else", "false", "for", "fun", "if", "nil", "or", "print",
           "return", "super", "this", "true", "var", "while">>
Types == <<"AND", "CLASS", "ELSE", "FALSE", "FOR", "FUN", "IF", "NIL", "OR", "PRINT",
           "RETURN", "SUPER", "THIS", "TRUE", "VAR", "WHILE">>
MCKeyword ==
  [w \in {Chars(Reserved[n]) : n \in DOMAIN Reserved} |-> Types[CHOOSE n \in DOMAIN Reserved : Chars(Reserved[n]) = w]]

-----------------------------------------------------------------------------
(* Lines that build on one another when they come in one order and fail in *)
(* the middle of something when they come in another.                      *)
Make == Chars("fun m(){var i=0;fun n(){i=i+1;return i;}return n;}")
UseMake == Chars("var c=m();{var i=2;print c()+c()==i+1;}print c==m();")
Recurse == Chars("fun f(n){if(n<1)return;{f(n-1);i=n;}}")
Loop == Chars("var i=2;while(i>0){i=i-1;print f(i);}for(;i<1;i=i+1)print i;//")
Mixed == Chars("print clock()>=0 or m;print -(i)*2;i=\"c\"+\"f\";print !f;")

(* Lines that are damaged, but not so that the parser has nothing left.    *)
Unclosed == Chars("fun f(n){print n")
Illegal == Chars("var i=3@;print 1;")
Missing == Chars("print 2;i=(1+;fun m(){}")

MCLines == {Make, UseMake, Recurse, Loop, Mixed, Unclosed, Illegal, Missing}

-----------------------------------------------------------------------------
(* What the lines without an error mean.                                   *)
Num(d) == expr_new_literal(OBJECT_NUMBER(d))
Str(c) == expr_new_literal(OBJECT_STRING(<<c>>))
Ref(name) == expr_new_variable(name)
Set(name, e) == stmt_new_expression(expr_new_assign(name, e))
Bin(l, op, r) == expr_new_binary(l, op, r)
CallE(name, arguments) == expr_new_call(Ref(name), arguments)

MakeMeans ==
  <<stmt_new_function(<<Make, 4>>, "m", <<>>,
      <<stmt_new_var("i", Num(0)),
        stmt_new_function(<<Make, 20>>, "n", <<>>, <<Set("i", Bin(Ref("i"), "+", Num(1))), stmt_new_return(Ref("i"))>>),
        stmt_new_return(Ref("n"))>>)>>
UseMakeMeans ==
  <<stmt_new_var("c", CallE("m", <<>>)),
    stmt_new_block(<<stmt_new_var("i", Num(2)),
                     stmt_new_print(Bin(Bin(CallE("c", <<>>), "+", CallE("c", <<>>)), "==",
                                        Bin(Ref("i"), "+", Num(1))))>>),
    stmt_new_print(Bin(Ref("c"), "==", CallE("m", <<>>)))>>
RecurseMeans ==
  <<stmt_new_function(<<Recurse, 4>>, "f", <<"n">>,
      <<stmt_new_if(Bin(Ref("n"), "<", Num(1)), stmt_new_return(NULL), NULL),
        stmt_new_block(<<stmt_new_expression(CallE("f", <<Bin(Ref("n"), "-", Num(1))>>)),
                         Set("i", Ref("n"))>>)>>)>>
LoopMeans ==
  <<stmt_new_var("i", Num(2)),
    stmt_new_while(Bin(Ref("i"), ">", Num(0)),
      stmt_new_block(<<Set("i", Bin(Ref("i"), "-", Num(1))), stmt_new_print(CallE("f", <<Ref("i")>>))>>)),
    stmt_new_while(Bin(Ref("i"), "<", Num(1)),
      stmt_new_block(<<stmt_new_print(Ref("i")), Set("i", Bin(Ref("i"), "+", Num(1)))>>))>>
MixedMeans ==
  <<stmt_new_print(expr_new_logical(Bin(CallE("clock", <<>>), ">=", Num(0)), "or", Ref("m"))),
    stmt_new_print(Bin(expr_new_unary("-", expr_new_grouping(Ref("i"))), "*", Num(2))),
    Set("i", Bin(Str("c"), "+", Str("f"))),
    stmt_new_print(expr_new_unary("!", Ref("f")))>>

MeaningOf ==
  (Make :> Program(MakeMeans)) @@ (UseMake :> Program(UseMakeMeans)) @@
  (Recurse :> Program(RecurseMeans)) @@ (Loop :> Program(LoopMeans)) @@
  (Mixed :> Program(MixedMeans))
Meant == Range(MeaningOf)

(* When library_run returns and at the prompt, the programs that have been *)
(* run are those of the correct lines typed so far, all of them and no     *)
(* others.  So each correct line is accepted and run in its turn, before   *)
(* the next is read, whatever the damaged lines before it have left in     *)
(* HadError and whichever line has built the table of keywords; and a      *)
(* damaged line runs nothing.                                              *)
CorrectLinesRun ==
  pc \in {"returned", "prompt"} => ran = {MeaningOf[t] : t \in typed \cap DOMAIN MeaningOf}

(* Characters, tokens, errors and the dump left out, the program is a      *)
(* session of module Interpreter in which nothing runs but what the        *)
(* correct lines mean: every step of library_run is a step of that session *)
(* or leaves it alone, no program is started before the last one has ended *)
(* and none is run twice.  Which of them run, and when, is CorrectLinesRun.*)
Meaning == INSTANCE Interpreter WITH
             Programs <- Meant, MaxRuns <- MaxLines, ctl <- i_ctl, stack <- i_stack
ImplementsSession == Meaning!Spec
=============================================================================

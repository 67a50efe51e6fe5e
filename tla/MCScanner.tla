----------------------------- MODULE MCScanner ------------------------------
(* Texts for module Scanner, the lexical grammar to compare it with, and   *)
(* its instance for TLC.                                                   *)
EXTENDS Scanner

-----------------------------------------------------------------------------
(* The lexical grammar, character by character: what a lexeme of each kind *)
(* looks like.                                                             *)
All(s, chars) == \A n \in DOMAIN s : s[n] \in chars
Word(s) == s # <<>> /\ s[1] \in Letters /\ All(s, Letters \cup Digits)
Decimal(s) ==
  \/ s # <<>> /\ All(s, Digits)
  \/ \E n \in 2 .. Len(s) - 1 : s[n] = "." /\ All(SubSeq(s, 1, n - 1) \o SubSeq(s, n + 1, Len(s)), Digits)
Quoted(s) ==
  /\ Len(s) >= 2
  /\ \A n \in DOMAIN s : s[n] = "QUOTE" <=> n \in {1, Len(s)}
Ignored(s) ==
  \/ Len(s) = 1 /\ s[1] \in Blanks \cup {"LF"}
  \/ Len(s) >= 2 /\ s[1] = "/" /\ s[2] = "/" /\ \A n \in DOMAIN s : s[n] # "LF"
Symbol(s) ==
  \/ Len(s) = 1 /\ s[1] \in Single \cup Comparing \cup {"/"}
  \/ Len(s) = 2 /\ s[1] \in Comparing /\ s[2] = "="
Lexeme(s) == Word(s) \/ Decimal(s) \/ Quoted(s) \/ Ignored(s) \/ Symbol(s)

KindOf(s) ==
  CASE Word(s) -> IF s \in DOMAIN Keyword THEN Keyword[s] ELSE "IDENTIFIER"
    [] Decimal(s) -> "NUMBER"
    [] Quoted(s) -> "STRING"
    [] OTHER -> IF s = <<"/">> THEN "SLASH"
                ELSE IF s[1] \in Single THEN SingleType(s[1]) ELSE ComparingType(s[1], Len(s) = 2)

(* The tokens of a text: the longest lexeme at every position, nothing for *)
(* what is ignored, and an error for a character no lexeme starts with, or *)
(* for a quote without a second one, which takes the rest of the text.     *)
Cut == [type |-> "error"]
RECURSIVE Cuts(_, _)
Cuts(t, p) ==
  LET lengths == {n \in 1 .. Len(t) - p : Lexeme(SubSeq(t, p + 1, p + n))}
      n == CHOOSE n \in lengths : \A m \in lengths : m <= n
      s == SubSeq(t, p + 1, p + n)
      ln == 1 + Len(SelectSeq(SubSeq(t, 1, p + n), LAMBDA c : c = "LF"))
      literal == CASE Decimal(s) -> OBJECT_NUMBER(strtod(s))
                   [] Quoted(s) -> OBJECT_STRING(CString(SubSeq(s, 2, n - 1)))
                   [] OTHER -> OBJECT_NULL
  IN  IF p = Len(t) THEN <<>>
      ELSE IF lengths = {} THEN <<Cut>> \o IF t[p + 1] = "QUOTE" THEN <<>> ELSE Cuts(t, p + 1)
      ELSE IF Ignored(s) THEN Cuts(t, p + n)
      ELSE <<[type |-> KindOf(s), start |-> p, stop |-> p + n, line |-> ln, literal |-> literal]>> \o Cuts(t, p + n)

-----------------------------------------------------------------------------
(* Every short text over characters of every class, and longer ones: lists *)
(* that fill up their first two capacities, and ends of text right behind  *)
(* every lookahead.                                                        *)
Alphabet == {"(", "=", "/", "LF", "QUOTE", "1", ".", "o", "r", "SP", "NUL"}
Repeated(s, times) == FlattenSeq([n \in 1 .. times |-> s])
Longer ==
  {Repeated(<<"(">>, n) : n \in {7, 8, 9, 15, 16, 17}}
  \cup {Repeated(<<"o", "r", "LF">>, n) : n \in {7, 8, 9}}
  \cup {<<c>> : c \in Single \cup Comparing} \cup {<<c, "=">> : c \in Comparing}
  \cup {<<"QUOTE", "LF", "NUL", "1", "LF", "QUOTE", "o">>, <<"1", "2", ".", "3", "4", ".", "5">>,
        <<"o", "r", "1", "LF", "/", "/", "QUOTE", "LF", "o", "r">>, <<"/", "/", "o", "NUL", "r", "LF", "1", ".">>}
MCTexts == SeqOf(Alphabet, 4) \cup Longer
MCKeyword == (<<"o", "r">> :> "OR") @@ (<<"o", "o", "r">> :> "FOR")

-----------------------------------------------------------------------------
(* The scanner cuts a text the way its lexical grammar does: each token is *)
(* the longest one that starts there, with the type, the literal and the   *)
(* line of its lexeme, keywords only as whole words, and an error is       *)
(* reported exactly when something fits no lexeme.                         *)
AsGrammar ==
  pc = "done" =>
    LET cuts == Cuts(text, 0)
    IN  /\ SubSeq(tokens.pointer, 1, tokens.length - 1) = SelectSeq(cuts, LAMBDA c : c # Cut)
        /\ HadError = (Cut \in Range(cuts))
=============================================================================

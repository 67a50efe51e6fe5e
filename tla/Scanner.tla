------------------------------ MODULE Scanner -------------------------------
(***************************************************************************)
(* scanner.c: one pass over the text with a lookahead of one character,    *)
(* two behind a number.  An action is what scanner_scan_token does with    *)
(* the first character of a token, or one turn of the loop of a comment, a *)
(* string, a number or an identifier.  Positions are those of the code:    *)
(* source_begin[0] is text[1], and the byte at source_end, which lib.c     *)
(* puts there, is NUL.  The lexeme of a token is the span it was copied    *)
(* from.                                                                   *)
(***************************************************************************)
EXTENDS Objects, Lists, FiniteSets, SequencesExt

CONSTANTS
  Texts,    \* texts: sequences of characters
  Keyword   \* what init_keywords enters: token types by spelling

ASSUME TextsAssumption == \A t \in Texts : t \in Seq(STRING)
ASSUME KeywordAssumption == \A word \in DOMAIN Keyword : Keyword[word] \notin {"EOF", "IDENTIFIER"}

VARIABLES
  text,      \* source_begin .. source_end
  start,     \* self->start
  current,   \* self->current
  line,      \* self->line
  tokens,    \* self->tokens
  HadError,  \* the flag of lib.c, which library_error sets
  Keywords,  \* the table behind the static pointer, empty while it is NULL
  pc         \* the loop the scanner is in

vars == <<text, start, current, line, tokens, HadError, Keywords, pc>>

-----------------------------------------------------------------------------
(* Characters.  Those without a glyph have names.                          *)
Digits == {"0", "1", "2", "3", "4", "5", "6", "7", "8", "9"}
Letters ==
  {"_", "a", "b", "c", "d", "e", "f", "g", "h", "i", "j", "k", "l", "m", "n", "o", "p", "q", "r",
   "s", "t", "u", "v", "w", "x", "y", "z", "A", "B", "C", "D", "E", "F", "G", "H", "I", "J", "K",
   "L", "M", "N", "O", "P", "Q", "R", "S", "T", "U", "V", "W", "X", "Y", "Z"}
isdigit(c) == c \in Digits
is_alpha(c) == c \in Letters
is_alphanumeric(c) == isdigit(c) \/ is_alpha(c)
Blanks == {"SP", "CR", "TAB"}

Single == {"(", ")", "{", "}", ",", ".", "-", "+", ";", "*"}
SingleType(c) ==
  CASE c = "(" -> "LEFT_PAREN" [] c = ")" -> "RIGHT_PAREN" [] c = "{" -> "LEFT_BRACE"
    [] c = "}" -> "RIGHT_BRACE" [] c = "," -> "COMMA" [] c = "." -> "DOT" [] c = "-" -> "MINUS"
    [] c = "+" -> "PLUS" [] c = ";" -> "SEMICOLON" [] c = "*" -> "STAR"

Comparing == {"!", "=", "<", ">"}
ComparingType(c, equal) ==
  CASE c = "!" -> IF equal THEN "BANG_EQUAL" ELSE "BANG"
    [] c = "=" -> IF equal THEN "EQUAL_EQUAL" ELSE "EQUAL"
    [] c = "<" -> IF equal THEN "LESS_EQUAL" ELSE "LESS"
    [] c = ">" -> IF equal THEN "GREATER_EQUAL" ELSE "GREATER"

Expected == Single \cup Comparing \cup Blanks \cup Digits \cup Letters \cup {"LF", "/", "QUOTE"}

(* The characters from a position to another, and what a C string keeps.   *)
Span(from, to) == SubSeq(text, from + 1, to)
CString(s) == LET nul == SelectInSeq(s, LAMBDA c : c = "NUL") IN IF nul = 0 THEN s ELSE SubSeq(s, 1, nul - 1)

(* The decimal that is written: its digits as a number, and how many of    *)
(* them are behind the point.  Rounding it to a double is left out.        *)
DigitsInOrder == <<"0", "1", "2", "3", "4", "5", "6", "7", "8", "9">>
strtod(s) ==
  LET digits == SelectSeq(s, isdigit)
      dot == SelectInSeq(s, LAMBDA c : c = ".")
  IN  [digits |-> FoldLeft(LAMBDA n, c : 10 * n + SelectInSeq(DigitsInOrder, LAMBDA d : d = c) - 1, 0, digits),
       places |-> IF dot = 0 THEN 0 ELSE Len(s) - dot]

-----------------------------------------------------------------------------
(* A read of the text.  Behind the NUL that ends it there is nothing that  *)
(* source_begin could be: TLC stops at such a read.                        *)
source_begin(p) == IF p = Len(text) THEN "NUL" ELSE text[p + 1]
scanner_is_at_end(p) == p >= Len(text)
scanner_match(p, expected) == ~scanner_is_at_end(p) /\ source_begin(p) = expected
scanner_peek(p) == IF scanner_is_at_end(p) THEN "NUL" ELSE source_begin(p)
scanner_peek_next(p) == IF p + 1 >= Len(text) THEN "NUL" ELSE source_begin(p + 1)

(* From the loop `where` goes on to the position p; a token ends at p.     *)
Advance(p, where) == current' = p /\ pc' = where
scanner_add_token(type, from, to, literal) ==
  tokens' = LIST_PUSH(tokens, [type |-> type, start |-> from, stop |-> to, line |-> line, literal |-> literal])

(* scanner_new.  The table of keywords is not its own: another line of the *)
(* session may have built it.                                              *)
Init ==
  /\ text \in Texts
  /\ start = 0
  /\ current = 0
  /\ line = 1
  /\ tokens = LIST_INIT
  /\ HadError = FALSE
  /\ Keywords \in {<<>>, Keyword}
  /\ pc = "scan"

(* `start` is set once, before the loop. *)
FaultyScan(chars) ==
  /\ pc = "scan"
  /\ ~scanner_is_at_end(current)
  /\ source_begin(current) \in chars
  /\ start' = start

(* The head of the loop of scanner_scan_tokens, and the character that     *)
(* scanner_scan_token switches on.                                         *)
Scan(chars) ==
  /\ pc = "scan"
  /\ ~scanner_is_at_end(current)
  /\ source_begin(current) \in chars
  /\ start' = current

SingleToken ==
  /\ Scan(Single)
  /\ scanner_add_token(SingleType(source_begin(current)), start', current + 1, OBJECT_NULL)
  /\ Advance(current + 1, "scan")
  /\ UNCHANGED <<text, line, HadError, Keywords>>

ComparingToken ==
  /\ Scan(Comparing)
  /\ LET equal == scanner_match(current + 1, "=")
         p == IF equal THEN current + 2 ELSE current + 1
     IN  /\ scanner_add_token(ComparingType(source_begin(current), equal), start', p, OBJECT_NULL)
         /\ Advance(p, "scan")
  /\ UNCHANGED <<text, line, HadError, Keywords>>

Blank ==
  /\ Scan(Blanks)
  /\ Advance(current + 1, "scan")
  /\ UNCHANGED <<text, line, tokens, HadError, Keywords>>

Newline ==
  /\ Scan({"LF"})
  /\ line' = line + 1
  /\ Advance(current + 1, "scan")
  /\ UNCHANGED <<text, tokens, HadError, Keywords>>

Slash ==
  /\ Scan({"/"})
  /\ \/ /\ scanner_match(current + 1, "/")
        /\ Advance(current + 2, "comment")
        /\ UNCHANGED tokens
     \/ /\ ~scanner_match(current + 1, "/")
        /\ scanner_add_token("SLASH", start', current + 1, OBJECT_NULL)
        /\ Advance(current + 1, "scan")
  /\ UNCHANGED <<text, line, HadError, Keywords>>

Comment ==
  /\ pc = "comment"
  /\ IF scanner_peek(current) # "LF" /\ ~scanner_is_at_end(current)
     THEN Advance(current + 1, "comment")
     ELSE Advance(current, "scan")
  /\ UNCHANGED <<text, start, line, tokens, HadError, Keywords>>

(* Strings, numbers and identifiers are entered behind their first         *)
(* character.                                                              *)
Enter(chars, where) ==
  /\ Scan(chars)
  /\ Advance(current + 1, where)
  /\ UNCHANGED <<text, line, tokens, HadError, Keywords>>

(* Lines inside of a string are not counted. *)
FaultyStringCharacter ==
  /\ pc = "string"
  /\ scanner_peek(current) # "QUOTE"
  /\ ~scanner_is_at_end(current)
  /\ Advance(current + 1, "string")
  /\ UNCHANGED <<text, start, line, tokens, HadError, Keywords>>

StringCharacter ==
  /\ pc = "string"
  /\ scanner_peek(current) # "QUOTE"
  /\ ~scanner_is_at_end(current)
  /\ line' = IF scanner_peek(current) = "LF" THEN line + 1 ELSE line
  /\ Advance(current + 1, "string")
  /\ UNCHANGED <<text, start, tokens, HadError, Keywords>>
StringUnterminated ==
  /\ pc = "string"
  /\ scanner_is_at_end(current)
  /\ HadError' = TRUE
  /\ Advance(current, "scan")
  /\ UNCHANGED <<text, start, line, tokens, Keywords>>
StringEnds ==
  /\ pc = "string"
  /\ scanner_peek(current) = "QUOTE"
  /\ scanner_add_token("STRING", start, current + 1, OBJECT_STRING(CString(Span(start + 1, current))))
  /\ Advance(current + 1, "scan")
  /\ UNCHANGED <<text, start, line, HadError, Keywords>>

(* A point behind a number belongs to it, whatever comes next. *)
FaultyFractionStarts == scanner_peek(current) = "."

FractionStarts == scanner_peek(current) = "." /\ isdigit(scanner_peek_next(current))
NumberDigit ==
  /\ pc \in {"number", "fraction"}
  /\ isdigit(scanner_peek(current))
  /\ Advance(current + 1, pc)
  /\ UNCHANGED <<text, start, line, tokens, HadError, Keywords>>
NumberPoint ==
  /\ pc = "number"
  /\ FractionStarts
  /\ Advance(current + 1, "fraction")
  /\ UNCHANGED <<text, start, line, tokens, HadError, Keywords>>
NumberEnds ==
  /\ pc \in {"number", "fraction"}
  /\ ~isdigit(scanner_peek(current))
  /\ pc = "number" => ~FractionStarts
  /\ scanner_add_token("NUMBER", start, current, OBJECT_NUMBER(strtod(Span(start, current))))
  /\ Advance(current, "scan")
  /\ UNCHANGED <<text, start, line, HadError, Keywords>>

IdentifierCharacter ==
  /\ pc = "identifier"
  /\ is_alphanumeric(scanner_peek(current))
  /\ Advance(current + 1, "identifier")
  /\ UNCHANGED <<text, start, line, tokens, HadError, Keywords>>
(* A word that comes before the table is built is looked up in nothing. *)
FaultyIdentifierEnds ==
  /\ pc = "identifier"
  /\ ~is_alphanumeric(scanner_peek(current))
  /\ Keywords' = IF Keywords = <<>> THEN Keyword ELSE Keywords
  /\ LET word == Span(start, current)
         type == IF word \in DOMAIN Keywords THEN Keywords[word] ELSE "IDENTIFIER"
     IN  scanner_add_token(type, start, current, OBJECT_NULL)
  /\ Advance(current, "scan")
  /\ UNCHANGED <<text, start, line, HadError>>

IdentifierEnds ==
  /\ pc = "identifier"
  /\ ~is_alphanumeric(scanner_peek(current))
  /\ Keywords' = IF Keywords = <<>> THEN Keyword ELSE Keywords
  /\ LET word == Span(start, current)
         type == IF word \in DOMAIN Keywords' THEN Keywords'[word] ELSE "IDENTIFIER"
     IN  scanner_add_token(type, start, current, OBJECT_NULL)
  /\ Advance(current, "scan")
  /\ UNCHANGED <<text, start, line, HadError>>

(* The character at fault is not skipped. *)
FaultyUnexpected ==
  /\ Scan({source_begin(current)} \ Expected)
  /\ HadError' = TRUE
  /\ Advance(current, "scan")
  /\ UNCHANGED <<text, line, tokens, Keywords>>

Unexpected ==
  /\ Scan({source_begin(current)} \ Expected)
  /\ HadError' = TRUE
  /\ Advance(current + 1, "scan")
  /\ UNCHANGED <<text, line, tokens, Keywords>>

EndOfText ==
  /\ pc = "scan"
  /\ scanner_is_at_end(current)
  /\ scanner_add_token("EOF", current, current, OBJECT_NULL)
  /\ Advance(current, "done")
  /\ UNCHANGED <<text, start, line, HadError, Keywords>>

Next ==
  \/ SingleToken \/ ComparingToken \/ Blank \/ Newline \/ Slash \/ Comment
  \/ Enter({"QUOTE"}, "string") \/ Enter(Digits, "number") \/ Enter(Letters, "identifier")
  \/ StringCharacter \/ StringUnterminated \/ StringEnds
  \/ NumberDigit \/ NumberPoint \/ NumberEnds
  \/ IdentifierCharacter \/ IdentifierEnds
  \/ Unexpected \/ EndOfText

(* The scanner is one thread of C code: it keeps running while it can.     *)
Spec == Init /\ [][Next]_vars /\ WF_vars(Next)

-----------------------------------------------------------------------------
(* Properties.                                                             *)
Token(n) == tokens.pointer[n]

(* The cursor never passes the end of the text, the lookahead included,    *)
(* and the list has a cell for every token it holds.                       *)
TypeOK ==
  /\ current \in 0 .. Len(text)
  /\ start \in 0 .. current
  /\ line \in Nat \ {0}
  /\ HadError \in BOOLEAN
  /\ pc \in {"scan", "comment", "string", "number", "fraction", "identifier", "done"}
  /\ tokens.length \in 0 .. tokens.capacity
  /\ tokens.pointer \in Seq({Token(n) : n \in 1 .. tokens.capacity})
  /\ Len(tokens.pointer) = tokens.capacity

(* Every token carries the line its last character is on, behind comments, *)
(* strings over several lines and rejected characters too.                 *)
Newlines(t, p) == Cardinality({n \in 1 .. p : t[n] = "LF"})
LinesCounted ==
  /\ line = 1 + Newlines(text, current)
  /\ \A n \in 1 .. tokens.length : Token(n).line = 1 + Newlines(text, Token(n).stop)

(* Tokens are cut out of the text from left to right and no character goes *)
(* into two of them; the one TOKEN_EOF, which the loops of the parser rely *)
(* on, is the last.                                                        *)
TokensInOrder ==
  /\ \A n \in 1 .. tokens.length :
       /\ Token(n).stop <= current
       /\ IF Token(n).type = "EOF" THEN pc = "done" /\ n = tokens.length ELSE Token(n).start < Token(n).stop
  /\ \A n \in 1 .. tokens.length - 1 : Token(n).stop <= Token(n + 1).start
  /\ pc = "done" => tokens.length > 0 /\ Token(tokens.length).type = "EOF"

(* A word is cut out whole, from a letter that no letter precedes to the   *)
(* end of the letters and digits, and is the keyword it spells from the    *)
(* first word of the program on, whenever the table of keywords is built;  *)
(* only such words are identifiers.                                        *)
IsWord(t, from, to) ==
  /\ is_alpha(t[from + 1])
  /\ from > 0 => ~is_alpha(t[from])
  /\ \A n \in from + 1 .. to : is_alphanumeric(t[n])
  /\ to < Len(t) => ~is_alphanumeric(t[to + 1])
WholeWord(token) ==
  LET word == Span(token.start, token.stop)
  IN  /\ is_alpha(source_begin(token.start)) =>
           /\ IsWord(text, token.start, token.stop)
           /\ token.type = IF word \in DOMAIN Keyword THEN Keyword[word] ELSE "IDENTIFIER"
      /\ token.type = "IDENTIFIER" => is_alpha(source_begin(token.start))
WordsWhole == \A n \in 1 .. tokens.length : WholeWord(Token(n))

(* A token that has been pushed stays as it is, when the list is moved to  *)
(* a larger block too.                                                     *)
TokensKept ==
  [][/\ tokens'.length >= tokens.length
     /\ \A n \in 1 .. tokens.length : tokens'.pointer[n] = tokens.pointer[n]]_vars

(* Scanning ends, whatever the text is.                                    *)
ScannerFinishes == <>(pc = "done")
=============================================================================

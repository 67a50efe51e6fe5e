------------------------------ MODULE Library ------------------------------
(***************************************************************************)
(* The driver, main.c and lib.c: a script or a prompt, the two error flags *)
(* every other component sets, the one interpreter, and the exit status.   *)
(*                                                                         *)
(* A source text is what becomes of it: whether it scans and parses,       *)
(* whether parse_assignment follows a null pointer on it, whether a        *)
(* literal in it is out of the range of a double (strtod then sets errno), *)
(* and how its run ends.  The C library is modelled by the outcomes lib.c  *)
(* distinguishes, errno included: a call that succeeds, and an end of      *)
(* file, leave errno alone.                                                *)
(***************************************************************************)
EXTENDS Naturals, Sequences

CONSTANTS
  Texts,     \* source texts: [scans, parses, crashes, overflows : BOOLEAN, ends : Endings]
  MaxLines   \* bound: lines typed at the prompt

Endings == {"normal", "runtime_error", "abort"}

ASSUME TextsAssumption ==
  Texts \subseteq [scans : BOOLEAN, parses : BOOLEAN, crashes : BOOLEAN, overflows : BOOLEAN,
                   ends : Endings]
ASSUME LinesAssumption == MaxLines \in Nat

VARIABLES
  pc,               \* where main is
  caller,           \* who called library_run
  text,             \* the text it was given, or NoText
  errno,
  HadError, HadRuntimeError,
  interpreter,      \* 0 is NULL, n the n-th interpreter created
  exit,             \* the exit status
  endOfInput,       \* history: getline has met the end of the input
  lines             \* history: each text run, and the interpreter it ran in (0: it was not)

vars == <<pc, caller, text, errno, HadError, HadRuntimeError, interpreter, exit,
          endOfInput, lines>>

NoText == <<>>
EX_USAGE == 64
EX_DATAERR == 65
EX_NOINPUT == 66
EX_SOFTWARE == 70
EX_OSERR == 71

(* report, through library_error and library_error_at_token: what a text   *)
(* with an error in it does to the flag, and nothing ever clears it there. *)
report(t) == HadError' = (HadError \/ ~t.scans \/ ~t.parses)

Exit(status) == pc' = "exited" /\ exit' = status
AbortHere == pc' = "aborted" /\ UNCHANGED exit

-----------------------------------------------------------------------------
Init ==
  /\ pc = "main"
  /\ caller = "none"
  /\ text = NoText
  /\ errno = "0"
  /\ HadError = FALSE
  /\ HadRuntimeError = FALSE
  /\ interpreter = 0
  /\ exit = 0
  /\ endOfInput = FALSE
  /\ lines = <<>>

main(argc) ==
  /\ pc = "main"
  /\ \/ argc > 2 /\ Exit(EX_USAGE)
     \/ argc = 2 /\ pc' = "file" /\ UNCHANGED exit
     \/ argc <= 1 /\ pc' = "prompt" /\ UNCHANGED exit
  /\ UNCHANGED <<caller, text, errno, HadError, HadRuntimeError, interpreter, endOfInput, lines>>

(* library_run_file up to library_run: the file cannot be opened, cannot   *)
(* be positioned (two values of errno are asserted not to occur), does not *)
(* fit into memory or is shorter than it was, or it has been read.         *)
library_run_file ==
  /\ pc = "file"
  /\ \/ /\ errno' \in {"ENOENT", "EACCES"}
        /\ Exit(EX_NOINPUT)
        /\ UNCHANGED <<caller, text>>
     \/ /\ errno' \in {"ESPIPE", "EOVERFLOW"}
        /\ IF errno' \in {"EINVAL", "ESPIPE"} THEN AbortHere ELSE Exit(EX_OSERR)
        /\ UNCHANGED <<caller, text>>
     \/ /\ errno' \in {errno, "ENOMEM", "EIO"}
        /\ Exit(EX_OSERR)
        /\ UNCHANGED <<caller, text>>
     \/ /\ \E t \in Texts : text' = t
        /\ caller' = "file"
        /\ pc' = "run"
        /\ UNCHANGED <<errno, exit>>
  /\ UNCHANGED <<HadError, HadRuntimeError, interpreter, endOfInput, lines>>

(* getline: a line, an end of file, or a failure.  What tells the last two *)
(* apart is errno, which an end of file does not set.                      *)
library_run_prompt ==
  /\ pc = "prompt"
  /\ \/ /\ Len(lines) < MaxLines
        /\ \E t \in Texts : text' = t
        /\ caller' = "prompt"
        /\ pc' = "run"
        /\ UNCHANGED <<errno, exit, endOfInput>>
     \/ /\ \/ UNCHANGED errno /\ endOfInput' = TRUE
           \/ errno' \in {"ENOMEM", "EIO"} /\ UNCHANGED endOfInput
        /\ IF errno' = "EINVAL" THEN AbortHere
           ELSE IF errno' = "0" THEN Exit(0) ELSE Exit(EX_OSERR)
        /\ UNCHANGED <<caller, text>>
  /\ UNCHANGED <<HadError, HadRuntimeError, interpreter, lines>>

-----------------------------------------------------------------------------
(* Variants named Faulty... are the mistakes the properties must reject;   *)
(* no specification uses them.  Here: the parser forgets the scanner's     *)
(* errors.                                                                 *)
Faulty_library_run ==
  /\ pc = "run"
  /\ interpreter' = IF interpreter = 0 THEN 1 ELSE interpreter
  /\ errno' = IF text.overflows THEN "ERANGE" ELSE errno
  /\ HadError' = ~text.parses
  /\ pc' = IF text.crashes THEN "aborted" ELSE "parsed"
  /\ UNCHANGED <<caller, text, HadRuntimeError, exit, endOfInput, lines>>

(* library_run, as far as the test of HadError: the interpreter on the     *)
(* first call, the scanner, which reports errors and goes on, and the      *)
(* parser, which sees whatever tokens there are and may not come back.     *)
library_run ==
  /\ pc = "run"
  /\ interpreter' = IF interpreter = 0 THEN 1 ELSE interpreter
  /\ errno' = IF text.overflows THEN "ERANGE" ELSE errno
  /\ report(text)
  /\ pc' = IF text.crashes THEN "aborted" ELSE "parsed"
  /\ UNCHANGED <<caller, text, HadRuntimeError, exit, endOfInput, lines>>

(* The early return, or interpret.                                         *)
interpret ==
  /\ pc = "parsed"
  /\ lines' = Append(lines, <<text, IF HadError THEN 0 ELSE interpreter>>)
  /\ \/ /\ HadError
        /\ pc' = "ran"
        /\ UNCHANGED HadRuntimeError
     \/ /\ ~HadError
        /\ pc' = IF text.ends = "abort" THEN "aborted" ELSE "ran"
        /\ HadRuntimeError' = (HadRuntimeError \/ text.ends = "runtime_error")
  /\ UNCHANGED <<caller, text, errno, HadError, interpreter, exit, endOfInput>>

(* Back in library_run_file, or in the loop of library_run_prompt.         *)
FileRan ==
  /\ pc = "ran"
  /\ caller = "file"
  /\ Exit(IF HadError THEN EX_DATAERR ELSE IF HadRuntimeError THEN EX_SOFTWARE ELSE 0)
  /\ UNCHANGED <<caller, text, errno, HadError, HadRuntimeError, interpreter, endOfInput, lines>>

(* One flag is not reset. *)
FaultyLineRan ==
  /\ pc = "ran"
  /\ caller = "prompt"
  /\ HadRuntimeError' = FALSE
  /\ pc' = "prompt"
  /\ caller' = "none"
  /\ text' = NoText
  /\ UNCHANGED <<HadError, errno, interpreter, exit, endOfInput, lines>>

LineRan ==
  /\ pc = "ran"
  /\ caller = "prompt"
  /\ HadError' = FALSE
  /\ HadRuntimeError' = FALSE
  /\ pc' = "prompt"
  /\ caller' = "none"
  /\ text' = NoText
  /\ UNCHANGED <<errno, interpreter, exit, endOfInput, lines>>

Next ==
  \/ \E argc \in 1 .. 3 : main(argc)
  \/ library_run_file \/ library_run_prompt
  \/ library_run \/ interpret
  \/ FileRan \/ LineRan

Spec == Init /\ [][Next]_vars

-----------------------------------------------------------------------------
(* Properties.                                                             *)

Wellformed(t) == t.scans /\ t.parses

(* Every line typed at the prompt is judged on its own: it is executed if  *)
(* and only if it has no error itself, whatever happened to the lines      *)
(* before it, and every line that is executed finds the state the earlier  *)
(* ones have left, because there is one interpreter for all of them.       *)
LinesStandAlone ==
  \A n \in 1 .. Len(lines) : lines[n][2] = IF Wellformed(lines[n][1]) THEN 1 ELSE 0

(* The exit status of a script tells how far it came.                      *)
StatusTellsOutcome ==
  pc = "exited" /\ caller = "file" =>
    exit = IF ~Wellformed(text) THEN EX_DATAERR
           ELSE IF text.ends = "runtime_error" THEN EX_SOFTWARE ELSE 0

(* What the code says, and does not keep.                                  *)

(* "Couldn't allocate enough memory for line input" and EX_OSERR are for a *)
(* getline that failed; at the end of the input the prompt ends normally.  *)
EndOfInputIsNoFailure == endOfInput => exit = 0

-----------------------------------------------------------------------------
(* What the flags mean between one step and the next: the strengthening    *)
(* that makes the two properties above inductive.                          *)
FlagsInv ==
  /\ lines \in Seq(Texts \X {0, 1})
  /\ pc \in {"run", "parsed", "ran"} => text \in Texts
  /\ interpreter \in {0, 1}
  /\ pc \in {"main", "file", "prompt", "run"} => HadError = FALSE /\ HadRuntimeError = FALSE
  /\ pc \in {"parsed", "ran"} => interpreter = 1 /\ HadError = ~Wellformed(text)
  /\ pc = "parsed" => HadRuntimeError = FALSE
  /\ pc = "ran" => HadRuntimeError = (Wellformed(text) /\ text.ends = "runtime_error")
  /\ pc \in {"main", "file", "prompt"} => caller = "none"
LibraryInv ==
  /\ FlagsInv
  /\ LinesStandAlone
  /\ StatusTellsOutcome
=============================================================================

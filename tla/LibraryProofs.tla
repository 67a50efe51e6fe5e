--------------------------- MODULE LibraryProofs ---------------------------
(* TLAPS proofs about module Library, for every set of source texts and    *)
(* every number of lines.                                                  *)
EXTENDS Library, TLAPS

(* What library_run leaves behind does not depend on the lines before.     *)
LEMMA NextLibraryInv ==
  ASSUME LibraryInv, [Next]_vars
  PROVE  LibraryInv'
<1>. USE DEF LibraryInv, FlagsInv, LinesStandAlone, StatusTellsOutcome
<1>1. ASSUME NEW argc, main(argc)
      PROVE  LibraryInv'
  BY <1>1 DEF main, Exit
<1>2. CASE library_run_file
  BY <1>2 DEF library_run_file, Exit, AbortHere
<1>3. CASE library_run_prompt
  BY <1>3 DEF library_run_prompt, Exit, AbortHere
<1>4. CASE library_run
  <2>1. text \in Texts /\ HadError' = ~Wellformed(text)
    BY <1>4, TextsAssumption DEF library_run, report, Wellformed
  <2>. QED
    BY <1>4, <2>1 DEF library_run
<1>5. CASE interpret
  <2> DEFINE entry == <<text, IF HadError THEN 0 ELSE interpreter>>
  <2>1. text \in Texts /\ interpreter = 1 /\ HadError = ~Wellformed(text)
    BY <1>5 DEF interpret
  <2>2. entry \in Texts \X {0, 1}
    BY <2>1
  <2>3. lines' = Append(lines, entry)
    BY <1>5 DEF interpret
  <2>4. entry[2] = IF Wellformed(entry[1]) THEN 1 ELSE 0
    BY <2>1
  <2>. HIDE DEF entry
  <2>5. lines' \in Seq(Texts \X {0, 1})
    BY <2>2, <2>3
  <2>6. LinesStandAlone'
    <3>. SUFFICES ASSUME NEW n \in 1 .. Len(lines')
                  PROVE  lines'[n][2] = IF Wellformed(lines'[n][1]) THEN 1 ELSE 0
      BY DEF LinesStandAlone
    <3>1. CASE n = Len(lines) + 1
      BY <2>2, <2>3, <2>4, <3>1
    <3>2. CASE n # Len(lines) + 1
      <4>1. n \in 1 .. Len(lines) /\ lines'[n] = lines[n]
        BY <2>2, <2>3, <3>2
      <4>. QED
        BY <4>1
    <3>. QED
      BY <3>1, <3>2
  <2>7. FlagsInv'
    BY <1>5, <2>1, <2>5 DEF interpret
  <2>8. StatusTellsOutcome'
    BY <1>5 DEF interpret
  <2>. QED
    BY <2>6, <2>7, <2>8
<1>6. CASE FileRan
  BY <1>6 DEF FileRan, Exit
<1>7. CASE LineRan
  BY <1>7 DEF LineRan
<1>8. CASE UNCHANGED vars
  BY <1>8 DEF vars
<1>. QED
  BY <1>1, <1>2, <1>3, <1>4, <1>5, <1>6, <1>7, <1>8 DEF Next

LEMMA InitLibraryInv ==
  ASSUME Init
  PROVE  LibraryInv
BY DEF Init, LibraryInv, FlagsInv, LinesStandAlone, StatusTellsOutcome

(* However many lines are typed and whatever is wrong with some of them, a *)
(* line is executed exactly if it is well formed, and in the interpreter   *)
(* of all the others.                                                      *)
THEOREM LinesAreIndependent == Spec => []LinesStandAlone
<1>1. LibraryInv => LinesStandAlone
  BY DEF LibraryInv
<1>. QED
  BY InitLibraryInv, NextLibraryInv, <1>1, PTL DEF Spec

(* The exit status of a script is the one its worst error asks for.        *)
THEOREM StatusIsFaithful == Spec => []StatusTellsOutcome
<1>1. LibraryInv => StatusTellsOutcome
  BY DEF LibraryInv
<1>. QED
  BY InitLibraryInv, NextLibraryInv, <1>1, PTL DEF Spec
=============================================================================

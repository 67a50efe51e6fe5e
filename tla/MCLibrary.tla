----------------------------- MODULE MCLibrary -----------------------------
(* Instances of Library for TLC.                                           *)
EXTENDS Library

Text(scans, parses, crashes, overflows, ends) ==
  [scans |-> scans, parses |-> parses, crashes |-> crashes, overflows |-> overflows,
   ends |-> ends]

(* One text for each way a line can go.                                    *)
MCTexts == {
  Text(TRUE, TRUE, FALSE, FALSE, "normal"),
  Text(TRUE, TRUE, FALSE, TRUE, "normal"),
  Text(TRUE, TRUE, FALSE, FALSE, "runtime_error"),
  Text(TRUE, TRUE, FALSE, FALSE, "abort"),
  Text(FALSE, TRUE, FALSE, FALSE, "normal"),
  Text(TRUE, FALSE, FALSE, FALSE, "normal"),
  Text(TRUE, FALSE, TRUE, FALSE, "normal")}
=============================================================================

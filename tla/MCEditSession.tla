----------------------------- MODULE MCEditSession -----------------------------
(* Instances of EditSession for TLC: edits by hand, m1 and m2, of which m1 changes *)
(* the text that the AI answer applied by a1 is for.                               *)
EXTENDS EditSession

CONSTANTS m1, m2, a1

MCTransactions == Manual \cup Applications
================================================================================

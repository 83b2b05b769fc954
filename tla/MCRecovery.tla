----------------------------- MODULE MCRecovery -----------------------------
(* Small instances of Recovery; the constants are given by the .cfg files. *)
EXTENDS Recovery
=============================================================================

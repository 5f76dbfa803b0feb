--------------------------- MODULE MCProcessCycle ---------------------------
(* Model-checking instance of ProcessCycle.                                 *)
EXTENDS ProcessCycle, TLC
=============================================================================

--------------------------- MODULE MCBackgroundWork ---------------------------
(* Model-checking instance of BackgroundWork.                               *)
EXTENDS BackgroundWork
=============================================================================

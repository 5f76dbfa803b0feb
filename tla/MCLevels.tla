------------------------------- MODULE MCLevels -------------------------------
(* Model-checking instance of Levels.                                       *)
EXTENDS Levels
=============================================================================

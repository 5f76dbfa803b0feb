----------------------------- MODULE MCLogFormat -----------------------------
(* Model-checking instance of LogFormat.                                    *)
EXTENDS LogFormat
=============================================================================

---------------------------- MODULE MCPushStream ----------------------------
(* Model-checking instance of PushStream.                                   *)
EXTENDS PushStream, TLC
=============================================================================

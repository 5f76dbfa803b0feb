----------------------------- MODULE MCEventLoop -----------------------------
(* Model-checking instance of EventLoop.                                    *)
EXTENDS EventLoop, TLC
=============================================================================

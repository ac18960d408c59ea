----------------------------- MODULE MCCallChain -----------------------------
(* Two substrate processes on one state directory.                               *)
EXTENDS CallChain
=============================================================================

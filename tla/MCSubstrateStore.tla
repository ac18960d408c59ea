-------------------------- MODULE MCSubstrateStore --------------------------
(***************************************************************************)
(* Small instances of SubstrateStore for TLC.                              *)
(***************************************************************************)
EXTENDS SubstrateStore, TLC

\* The processes are interchangeable.
Processes == Permutations(Procs)
=============================================================================

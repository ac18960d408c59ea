---------------------------- MODULE MCPruneScan ----------------------------
(***************************************************************************)
(* A small instance of PruneScan for TLC.  The graces keep their order     *)
(* (an axis is given longer than the rest), and the window of hoarding     *)
(* spans two scans.                                                        *)
(***************************************************************************)
EXTENDS PruneScan, TLC

\* Two contents differ in nothing but their bytes.
Interchangeable == Permutations(Contents)
=============================================================================

------------------------- MODULE MCMetabolicClock -------------------------
(***************************************************************************)
(* Small instances of MetabolicClock for TLC.                              *)
(***************************************************************************)
EXTENDS MetabolicClock, TLC

\* Materials are interchangeable, and so are axes and migrations: no safety
\* property tells two of them apart.
Symmetry == Permutations(Raws) \cup Permutations(Axes) \cup Permutations(Migrations)
=============================================================================

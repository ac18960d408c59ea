---------------------------- MODULE MCPopulation ----------------------------
(***************************************************************************)
(* Small instances of PopulationConsensus for TLC: sessions come from      *)
(* dials, nothing is pulled.                                               *)
(***************************************************************************)
EXTENDS PopulationConsensus, TLC

CONSTANTS p1, p2, p3

\* Three peers, the first of which comes back with another key.
ThreePeers == {Hello(p1, "k1", "valid", TRUE), Hello(p1, "k2", "valid", TRUE),
               Hello(p2, "k1", "valid", TRUE), Hello(p3, "k1", "valid", TRUE)}
\* The other two are alike.
Symmetry == Permutations({p2, p3})
=============================================================================

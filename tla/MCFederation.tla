---------------------------- MODULE MCFederation ----------------------------
(***************************************************************************)
(* Small instances of Federation for TLC.                                  *)
(***************************************************************************)
EXTENDS Federation

\* A peer with a key, a legacy peer without, a revoked one, and a forged hello.
SomeHellos == {Hello("p1", "k1", "valid", TRUE), Hello("p2", None, "none", TRUE),
               Hello("p3", None, "none", TRUE), Hello("p1", "k1", "bad", TRUE)}

\* Events that came through too many peers, or may not leave their substrate, and one
\* that may enter.
SomeBatches ==
    {<<[leaf |-> "safe", path |-> <<"p2", "p1">>], [leaf |-> "private", path |-> <<>>],
       [leaf |-> "safe", path |-> <<"p2">>]>>}
=============================================================================

---------------------------- MODULE MCLifecycle ----------------------------
(***************************************************************************)
(* Small instances of Lifecycle for TLC.                                   *)
(***************************************************************************)
EXTENDS Lifecycle, TLC

CONSTANTS d0, d1, d2  \* state directories

Envelope(ts, anchor, override, sound) ==
    [ts |-> ts, anchor |-> anchor, override |-> override, sound |-> sound]

\* One that comes too soon after the first, one that may go one deeper, and one
\* that was minted for another parent.
SpawnEnvelopes ==
    {Envelope(1, 1, FALSE, TRUE), Envelope(2, 2, FALSE, TRUE),
     Envelope(3, 3, TRUE, TRUE), Envelope(4, 9, FALSE, FALSE)}

Interval(from, until) == [from |-> from, until |-> until]

SuccessorIntervals == {Interval(1, 3), Interval(2, Open), Interval(3, Open)}

\* The directories of children are interchangeable.
Children == Permutations({d1, d2})
=============================================================================

------------------------ MODULE MCSchemaMigration ------------------------
(***************************************************************************)
(* Small instances of SchemaMigration for TLC.                             *)
(***************************************************************************)
EXTENDS SchemaMigration

CONSTANTS a1, a2  \* axis names

Modify(a) == [op |-> "modify_axis_threshold", axis |-> a]
Add(a) == [op |-> "add_axis_to_gradient", axis |-> a]

ModifyAndAdd == {Modify(a1), Add(a2)}
AddOnly      == {Add(a2)}
NoDiffs      == {}
=============================================================================

------------------------------- MODULE Optional -------------------------------
(***************************************************************************)
(* The value a Python name without a value has.                            *)
(***************************************************************************)
EXTENDS Integers

CONSTANT None  \* Python's None

ASSUME OptionalAssumption == None \notin Int
=============================================================================

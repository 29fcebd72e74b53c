------------------------------ MODULE NoneValue -------------------------------
(***************************************************************************)
(* Python's None, one value for all the modules that need an absent one.   *)
(***************************************************************************)
CONSTANT None
=============================================================================

------------------------------- MODULE Absent -------------------------------
(* null, of the tables and of the code: what a column holds that holds nothing. *)
CONSTANT Null
=============================================================================

------------------------- MODULE MCDuplicateFilter --------------------------
(***************************************************************************)
(* DuplicateFilter with a window of 3 and 7 sequence numbers: a number can *)
(* be in the window, at its edge, just out of it and long forgotten.       *)
(***************************************************************************)
EXTENDS DuplicateFilter
=============================================================================

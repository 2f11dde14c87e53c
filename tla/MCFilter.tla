------------------------------ MODULE MCFilter ------------------------------
(***************************************************************************)
(* Instance of Filter for TLC.                                             *)
(***************************************************************************)
EXTENDS Filter

\* Both ends of the range for three workers, and beyond them.
SomeNumbers == {-5, -2, -1, 0, 1, 3, 4}
=============================================================================

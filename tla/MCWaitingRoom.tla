---------------------------- MODULE MCWaitingRoom ----------------------------
(***************************************************************************)
(* Instances of WaitingRoom for TLC.  A millisecond is two ticks, and the  *)
(* form's grid is two milliseconds.                                        *)
(***************************************************************************)
EXTENDS WaitingRoom

\* At once, two openings on the grid and one beside it.
FormOpenings == {0, 4, 8, 5}
=============================================================================

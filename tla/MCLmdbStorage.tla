--------------------------- MODULE MCLmdbStorage ---------------------------
(***************************************************************************)
(* Three instances, one ballot, a value and the empty value.               *)
(***************************************************************************)
EXTENDS LmdbStorage

CONSTANT v1

MCValues == {v1}
MCBallots == {1}
=============================================================================

------------------------------- MODULE MCHome -------------------------------
(***************************************************************************)
(* A small instance of Home for TLC: two dogs besides one's own.           *)
(***************************************************************************)
EXTENDS Home

CONSTANTS me, rex, luna, nobody

MCUsers == {me, rex, luna}
=============================================================================

------------------------------ MODULE MCThread ------------------------------
(***************************************************************************)
(* Small instances of Thread for TLC.                                      *)
(***************************************************************************)
EXTENDS Thread

CONSTANTS o1, o2, i1, i2, none

TwoObjects == {o1, o2}
TwoIds     == {i1, i2}
=============================================================================

------------------------------ MODULE MCSocket ------------------------------
(***************************************************************************)
(* Small instances of Socket for TLC.                                      *)
(***************************************************************************)
EXTENDS Socket, TLC

CONSTANTS s1, s2, s3, c1, c2, nobody

ThreeStarts == {s1, s2, s3}
TwoClients  == {c1, c2}

(* Starts are interchangeable, and so are clients. *)
Symmetry == Permutations(Servers) \cup Permutations(Clients)
=============================================================================

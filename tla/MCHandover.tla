----------------------------- MODULE MCHandover -----------------------------
(***************************************************************************)
(* Small instances of Handover for TLC.                                    *)
(***************************************************************************)
EXTENDS Handover, TLC

CONSTANTS c1, c2, c3, f1, f2, b1, b2, nobody

AllRepairs == {"msghdr", "recv_buffer", "uri"}
NotHeader  == {"recv_buffer", "uri"}
TwoClients   == {c1, c2}
ThreeClients == {c1, c2, c3}
OneMember  == {c1}
(* What the names of a member and of a stranger may be found to be. *)
OneEach     == {[c \in Clients |-> 1]}
NotOneEach  == {c1 :> 1 @@ c2 :> 0, c1 :> 2 @@ c2 :> 1}
OneFront   == {f1}
TwoFronts  == {f1, f2}
OneBack    == {b1}
TwoBacks   == {b1, b2}

(* Workers of a process are interchangeable; only for runs without         *)
(* liveness properties.                                                    *)
Symmetry == Permutations(Fronts) \cup Permutations(Backs)
=============================================================================

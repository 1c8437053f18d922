---------------------------- MODULE MCThreadPool ----------------------------
(***************************************************************************)
(* Small instances of ThreadPool for TLC.                                  *)
(***************************************************************************)
EXTENDS ThreadPoolInv, TLC

CONSTANTS c1, c2, w1, w2, srv

AllFixes  == {"epoll_create", "events_resize"}
TwoCallers   == {c1, c2}
OneWorker    == {w1}
TwoWorkers   == {w1, w2}

(* Callers are interchangeable, and so are workers; only for runs without  *)
(* liveness properties.                                                    *)
Symmetry == Permutations(Callers) \cup Permutations(Workers)
=============================================================================

------------------------------ MODULE MCLogger ------------------------------
(***************************************************************************)
(* Small instances of Logger for TLC.                                      *)
(***************************************************************************)
EXTENDS Logger

CONSTANTS t1, t2, srv

AllFixes    == {"epoll_create", "events_resize"}
OnlyValid   == {"thread_valid"}
TwoTracers  == {t1, t2}
=============================================================================

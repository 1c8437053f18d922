------------------------------- MODULE Epoll -------------------------------
(***************************************************************************)
(* The wrapper CEpoll (Epoll.h) around one epoll instance, as operators    *)
(* that the modules owning a CEpoll use.  m_epoll is -1 or a descriptor,   *)
(* for which one value, Handle, is enough.                                 *)
(*                                                                         *)
(* The code as written inverts one guard and resizes the wrong vector;     *)
(* either one stops every user of CEpoll at once.  Fixes names the         *)
(* repairs an instance assumes: with Fixes = {} the operators say what the *)
(* code does, with both names they say what its comments ask for, and the  *)
(* rest of a user can be examined.                                         *)
(***************************************************************************)
EXTENDS Integers, FiniteSets

CONSTANT Fixes
ASSUME FixesAssumption == Fixes \subseteq {"epoll_create", "events_resize"}

EVENT_SIZE == 128     \* the length of the array given to epoll_wait
Handle     == 3       \* any descriptor

(***************************************************************************)
(* Create: the <<return value, m_epoll>> pairs a call may end with.  The   *)
(* guard refuses the value -1 that every fresh or closed CEpoll has.       *)
(***************************************************************************)
CreateRefused(epoll) ==
  IF "epoll_create" \in Fixes THEN epoll # -1 ELSE epoll = -1

CreateResults(epoll, mayFail) ==
  IF CreateRefused(epoll)
  THEN {<<-1, epoll>>}
  ELSE {<<0, Handle>>} \cup (IF mayFail THEN {<<-2, -1>>} ELSE {})

(***************************************************************************)
(* WaitEvents on an open instance: the sets of events a call may return;   *)
(* descriptors are watched level-triggered, so a call reports whatever is  *)
(* ready, up to EVENT_SIZE.  The events are copied into the caller's       *)
(* vector, which is empty and which the code never makes larger.           *)
(***************************************************************************)
WaitResults(ready) ==
  IF Cardinality(ready) <= EVENT_SIZE
  THEN {ready}
  ELSE {E \in SUBSET ready : Cardinality(E) = EVENT_SIZE}

CopyOverruns(events) == events # {} /\ "events_resize" \notin Fixes

(***************************************************************************)
(* Add and Del: the return values on the instance epoll, and what is       *)
(* watched after the call.                                                 *)
(***************************************************************************)
AddResults(epoll, mayFail) ==
  IF epoll = -1 THEN {-1} ELSE {0} \cup (IF mayFail THEN {-2} ELSE {})

WatchedAfterAdd(watched, fd, ret) == IF ret = 0 THEN watched \cup {fd} ELSE watched
WatchedAfterDel(watched, fd)      == watched \ {fd}
=============================================================================

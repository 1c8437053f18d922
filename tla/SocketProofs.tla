---------------------------- MODULE SocketProofs ----------------------------
(***************************************************************************)
(* What holds of the server sockets for any number of starts and clients,  *)
(* for every backlog, with and without failures and rivals.                *)
(***************************************************************************)
EXTENDS Socket, FiniteSetTheorems, TLAPS

(***************************************************************************)
(* The phases of a start: what its Init has returned and what it holds,    *)
(* by the call it is in.                                                   *)
(***************************************************************************)
PhaseOf(s) ==
  /\ life[s] = "new" => pc[s] = "idle" /\ ret[s] = 1 /\ sock[s] = "none"
  /\ life[s] = "up" => pc[s] # "idle"
  /\ life[s] = "up" /\ pc[s] \in {"socket", "bind", "listen"} => ret[s] = 1
  /\ At(s, "serve") => ret[s] = 0
  /\ At(s, "status") => ret[s] \in {-2, -3, -4}
  /\ At(s, "status") /\ ret[s] \in {-3, -4} => sock[s] # "none"
  /\ At(s, "status") /\ ret[s] = -2 => sock[s] = "none"
  /\ At(s, "socket") => sock[s] = "none"
  /\ life[s] = "up" /\ pc[s] \in {"bind", "listen", "serve"} => sock[s] # "none"
  /\ At(s, "unlink") => kind[s] = "local" /\ ret[s] \in {0, -3, -4}

(* Without rivals one process runs at a time. *)
Alone ==
  ~rivals => \A s, d \in Servers : life[s] = "up" /\ life[d] = "up" => s = d

(***************************************************************************)
(* From bind to unlink a server has its name, unless an intruder removed   *)
(* its file; and only such a server, or one that has crashed, has a name.  *)
(***************************************************************************)
Bound(s) ==
  /\ life[s] = "up"
  /\ \/ pc[s] \in {"listen", "serve"}
     \/ pc[s] \in {"status", "unlink"} /\ ret[s] \in {0, -4}

Named(s) ==
  \/ name[kind[s]] = s
  \/ rivals /\ kind[s] = "local" /\ \E d \in Servers : Intruder(d)

SockInv ==
  /\ TypeOK /\ Alone
  /\ \A s \in Servers : PhaseOf(s) /\ (Bound(s) => Named(s))

LEMMA SockInit == Init => SockInv
  BY ServersAssumption DEF Init, SockInv, TypeOK, Alone, PhaseOf, Bound, Named, At, Kinds

-----------------------------------------------------------------------------
LEMMA TypeStep == TypeOK /\ [Next]_vars => TypeOK'
  <1> SUFFICES ASSUME TypeOK, [Next]_vars PROVE TypeOK'
    OBVIOUS
  <1> USE DEF TypeOK, serverVars, clientVars, world, Goes, InitReturns, At, Kinds
  <1>1. CASE UNCHANGED vars BY <1>1 DEF vars
  <1>2. ASSUME NEW c \in Clients, Connect(c) PROVE TypeOK'
    BY <1>2 DEF Connect
  <1>3. ASSUME NEW s \in Servers, ServerStep(s) PROVE TypeOK'
    <2>1. CASE Begin(s) BY <2>1 DEF Begin
    <2>2. CASE OpenSocket(s) BY <2>2 DEF OpenSocket
    <2>3. CASE Bind(s) BY <2>3 DEF Bind
    <2>4. CASE Listen(s) BY <2>4 DEF Listen
    <2>5. CASE CloseBegins(s) BY <2>5 DEF CloseBegins
    <2>6. CASE CloseUnlink(s) BY <2>6 DEF CloseUnlink
    <2>7. CASE CloseSocket(s) BY <2>7 DEF CloseSocket, Freed, Reset
    <2>8. CASE Exit(s) BY <2>8 DEF Exit, ProcessEnds, Freed, Reset
    <2>9. CASE Crash(s) BY <2>9 DEF Crash, ProcessEnds, Freed, Reset
    <2>10. ASSUME NEW c \in Clients, Link(s, c) PROVE TypeOK'
      BY <2>10 DEF Link
    <2> QED BY <1>3, <2>1, <2>2, <2>3, <2>4, <2>5, <2>6, <2>7, <2>8, <2>9, <2>10 DEF ServerStep
  <1> QED BY <1>1, <1>2, <1>3 DEF Next

(* What a step of one server leaves alone in the others. *)
LEMMA OthersUntouched ==
  ASSUME TypeOK, NEW s \in Servers, ServerStep(s), NEW d \in Servers, d # s
  PROVE  /\ life'[d] = life[d] /\ kind'[d] = kind[d] /\ pc'[d] = pc[d]
         /\ ret'[d] = ret[d] /\ sock'[d] = sock[d] /\ rivals' = rivals
  BY DEF TypeOK, ServerStep, Begin, OpenSocket, Bind, Listen, CloseBegins, CloseUnlink,
         CloseSocket, Exit, Crash, ProcessEnds, Link, InitReturns, Goes, serverVars, world

LEMMA PhaseStep ==
  ASSUME SockInv, NEW s \in Servers, ServerStep(s)
  PROVE  Alone' /\ \A d \in Servers : PhaseOf(d)'
  <1> USE DEF SockInv, serverVars, world, At, Goes
  <1>1. PhaseOf(s)'
    <2> USE DEF PhaseOf, TypeOK
    <2>1. CASE Begin(s) BY <2>1 DEF Begin
    <2>2. CASE OpenSocket(s) BY <2>2 DEF OpenSocket, InitReturns
    <2>3. CASE Bind(s) BY <2>3 DEF Bind, InitReturns
    <2>4. CASE Listen(s) BY <2>4 DEF Listen, InitReturns
    <2>5. CASE CloseBegins(s) BY <2>5 DEF CloseBegins
    <2>6. CASE CloseUnlink(s) BY <2>6 DEF CloseUnlink
    <2>7. CASE CloseSocket(s) BY <2>7 DEF CloseSocket
    <2>8. CASE Exit(s) BY <2>8 DEF Exit, ProcessEnds
    <2>9. CASE Crash(s) BY <2>9 DEF Crash, ProcessEnds
    <2>10. ASSUME NEW c \in Clients, Link(s, c) PROVE PhaseOf(s)'
      BY <2>10 DEF Link
    <2> QED BY <2>1, <2>2, <2>3, <2>4, <2>5, <2>6, <2>7, <2>8, <2>9, <2>10 DEF ServerStep
  <1>2. ASSUME NEW d \in Servers, d # s PROVE PhaseOf(d)'
    BY <1>2, OthersUntouched DEF PhaseOf
  <1>3. life'[s] = "up" => life[s] = "up" \/ Begin(s)
    BY DEF TypeOK, ServerStep, OpenSocket, Bind, Listen, CloseBegins, CloseUnlink,
           CloseSocket, Exit, Crash, ProcessEnds, Link
  <1>4. Alone'
    BY <1>3, OthersUntouched DEF Alone, Begin
  <1> QED BY <1>1, <1>2, <1>4

(* Who once failed to bind has failed for good. *)
LEMMA IntruderStays ==
  ASSUME SockInv, NEW s \in Servers, ServerStep(s), NEW d \in Servers, Intruder(d)
  PROVE  Intruder(d)'
  <1>1. CASE d # s BY <1>1, OthersUntouched DEF SockInv, Intruder
  <1>2. CASE d = s
    BY <1>2 DEF SockInv, TypeOK, PhaseOf, At, Intruder, ServerStep, Begin, OpenSocket, Bind,
         Listen, CloseBegins, CloseUnlink, CloseSocket, Exit, Crash, ProcessEnds, Link,
         InitReturns, Goes, serverVars, world
  <1> QED BY <1>1, <1>2

-----------------------------------------------------------------------------
(***************************************************************************)
(* The names.  A step of s may take its own name or free it; only its      *)
(* unlink may take the name of another, and then s is an intruder, or      *)
(* there has been one.                                                     *)
(***************************************************************************)
LEMMA NameStep ==
  ASSUME SockInv, NEW s \in Servers, ServerStep(s)
  PROVE  \A d \in Servers : Bound(d)' => Named(d)'
  <1> SUFFICES ASSUME NEW d \in Servers, Bound(d)', ~(rivals /\ kind'[d] = "local" /\
                        \E e \in Servers : Intruder(e)')
               PROVE  name'[kind'[d]] = d
    BY PhaseStep, ServersAssumption, IntruderStays
       DEF Named, ServerStep, Begin, OpenSocket, Bind, Listen, CloseBegins, CloseUnlink,
           CloseSocket, Exit, Crash, ProcessEnds, Link, world
  <1>1. \A e \in Servers : Intruder(e) => Intruder(e)'
    BY IntruderStays
  <1>2. CASE d # s
    <2>1. Bound(d) /\ kind'[d] = kind[d] /\ rivals' = rivals
      BY <1>2, OthersUntouched DEF SockInv, Bound
    <2>2. name[kind[d]] = d
      BY <2>1, <1>1 DEF SockInv, Named
    <2>3. CASE CloseUnlink(s)
      <3>1. CASE kind[d] = "ip"
        BY <2>1, <2>2, <2>3, <3>1 DEF CloseUnlink, SockInv, TypeOK, Kinds
      <3>2. CASE kind[d] = "local"
        <4>1. rivals
          BY <1>2, <2>1, <2>3 DEF SockInv, Alone, Bound, CloseUnlink, At
        <4>2. ~Intruder(s)
          BY <1>1, <2>1, <3>2, <4>1
        <4>3. Bound(s) /\ kind[s] = "local"
          BY <2>3, <4>2 DEF SockInv, PhaseOf, CloseUnlink, At, Bound, Intruder
        <4>4. name["local"] = s
          BY <4>1, <4>3, <1>1, <2>1, <3>2 DEF SockInv, Named
        <4> QED BY <4>4, <2>2, <3>2, <1>2
      <3> QED BY <3>1, <3>2 DEF SockInv, TypeOK, Kinds
    <2>4. CASE Bind(s)
      BY <2>1, <2>2, <2>4, <1>2, ServersAssumption DEF Bind, SockInv, TypeOK
    <2>5. CASE CloseSocket(s) \/ Exit(s) \/ Crash(s)
      BY <2>1, <2>2, <2>5, <1>2
         DEF CloseSocket, Exit, Crash, ProcessEnds, Freed, SockInv, TypeOK
    <2>6. CASE UNCHANGED name
      BY <2>1, <2>2, <2>6
    <2> QED BY <2>3, <2>4, <2>5, <2>6
            DEF ServerStep, Begin, OpenSocket, Listen, CloseBegins, Link
  <1>3. CASE d = s
    <2> USE <1>3 DEF SockInv, TypeOK, Bound, At, Goes, serverVars, clientVars, world
    <2>1. CASE Begin(s) BY <2>1 DEF Begin
    <2>2. CASE OpenSocket(s) BY <2>2 DEF OpenSocket, InitReturns
    <2>3. CASE Bind(s) BY <2>3 DEF Bind, InitReturns
    <2>4. CASE Listen(s)
      <3>1. Bound(s) BY <2>4 DEF Listen
      <3> QED BY <2>4, <3>1, <1>1 DEF Listen, Named
    <2>5. CASE CloseBegins(s)
      <3>1. Bound(s) BY <2>5 DEF CloseBegins, PhaseOf
      <3> QED BY <2>5, <3>1, <1>1 DEF CloseBegins, Named
    <2>6. CASE CloseUnlink(s) BY <2>6 DEF CloseUnlink
    <2>7. CASE CloseSocket(s) BY <2>7 DEF CloseSocket
    <2>8. CASE Exit(s) BY <2>8 DEF Exit, ProcessEnds
    <2>9. CASE Crash(s) BY <2>9 DEF Crash, ProcessEnds
    <2>10. ASSUME NEW c \in Clients, Link(s, c) PROVE name'[kind'[s]] = s
      <3>1. Bound(s) BY <2>10 DEF Link
      <3> QED BY <2>10, <3>1, <1>1 DEF Link, Named
    <2> QED BY <2>1, <2>2, <2>3, <2>4, <2>5, <2>6, <2>7, <2>8, <2>9, <2>10 DEF ServerStep
  <1> QED BY <1>2, <1>3

LEMMA SockStep == SockInv /\ [Next]_vars => SockInv'
  <1> SUFFICES ASSUME SockInv, [Next]_vars PROVE SockInv'
    OBVIOUS
  <1>1. TypeOK' BY TypeStep DEF SockInv
  <1>2. CASE UNCHANGED vars
    BY <1>1, <1>2 DEF vars, serverVars, world, SockInv, Alone, PhaseOf, Bound, Named, Intruder, At
  <1>3. ASSUME NEW c \in Clients, Connect(c) PROVE SockInv'
    BY <1>1, <1>3 DEF Connect, serverVars, world, SockInv, Alone, PhaseOf, Bound, Named, Intruder, At
  <1>4. ASSUME NEW s \in Servers, ServerStep(s) PROVE SockInv'
    BY <1>1, <1>4, PhaseStep, NameStep DEF SockInv
  <1> QED BY <1>2, <1>3, <1>4 DEF Next

(***************************************************************************)
(* The invariant holds in every reachable state.                           *)
(***************************************************************************)
THEOREM SockInvHolds == Spec => []SockInv
  BY SockInit, SockStep, PTL DEF Spec

(***************************************************************************)
(* Every variable keeps its type.                                          *)
(***************************************************************************)
THEOREM SockTypeCorrect == Spec => []TypeOK
  BY SockInvHolds, PTL DEF SockInv

(***************************************************************************)
(* A server that serves is found under its name, unless a start beside it  *)
(* could not bind and removed its file (Socket.h:103, Logger.h:83-87).     *)
(***************************************************************************)
THEOREM NamedHolds == Spec => []NamedWhileServing
  <1>1. SockInv => NamedWhileServing
    BY DEF SockInv, NamedWhileServing, Served, Bound, Named, PhaseOf, At, Intruder
  <1> QED BY <1>1, SockInvHolds, PTL

-----------------------------------------------------------------------------
(***************************************************************************)
(* Stale files.  Every start that failed to bind is paid for by an end     *)
(* without a Close, and a file that is stale and has not cost a start yet  *)
(* is paid for as well.                                                    *)
(***************************************************************************)
Stale   == name["local"] # Nobody /\ life[name["local"]] # "up"
Charged == \E u \in Servers : life[u] = "up" /\ Intruder(u) /\ pc[u] \in {"status", "unlink"}
Debt    == IF Stale /\ ~Charged THEN 1 ELSE 0

(* A name that a running server has not bound yet, or has given back, is   *)
(* not its own; and a name is never that of a start that has not begun.    *)
NotOwn ==
  /\ \A s \in Servers :
       life[s] = "up" /\ pc[s] \in {"socket", "bind", "close", "exit"} => name["local"] # s
  /\ \A s \in Servers : Intruder(s) /\ life[s] = "up" => name["local"] # s
  /\ \A s \in Servers : life[s] = "new" => name["local"] # s
  /\ \A s \in Servers :
       life[s] = "up" /\ name["local"] = s => kind[s] = "local" /\ sock[s] # "none"

FileInv == ~rivals => NotOwn /\ Cardinality(FailedBinds) + Debt <= Cardinality(Crashed)

LEMMA FileInit == Init => FileInv
  <1> SUFFICES ASSUME Init PROVE FileInv
    OBVIOUS
  <1>1. FailedBinds = {} /\ Crashed = {} BY DEF Init, FailedBinds, Crashed
  <1>2. NotOwn BY ServersAssumption DEF Init, NotOwn, Intruder, Kinds
  <1>3. ~Stale BY DEF Init, Stale, Kinds
  <1> QED BY <1>1, <1>2, <1>3, FS_EmptySet DEF FileInv, Debt

LEMMA Counts ==
  ASSUME TypeOK
  PROVE  /\ IsFiniteSet(FailedBinds) /\ IsFiniteSet(Crashed)
         /\ Cardinality(FailedBinds) \in Nat /\ Cardinality(Crashed) \in Nat
  BY ServersAssumption, FS_Subset, FS_CardinalityType DEF FailedBinds, Crashed

LEMMA NotOwnStep ==
  ASSUME SockInv, ~rivals, NotOwn, NEW s \in Servers, ServerStep(s)
  PROVE  NotOwn'
  <1> USE ServersAssumption
      DEF SockInv, TypeOK, NotOwn, Kinds, At, Goes, Intruder, serverVars, clientVars, world
  <1>1. CASE Begin(s) BY <1>1 DEF Begin, PhaseOf
  <1>2. CASE OpenSocket(s) BY <1>2 DEF OpenSocket, InitReturns, PhaseOf
  <1>3. CASE Bind(s) BY <1>3 DEF Bind, InitReturns, PhaseOf
  <1>4. CASE Listen(s) BY <1>4 DEF Listen, InitReturns, PhaseOf
  <1>5. CASE CloseBegins(s)
    BY <1>5 DEF CloseBegins, PhaseOf
  <1>6. CASE CloseUnlink(s) BY <1>6 DEF CloseUnlink
  <1>7. CASE CloseSocket(s) BY <1>7 DEF CloseSocket, Freed
  <1>8. CASE Exit(s) BY <1>8 DEF Exit, ProcessEnds, Freed
  <1>9. CASE Crash(s) BY <1>9 DEF Crash, ProcessEnds, Freed
  <1>10. ASSUME NEW c \in Clients, Link(s, c) PROVE NotOwn' BY <1>10 DEF Link
  <1> QED BY <1>1, <1>2, <1>3, <1>4, <1>5, <1>6, <1>7, <1>8, <1>9, <1>10 DEF ServerStep

LEMMA FileStep ==
  ASSUME SockInv, FileInv, NEW s \in Servers, ServerStep(s)
  PROVE  FileInv'
  <1> SUFFICES ASSUME ~rivals
               PROVE  NotOwn' /\ Cardinality(FailedBinds)' + Debt' <= Cardinality(Crashed)'
    BY OthersUntouched
       DEF FileInv, ServerStep, Begin, OpenSocket, Bind, Listen, CloseBegins, CloseUnlink,
           CloseSocket, Exit, Crash, ProcessEnds, Link, world
  <1>1. TypeOK /\ TypeOK' /\ NotOwn /\ Cardinality(FailedBinds) + Debt <= Cardinality(Crashed)
    BY TypeStep DEF SockInv, FileInv, Next
  <1>2. NotOwn' BY <1>1, NotOwnStep
  <1>3. Debt \in {0, 1} /\ Debt' \in {0, 1} BY DEF Debt
  <1>4. \A u \in Servers : life[u] = "up" => u = s \/ Begin(s)
    BY DEF SockInv, Alone, ServerStep, OpenSocket, Bind, Listen, CloseBegins, CloseUnlink,
           CloseSocket, Exit, Crash, Link, At
  <1> USE DEF serverVars, clientVars, world, At, Goes
  (* The cases in which neither set changes: the debt does not grow. *)
  <1>5. ASSUME FailedBinds' = FailedBinds, Crashed' = Crashed, Stale' => Stale,
               Charged => Charged' \/ ~Stale'
        PROVE  Cardinality(FailedBinds)' + Debt' <= Cardinality(Crashed)'
    <2>1. Debt' <= Debt BY <1>5 DEF Debt
    <2> QED BY <1>1, <1>3, <1>5, <2>1, Counts
  <1>6. CASE Crash(s)
    <2>1. FailedBinds' = FailedBinds /\ Crashed' = Crashed \cup {s} /\ s \notin Crashed
      BY <1>1, <1>6 DEF Crash, ProcessEnds, FailedBinds, Crashed, TypeOK
    <2>2. Cardinality(Crashed)' = Cardinality(Crashed) + 1
      BY <1>1, <2>1, Counts, FS_AddElement
    <2> QED BY <1>1, <1>2, <1>3, <2>1, <2>2, Counts
  <1>7. CASE Bind(s)
    <2>1. ~Charged
      BY <1>4, <1>7 DEF Bind, Begin, Charged
    <2>2. CASE kind[s] = "local" /\ name["local"] # Nobody
      <3>1. FailedBinds' = FailedBinds \cup {s} /\ s \notin FailedBinds /\ Crashed' = Crashed
        BY <1>1, <1>7, <2>2
           DEF Bind, InitReturns, CanBind, FailedBinds, Crashed, SockInv, PhaseOf, TypeOK
      <3>2. (Stale /\ ~Stale') \/ Charged'
        BY <1>1, <1>7, <2>2 DEF Bind, InitReturns, CanBind, Charged, Intruder, TypeOK
      <3>3. Stale
        BY <1>1, <1>4, <1>7, <2>2 DEF Stale, NotOwn, Bind, Begin, TypeOK, Kinds
      <3>4. Debt = 1 /\ Debt' = 0
        BY <2>1, <3>2, <3>3 DEF Debt
      <3>5. Cardinality(FailedBinds)' = Cardinality(FailedBinds) + 1
        BY <1>1, <3>1, Counts, FS_AddElement
      <3> QED BY <1>1, <1>2, <3>1, <3>4, <3>5, Counts
    <2>3. CASE ~(kind[s] = "local" /\ name["local"] # Nobody)
      <3>1. FailedBinds' = FailedBinds /\ Crashed' = Crashed
        BY <1>1, <1>7, <2>3 DEF Bind, InitReturns, CanBind, Lingers, FailedBinds, Crashed, TypeOK
      <3>2. Stale' => Stale
        BY <1>1, <1>7, <2>3 DEF Bind, Stale, TypeOK, Kinds
      <3> QED BY <1>2, <1>5, <2>1, <3>1, <3>2
    <2> QED BY <2>2, <2>3
  <1>8. CASE ~Crash(s) /\ ~Bind(s)
    <2>1. FailedBinds' = FailedBinds /\ Crashed' = Crashed
      <3> USE <1>1, <1>8 DEF FailedBinds, Crashed, TypeOK, SockInv, PhaseOf
      <3>1. CASE Begin(s) BY <3>1 DEF Begin
      <3>2. CASE OpenSocket(s) BY <3>2 DEF OpenSocket, InitReturns
      <3>3. CASE Listen(s) BY <3>3 DEF Listen, InitReturns
      <3>4. CASE Exit(s) BY <3>4 DEF Exit, ProcessEnds
      <3>5. CASE UNCHANGED <<life, kind, ret>> BY <3>5
      <3> QED BY <3>1, <3>2, <3>3, <3>4, <3>5
              DEF ServerStep, CloseBegins, CloseUnlink, CloseSocket, Link
    <2>2. Stale' => Stale
      <3> USE <1>1, <1>8 DEF Stale, NotOwn, TypeOK, Kinds
      <3>1. CASE Begin(s) BY <3>1 DEF Begin
      <3>2. CASE CloseUnlink(s) BY <3>2 DEF CloseUnlink
      <3>3. CASE CloseSocket(s) BY <3>3 DEF CloseSocket, Freed
      <3>4. CASE Exit(s) BY <3>4 DEF Exit, ProcessEnds, Freed
      <3>5. CASE UNCHANGED <<life, name>> BY <3>5
      <3> QED BY <3>1, <3>2, <3>3, <3>4, <3>5
              DEF ServerStep, OpenSocket, Listen, CloseBegins, Link
    <2>3. Charged => Charged' \/ ~Stale'
      <3> SUFFICES ASSUME Charged PROVE Charged' \/ ~Stale'
        OBVIOUS
      <3>1. ~Begin(s) BY DEF Charged, Begin
      <3>2. life[s] = "up" /\ Intruder(s) /\ pc[s] \in {"status", "unlink"}
        BY <1>4, <3>1 DEF Charged
      <3>3. CASE CloseBegins(s)
        BY <1>1, <3>2, <3>3 DEF CloseBegins, Charged, Intruder, TypeOK, SockInv, PhaseOf
      <3>4. CASE CloseUnlink(s)
        BY <1>1, <3>4 DEF CloseUnlink, Stale, TypeOK, Kinds
      <3> QED BY <1>8, <3>1, <3>2, <3>3, <3>4
              DEF ServerStep, OpenSocket, Listen, CloseSocket, Exit, Link
    <2> QED BY <1>2, <1>5, <2>1, <2>2, <2>3
  <1> QED BY <1>2, <1>6, <1>7, <1>8

(***************************************************************************)
(* Without rivals a stale socket file costs one start and no more, however *)
(* many starts there are (Socket.h:98-111, 161).                           *)
(***************************************************************************)
THEOREM StaleFileHealsHolds == Spec => []StaleFileHeals
  <1>1. SockInv /\ FileInv /\ [Next]_vars => FileInv'
    <2> SUFFICES ASSUME SockInv, FileInv, [Next]_vars PROVE FileInv'
      OBVIOUS
    <2>1. CASE UNCHANGED <<serverVars, name, world>>
      <3>1. FailedBinds' = FailedBinds /\ Crashed' = Crashed
        BY <2>1 DEF FailedBinds, Crashed, serverVars
      <3>2. Debt' = Debt
        BY <2>1 DEF Debt, Stale, Charged, Intruder, serverVars
      <3> QED BY <2>1, <3>1, <3>2 DEF FileInv, NotOwn, Intruder, serverVars, world
    <2>2. ASSUME NEW s \in Servers, ServerStep(s) PROVE FileInv'
      BY <2>2, FileStep
    <2> QED BY <2>1, <2>2 DEF Next, Connect, vars
  <1>2. SockInv /\ FileInv => StaleFileHeals
    <2>1. Debt \in {0, 1} BY DEF Debt
    <2> QED BY <2>1, Counts DEF SockInv, FileInv, StaleFileHeals
  <1> QED BY <1>1, <1>2, FileInit, SockInvHolds, PTL DEF Spec

-----------------------------------------------------------------------------
(* The socket of the wrong family never gets an IP name. *)
Homeless ==
  "ip_socket" \notin repairs =>
    /\ name["ip"] = Nobody
    /\ \A s \in Servers : kind[s] = "ip" =>
         /\ ret[s] \in {1, -2, -3} /\ sock[s] \in {"none", "open"}
         /\ pc[s] \notin {"listen", "serve"}

LEMMA HomelessStep == SockInv /\ Homeless /\ [Next]_vars => Homeless'
  <1> SUFFICES ASSUME SockInv, Homeless, [Next]_vars, "ip_socket" \notin repairs PROVE Homeless'
    BY DEF Next, ServerStep, Begin, OpenSocket, Bind, Listen, CloseBegins, CloseUnlink, CloseSocket,
           Exit, Crash, ProcessEnds, Link, Connect, Homeless, vars, world
  <1> USE ServersAssumption
      DEF SockInv, TypeOK, Homeless, Kinds, At, Goes, serverVars, clientVars, world
  <1>1. CASE UNCHANGED vars BY <1>1 DEF vars
  <1>2. ASSUME NEW c \in Clients, Connect(c) PROVE Homeless'
    BY <1>2 DEF Connect
  <1>3. ASSUME NEW s \in Servers, ServerStep(s) PROVE Homeless'
    <2>1. CASE Begin(s) BY <2>1 DEF Begin, PhaseOf
    <2>2. CASE OpenSocket(s) BY <2>2 DEF OpenSocket, InitReturns
    <2>3. CASE Bind(s) BY <2>3 DEF Bind, InitReturns, CanBind
    <2>4. CASE Listen(s) BY <2>4 DEF Listen, InitReturns
    <2>5. CASE CloseBegins(s) BY <2>5 DEF CloseBegins
    <2>6. CASE CloseUnlink(s) BY <2>6 DEF CloseUnlink
    <2>7. CASE CloseSocket(s) BY <2>7 DEF CloseSocket, Freed
    <2>8. CASE Exit(s) BY <2>8 DEF Exit, ProcessEnds, Freed
    <2>9. CASE Crash(s) BY <2>9 DEF Crash, ProcessEnds, Freed
    <2>10. ASSUME NEW c \in Clients, Link(s, c) PROVE Homeless' BY <2>10 DEF Link
    <2> QED BY <1>3, <2>1, <2>2, <2>3, <2>4, <2>5, <2>6, <2>7, <2>8, <2>9, <2>10 DEF ServerStep
  <1> QED BY <1>1, <1>2, <1>3 DEF Next

(***************************************************************************)
(* As written, Init puts a local socket in the place of the IP socket      *)
(* (Socket.h:143): no IP server ever listens or has its port, however      *)
(* often it is started.                                                    *)
(***************************************************************************)
THEOREM AsWrittenNoIpServer ==
  Spec => []("ip_socket" \notin repairs =>
               /\ name["ip"] = Nobody
               /\ \A s \in Servers : kind[s] = "ip" => ~Served(s) /\ ~Listens(s))
  <1>1. Init => Homeless BY DEF Init, Homeless, Kinds
  <1>2. SockInv /\ Homeless =>
          ("ip_socket" \notin repairs =>
             /\ name["ip"] = Nobody
             /\ \A s \in Servers : kind[s] = "ip" => ~Served(s) /\ ~Listens(s))
    BY DEF Homeless, Served, Listens, At
  <1> QED BY <1>1, <1>2, HomelessStep, SockInvHolds, PTL DEF Spec
=============================================================================

------------------------------- MODULE Socket -------------------------------
(***************************************************************************)
(* CSocket (Socket.h) as the servers of the program use it, from one start *)
(* to the next.  Each server is one object in a process of its own, made   *)
(* by one start of the program: the log server, with a local socket at a   *)
(* fixed path (Logger.h:68-104), or CServer, with an IP socket at a fixed  *)
(* port.  Init that fails is followed by Close; a process may end at any   *)
(* moment.  Clients are the sockets of threads that call Trace.            *)
(*                                                                         *)
(* The kernel frees a port when its socket goes and nothing lingers, but a *)
(* socket file stays until somebody unlinks it, whoever bound it.          *)
(*                                                                         *)
(* A definition marked "mutant" is a plausible mistake in the definition   *)
(* that follows it; no specification uses one.                             *)
(***************************************************************************)
EXTENDS Integers, FiniteSets

CONSTANTS Servers,  \* the starts
          Clients,  \* the threads that trace
          Nobody,   \* no server
          Backlog,  \* the argument of listen, 32 in the code
          MayFail   \* may socket, listen and accept fail?

ASSUME ServersAssumption == IsFiniteSet(Servers) /\ IsFiniteSet(Clients) /\ Nobody \notin Servers
ASSUME BacklogAssumption == Backlog \in Nat /\ MayFail \in BOOLEAN

Kinds == {"local", "ip"}

VARIABLES
  life,    \* [Servers -> ...], the process: "new", "up", "crashed" or "gone"
  kind,    \* [Servers -> Kinds], m_param.attr & SOCK_ISIP
  pc,      \* [Servers -> ...], the call the server is in
  status,  \* [Servers -> 0..3], m_status
  sock,    \* [Servers -> ...], m_socket: "none", "open", "bound", "listens"
  ret,     \* [Servers -> Int], what Init returned; 1 before it returns
  name,    \* [Kinds -> Servers \cup {Nobody}], whose socket the path, or
           \* the port, is the name of
  client,  \* [Clients -> ...], "fresh", "half", "pending", "live", "reset"
  to,      \* [Clients -> Servers \cup {Nobody}], whom it connected to
  rivals,  \* may a start begin while another runs?  chosen once
  repairs  \* the repairs of the code assumed, chosen once

serverVars == <<life, kind, pc, status, sock, ret>>
clientVars == <<client, to>>
world      == <<rivals, repairs>>
vars       == <<serverVars, name, clientVars, world>>

Init ==
  /\ life = [s \in Servers |-> "new"] /\ kind = [s \in Servers |-> "local"]
  /\ pc = [s \in Servers |-> "idle"] /\ status = [s \in Servers |-> 0]
  /\ sock = [s \in Servers |-> "none"] /\ ret = [s \in Servers |-> 1]
  /\ name = [k \in Kinds |-> Nobody]
  /\ client = [c \in Clients |-> "fresh"] /\ to = [c \in Clients |-> Nobody]
  /\ rivals \in BOOLEAN /\ repairs \in SUBSET {"ip_socket"}

At(s, p)   == life[s] = "up" /\ pc[s] = p
Goes(s, p) == pc' = [pc EXCEPT ![s] = p]

(* A closed server resets the connections nobody accepted, the end of its  *)
(* process all of them.                                                    *)
Reset(s, states) ==
  client' = [c \in Clients |-> IF to[c] = s /\ client[c] \in states THEN "reset" ELSE client[c]]

Freed(s) == [k \in Kinds |-> IF k = "ip" /\ name[k] = s THEN Nobody ELSE name[k]]

-----------------------------------------------------------------------------
(* Init.  The status is 0 and there is no socket yet. *)

Begin(s) ==
  /\ life[s] = "new"
  /\ ~rivals => \A d \in Servers : life[d] # "up"
  /\ life' = [life EXCEPT ![s] = "up"] /\ Goes(s, "socket")
  /\ \E k \in Kinds : kind' = [kind EXCEPT ![s] = k]
  /\ UNCHANGED <<status, sock, ret, name, clientVars, world>>

InitReturns(s, r) ==
  /\ ret' = [ret EXCEPT ![s] = r]
  /\ status' = IF r = 0 THEN [status EXCEPT ![s] = 1] ELSE status
  /\ Goes(s, IF r = 0 THEN "serve" ELSE "status")

(* The socket of the right family is overwritten by a local one. *)
OpenSocket(s) ==
  /\ At(s, "socket")
  /\ \/ /\ sock' = [sock EXCEPT ![s] = "open"]
        /\ Goes(s, "bind") /\ UNCHANGED <<status, ret>>
     \/ MayFail /\ InitReturns(s, -2) /\ UNCHANGED sock
  /\ UNCHANGED <<life, kind, name, clientVars, world>>

(* A local socket cannot be bound to an IP address. *)
CanBind(s) == kind[s] = "local" \/ "ip_socket" \in repairs

(* mutant: the path is cleared first, as many programs do *)
BindUnlinks(s) ==
  /\ At(s, "bind")
  /\ IF CanBind(s)
     THEN /\ name' = [name EXCEPT ![kind[s]] = s]
          /\ sock' = [sock EXCEPT ![s] = "bound"]
          /\ Goes(s, "listen") /\ UNCHANGED <<status, ret>>
     ELSE InitReturns(s, -3) /\ UNCHANGED <<name, sock>>
  /\ UNCHANGED <<life, kind, clientVars, world>>

(* SO_REUSEADDR is not set: the connections of an earlier server keep the  *)
(* port for a while.                                                       *)
Lingers(s) == kind[s] = "ip" /\ \E d \in Servers \ {s} : kind[d] = "ip" /\ ret[d] = 0

Bind(s) ==
  /\ At(s, "bind")
  /\ \/ /\ CanBind(s) /\ name[kind[s]] = Nobody
        /\ name' = [name EXCEPT ![kind[s]] = s]
        /\ sock' = [sock EXCEPT ![s] = "bound"]
        /\ Goes(s, "listen") /\ UNCHANGED <<status, ret>>
     \/ /\ ~CanBind(s) \/ name[kind[s]] # Nobody \/ Lingers(s)
        /\ InitReturns(s, -3) /\ UNCHANGED <<name, sock>>
  /\ UNCHANGED <<life, kind, clientVars, world>>

(* mutant: the result of listen is returned *)
ListenRaw(s) ==
  /\ At(s, "listen")
  /\ \/ sock' = [sock EXCEPT ![s] = "listens"] /\ InitReturns(s, 0)
     \/ MayFail /\ InitReturns(s, -1) /\ UNCHANGED sock
  /\ UNCHANGED <<life, kind, name, clientVars, world>>

Listen(s) ==
  /\ At(s, "listen")
  /\ \/ sock' = [sock EXCEPT ![s] = "listens"] /\ InitReturns(s, 0)
     \/ MayFail /\ InitReturns(s, -4) /\ UNCHANGED sock
  /\ UNCHANGED <<life, kind, name, clientVars, world>>

-----------------------------------------------------------------------------
(* Link of a server, with the CSocket it makes and initialises. *)
Link(s, c) ==
  /\ At(s, "serve") /\ status[s] > 0
  /\ client[c] = "pending" /\ to[c] = s
  /\ client' = [client EXCEPT ![c] = "live"]
  /\ status' = [status EXCEPT ![s] = 2]
  /\ UNCHANGED <<life, kind, pc, sock, ret, name, to, world>>

(* Close: by the server's owner, or after Init has failed. *)
CloseBegins(s) ==
  /\ At(s, "serve") \/ At(s, "status")
  /\ status' = [status EXCEPT ![s] = 3]
  /\ Goes(s, IF sock[s] = "none" THEN "exit" ELSE IF kind[s] = "local" THEN "unlink" ELSE "close")
  /\ UNCHANGED <<life, kind, sock, ret, name, clientVars, world>>

(* mutant: the file is removed only by who bound it *)
CloseUnlinkOwn(s) ==
  /\ At(s, "unlink")
  /\ name' = [name EXCEPT !["local"] = IF @ = s THEN Nobody ELSE @]
  /\ Goes(s, "close")
  /\ UNCHANGED <<life, kind, status, sock, ret, clientVars, world>>

CloseUnlink(s) ==
  /\ At(s, "unlink")
  /\ name' = [name EXCEPT !["local"] = Nobody]
  /\ Goes(s, "close")
  /\ UNCHANGED <<life, kind, status, sock, ret, clientVars, world>>

CloseSocket(s) ==
  /\ At(s, "close")
  /\ sock' = [sock EXCEPT ![s] = "none"] /\ name' = Freed(s)
  /\ Reset(s, {"pending"}) /\ Goes(s, "exit")
  /\ UNCHANGED <<life, kind, status, ret, to, world>>

ProcessEnds(s, how) ==
  /\ life' = [life EXCEPT ![s] = how]
  /\ sock' = [sock EXCEPT ![s] = "none"] /\ name' = Freed(s)
  /\ Reset(s, {"pending", "live"})
  /\ UNCHANGED <<kind, pc, status, ret, to, world>>

Exit(s)  == At(s, "exit") /\ ProcessEnds(s, "gone")
Crash(s) == life[s] = "up" /\ ProcessEnds(s, "crashed")

-----------------------------------------------------------------------------
(***************************************************************************)
(* Init and Link of a client, once per thread.  connect waits while the    *)
(* backlog is full.  A client that was refused keeps its socket and is     *)
(* never linked again (Logger.h:109).                                      *)
(***************************************************************************)
Listens(s) == sock[s] = "listens"
Waiting(s) == {c \in Clients : client[c] = "pending" /\ to[c] = s}

Connect(c) ==
  /\ client[c] = "fresh"
  /\ \/ \E s \in Servers :
          /\ name["local"] = s /\ Listens(s) /\ Cardinality(Waiting(s)) <= Backlog
          /\ client' = [client EXCEPT ![c] = "pending"]
          /\ to' = [to EXCEPT ![c] = s]
     \/ /\ ~\E s \in Servers : name["local"] = s /\ Listens(s)
        /\ client' = [client EXCEPT ![c] = "half"]
        /\ UNCHANGED to
  /\ UNCHANGED <<serverVars, name, world>>

ServerStep(s) ==
  \/ Begin(s) \/ OpenSocket(s) \/ Bind(s) \/ Listen(s)
  \/ CloseBegins(s) \/ CloseUnlink(s) \/ CloseSocket(s) \/ Exit(s) \/ Crash(s)
  \/ \E c \in Clients : Link(s, c)

Next == (\E s \in Servers : ServerStep(s)) \/ (\E c \in Clients : Connect(c))

Spec == Init /\ [][Next]_vars

-----------------------------------------------------------------------------
(***************************************************************************)
(* Type correctness.                                                       *)
(***************************************************************************)
TypeOK ==
  /\ life \in [Servers -> {"new", "up", "crashed", "gone"}]
  /\ kind \in [Servers -> Kinds]
  /\ pc \in [Servers -> {"idle", "socket", "bind", "listen", "serve", "status",
                         "unlink", "close", "exit"}]
  /\ status \in [Servers -> 0..3]
  /\ sock \in [Servers -> {"none", "open", "bound", "listens"}]
  /\ ret \in [Servers -> {1, 0, -2, -3, -4}]
  /\ name \in [Kinds -> Servers \cup {Nobody}]
  /\ client \in [Clients -> {"fresh", "half", "pending", "live", "reset"}]
  /\ to \in [Clients -> Servers \cup {Nobody}]
  /\ rivals \in BOOLEAN /\ repairs \subseteq {"ip_socket"}

(***************************************************************************)
(* A server that serves can be found under its name, unless another was    *)
(* started beside it: one whose own bind failed, and whose Close then      *)
(* removed the file it had not bound (Socket.h:103, Logger.h:83-87).  So   *)
(* two servers never serve at one path or port before that happened.       *)
(***************************************************************************)
Served(s)   == At(s, "serve")
Intruder(d) == kind[d] = "local" /\ ret[d] = -3

NamedWhileServing ==
  \A s \in Servers : Served(s) =>
    \/ name[kind[s]] = s
    \/ rivals /\ kind[s] = "local" /\ \E d \in Servers \ {s} : Intruder(d)

(***************************************************************************)
(* Without rivals a stale file costs one start, not more: the Close of the *)
(* start that found it removes it.  There are never more starts that       *)
(* failed to bind than ends without a Close (Socket.h:98-111, 161).        *)
(***************************************************************************)
FailedBinds == {s \in Servers : kind[s] = "local" /\ ret[s] = -3}
Crashed     == {s \in Servers : life[s] = "crashed"}

StaleFileHeals == ~rivals => Cardinality(FailedBinds) <= Cardinality(Crashed)
=============================================================================

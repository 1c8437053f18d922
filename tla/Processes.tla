----------------------------- MODULE Processes -----------------------------
(***************************************************************************)
(* The three processes of the service, from Main to the end of the last.   *)
(* Main forks the log server, then CServer::Init forks the business        *)
(* process; each is joined to the main process by a pair of sockets, and a *)
(* process ends when it finds nobody at the other end: the log server in   *)
(* RecvFD, the business process in RecvSocket, the main process by SIGPIPE *)
(* in SendSocket.  A fork copies every descriptor, so that the business    *)
(* process also holds the main process's end of the log server's pair.     *)
(*                                                                         *)
(* Inside the processes only what their ends depend on is modelled: the    *)
(* clients in the business process's pipe, and the lines its accept loop   *)
(* has written to the log server and nobody has read.                      *)
(*                                                                         *)
(* A definition marked "mutant" is a plausible mistake in the definition   *)
(* that follows it; no specification uses one.                             *)
(***************************************************************************)
EXTENDS Integers

CONSTANTS PipeCap,  \* bound: the descriptors the business pipe holds
          SockBuf,  \* bound: the turns of lines a connection to the log holds
          MaxSent,  \* bound: the clients that connect
          MayFail,  \* may the calls of a start-up fail?
          MayKill   \* may a process end at any moment?

ASSUME BoundsAssumption == {PipeCap, SockBuf, MaxSent} \subseteq Nat \ {0}
ASSUME MayAssumption    == {MayFail, MayKill} \subseteq BOOLEAN

Procs == {"main", "log", "biz"}
Ends  == {"L0", "L1", "B0", "B1"}    \* read and written ends of the pairs

(***************************************************************************)
(* epoll_create: Create opens a descriptor (Epoll.h:64).  ip_socket: Init  *)
(* keeps the socket it opened for an IP server (Socket.h:143).             *)
(* thread_valid: the log thread stays in its loop (Thread.h:85).  msghdr:  *)
(* the message headers are zeroed before use (Process.h:79, 108).          *)
(***************************************************************************)
AllRepairs == {"epoll_create", "ip_socket", "thread_valid", "msghdr"}

VARIABLES
  at,      \* [Procs -> ...], where each process is
  why,     \* [Procs -> ...], what ended it
  holds,   \* [Ends -> SUBSET Procs], who has the end open
  queue,   \* the clients in the business pipe
  sent,    \* how many clients the main process has accepted
  got,     \* what the accept loop received last
  conn,    \* the accept loop's client of the log server
  unread,  \* the lines in that connection
  reader,  \* the log server: "off", "reads", or "deaf": it listens only
  repairs  \* the repairs of the code assumed, chosen once

vars == <<at, why, holds, queue, sent, got, conn, unread, reader, repairs>>
restVars == <<queue, sent, got, conn, unread, reader>>

Init ==
  /\ at = [main |-> "forkLog", log |-> "off", biz |-> "off"]
  /\ why = [p \in Procs |-> "none"]
  /\ holds = [e \in Ends |-> {}]
  /\ queue = 0 /\ sent = 0 /\ got = "none"
  /\ conn = "none" /\ unread = 0 /\ reader = "off"
  /\ repairs \in SUBSET AllRepairs

Gone(p)     == at[p] = "gone"
HeaderOK    == "msghdr" \in repairs
EpollOK     == "epoll_create" \in repairs

Goes(p, to) == at' = [at EXCEPT ![p] = to]

(* The end of a process closes what it holds. *)
Exits(p, reason) ==
  /\ Goes(p, "gone")
  /\ why' = [why EXCEPT ![p] = reason]
  /\ holds' = [e \in Ends |-> holds[e] \ {p}]
  /\ reader' = IF p = "log" THEN "off" ELSE reader
  /\ UNCHANGED <<queue, sent, got, conn, unread>>

-----------------------------------------------------------------------------
(* CreateSubProcess: both sides close the end they do not use.             *)

Forks(child, new, to, entry) ==
  /\ at' = [at EXCEPT !["main"] = to, ![child] = entry]
  /\ holds' = [e \in Ends |-> IF e \in new THEN {"main", child}
                              ELSE IF "main" \in holds[e] THEN holds[e] \cup {child}
                              ELSE holds[e]]
  /\ UNCHANGED <<why, restVars>>

Closes(p, e, to) ==
  /\ Goes(p, to)
  /\ holds' = [holds EXCEPT ![e] = @ \ {p}]
  /\ UNCHANGED <<why, restVars>>

ForkLog ==
  /\ at["main"] = "forkLog"
  /\ \/ Forks("log", {"L0", "L1"}, "closeL0", "closeL1")
     \/ MayFail /\ Exits("main", "init")

(* A failure ends Init, and ~CServer calls Close. *)
ForkBusiness ==
  /\ at["main"] = "forkBiz"
  /\ \/ Forks("biz", {"B0", "B1"}, "closeB0", "closeB1")
     \/ MayFail /\ Goes("main", "close") /\ UNCHANGED <<why, holds, restVars>>

(* mutant: of the second pipe it closes the end it writes to *)
MainClosesWritten ==
  \/ at["main"] = "closeL0" /\ Closes("main", "L0", "forkBiz")
  \/ at["main"] = "closeB0" /\ Closes("main", "B1", "setUp")

MainCloses ==
  \/ at["main"] = "closeL0" /\ Closes("main", "L0", "forkBiz")
  \/ at["main"] = "closeB0" /\ Closes("main", "B0", "setUp")

(* mutant: the child keeps its copy of the written end *)
LogEntryKeeps ==
  at["log"] = "closeL1" /\ Goes("log", "start") /\ UNCHANGED <<why, holds, restVars>>

LogEntry == at["log"] = "closeL1" /\ Closes("log", "L1", "start")

(* mutant: the child closes all it does not use *)
BusinessEntryTidy ==
  /\ at["biz"] = "closeB1" /\ Goes("biz", "startUp")
  /\ holds' = [holds EXCEPT !["B1"] = @ \ {"biz"}, !["L1"] = @ \ {"biz"}]
  /\ UNCHANGED <<why, restVars>>

BusinessEntry == at["biz"] = "closeB1" /\ Closes("biz", "B1", "startUp")

-----------------------------------------------------------------------------
(* The main process: the rest of CServer::Init, Run and Close.             *)

(* mutant: Init goes on whatever its calls returned *)
SetUpUnchecked == at["main"] = "setUp" /\ Goes("main", "run") /\ UNCHANGED <<why, holds, restVars>>

SetUp ==
  /\ at["main"] = "setUp"
  /\ \/ EpollOK /\ "ip_socket" \in repairs /\ Goes("main", "run")
     \/ (MayFail \/ ~EpollOK \/ "ip_socket" \notin repairs) /\ Goes("main", "close")
  /\ UNCHANGED <<why, holds, restVars>>

(* SendFD(-1) fails, as -1 is no descriptor; what stops the children is    *)
(* the end of the process.                                                 *)
CloseServer == at["main"] = "close" /\ Exits("main", "init")

(* ThreadFunc for the next client.  sendmsg waits while the pipe is full.  *)
SendSocket ==
  /\ at["main"] = "run" /\ sent < MaxSent
  /\ \/ /\ holds["B0"] # {}
        /\ \/ queue < PipeCap /\ queue' = queue + 1
           \/ ~HeaderOK /\ UNCHANGED queue
        /\ sent' = sent + 1
        /\ UNCHANGED <<at, why, holds, got, conn, unread, reader>>
     \/ holds["B0"] = {} /\ Exits("main", "sigpipe")

-----------------------------------------------------------------------------
(* The business process. *)

(* The database, the callbacks, the epoll and the pool. *)
StartUp ==
  /\ at["biz"] = "startUp"
  /\ \/ EpollOK /\ Goes("biz", "recv") /\ UNCHANGED <<why, holds, restVars>>
     \/ (MayFail \/ ~EpollOK) /\ Exits("biz", "startup")

(* mutant: a message is taken from a pipe that has none *)
RecvSocketEmpty ==
  /\ at["biz"] = "recv"
  /\ queue > 0 \/ holds["B1"] = {}
  /\ queue' = queue - 1 /\ got' = "client"
  /\ Goes("biz", "trace")
  /\ UNCHANGED <<why, holds, sent, conn, unread, reader>>

(* At the end of the pipe recvmsg returns 0, and the descriptor is the 0   *)
(* that calloc left.                                                       *)
RecvSocket ==
  /\ at["biz"] = "recv"
  /\ \/ queue > 0 /\ queue' = queue - 1 /\ got' = "client"
     \/ queue = 0 /\ holds["B1"] = {} /\ got' = "zero" /\ UNCHANGED queue
  /\ Goes("biz", "trace")
  /\ UNCHANGED <<why, holds, sent, conn, unread, reader>>

(***************************************************************************)
(* The result is traced before it is looked at.  The first line connects   *)
(* the thread to the log server, or leaves it with a client that will      *)
(* never send; write waits while the connection is full.                   *)
(***************************************************************************)
TraceBreaks == at["biz"] = "trace" /\ conn = "open" /\ reader = "off" /\ Exits("biz", "sigpipe")

Trace ==
  /\ at["biz"] = "trace"
  /\ conn = "open" => reader # "off" /\ unread < SockBuf
  /\ \/ got = "zero" /\ Exits("biz", "eof")
     \/ /\ got = "client" /\ Goes("biz", "recv")
        /\ \/ conn # "half" /\ reader # "off" /\ conn' = "open" /\ unread' = unread + 1
           \/ (conn = "half" \/ reader = "off") /\ conn' = "half" /\ UNCHANGED unread
        /\ UNCHANGED <<why, holds, queue, sent, got, reader>>

-----------------------------------------------------------------------------
(* The log server. *)

(* CreateLogServer goes on whatever Start returned. *)
StartLogger ==
  /\ at["log"] = "start"
  /\ Goes("log", "wait")
  /\ \/ EpollOK /\ reader' = IF "thread_valid" \in repairs THEN "reads" ELSE "deaf"
     \/ (MayFail \/ ~EpollOK) /\ UNCHANGED reader
  /\ UNCHANGED <<why, holds, queue, sent, got, conn, unread>>

ReadLines ==
  /\ reader = "reads" /\ unread > 0
  /\ unread' = 0
  /\ UNCHANGED <<at, why, holds, queue, sent, got, conn, reader>>

(* RecvFD; nothing is ever sent to it. *)
RecvFD ==
  /\ at["log"] = "wait" /\ holds["L1"] = {}
  /\ Goes("log", "close")
  /\ UNCHANGED <<why, holds, restVars>>

CloseLogger == at["log"] = "close" /\ Exits("log", "eof")

-----------------------------------------------------------------------------
(* With a header that was not initialised recvmsg may fail, which both     *)
(* children take for the end.                                              *)
RecvFails ==
  /\ ~HeaderOK
  /\ \/ at["log"] = "wait" /\ Goes("log", "close") /\ UNCHANGED got
     \/ at["biz"] = "recv" /\ Goes("biz", "trace") /\ got' = "zero"
  /\ UNCHANGED <<why, holds, queue, sent, conn, unread, reader>>

(* A signal, or what ThreadPool, Logger and Handover name as faults.       *)
Kill(p) == MayKill /\ at[p] \notin {"off", "gone"} /\ Exits(p, "kill")

MainStep     == ForkLog \/ ForkBusiness \/ MainCloses \/ SetUp \/ CloseServer
BusinessStep == BusinessEntry \/ StartUp \/ RecvSocket \/ Trace \/ TraceBreaks
LogStep      == LogEntry \/ StartLogger \/ RecvFD \/ CloseLogger

Next ==
  /\ \/ MainStep \/ SendSocket \/ BusinessStep \/ LogStep \/ ReadLines \/ RecvFails
     \/ \E p \in Procs : Kill(p)
  /\ UNCHANGED repairs

Spec == Init /\ [][Next]_vars

(* The kernel runs every process, and the log thread beside its process's  *)
(* main thread; a next client may never come, and a call that may fail     *)
(* need not.                                                               *)
FairSpec ==
  /\ Spec
  /\ WF_vars(MainStep /\ UNCHANGED repairs)
  /\ WF_vars(BusinessStep /\ UNCHANGED repairs)
  /\ WF_vars(LogStep /\ UNCHANGED repairs)
  /\ WF_vars(ReadLines /\ UNCHANGED repairs)

-----------------------------------------------------------------------------
(***************************************************************************)
(* Type correctness.                                                       *)
(***************************************************************************)
TypeOK ==
  /\ at \in [Procs -> {"off", "forkLog", "closeL0", "forkBiz", "closeB0", "setUp", "run",
                       "closeL1", "start", "wait", "close",
                       "closeB1", "startUp", "recv", "trace", "gone"}]
  /\ why \in [Procs -> {"none", "init", "startup", "sigpipe", "eof", "kill"}]
  /\ holds \in [Ends -> SUBSET Procs]
  /\ queue \in Nat /\ sent \in Nat /\ unread \in Nat
  /\ got \in {"none", "client", "zero"}
  /\ conn \in {"none", "half", "open"}
  /\ reader \in {"off", "reads", "deaf"}
  /\ repairs \subseteq AllRepairs

(***************************************************************************)
(* The log server does not end before those who trace, unless it is killed *)
(* or recvmsg fails.  What keeps it is the end of its pipe that the        *)
(* business process has inherited and never closes (Process.h:36-41,       *)
(* main.cpp:15-19).                                                        *)
(***************************************************************************)
LogOutlives ==
  why["log"] = "eof" /\ HeaderOK =>
    Gone("main") /\ at["biz"] \in {"off", "gone"}

(***************************************************************************)
(* The service does not bring itself down: the first of the processes to   *)
(* end was killed, failed in its start-up or was misled by recvmsg.  In    *)
(* particular Close is no way to stop a child that would go on             *)
(* (CServer.cpp:53).                                                       *)
(***************************************************************************)
EndsHaveACause ==
  (\E p \in Procs : Gone(p)) =>
    \/ \E p \in Procs : why[p] \in {"kill", "init", "startup"}
    \/ ~HeaderOK

(***************************************************************************)
(* When the main process has ended so do its children (main.cpp:15,        *)
(* EPlayerServer.h:131-134), except that a log server whose thread does    *)
(* not read keeps the business process waiting in write, and waits itself  *)
(* for the end of the pipe that process holds: two orphans for ever.       *)
(***************************************************************************)
AllEnded == \A p \in Procs : at[p] \in {"off", "gone"}
Orphans  == /\ at["log"] = "wait" /\ reader = "deaf"
            /\ at["biz"] = "trace" /\ conn = "open" /\ unread = SockBuf

ChildrenEnd == Gone("main") ~> (AllEnded \/ Orphans)

(***************************************************************************)
(* As written, with the guard of Epoll.h:64 or the socket of Socket.h:143, *)
(* the service ends by itself, all three processes of it.                  *)
(***************************************************************************)
AsWrittenEnds ==
  ({"epoll_create", "ip_socket"} \ repairs # {}) ~> AllEnded
=============================================================================

------------------------------- MODULE Logger -------------------------------
(***************************************************************************)
(* The log server (Logger.h): the process that CreateLogServer runs, its   *)
(* log thread, and the threads of the other processes that call Trace.     *)
(*                                                                         *)
(* A thread that calls Trace owns a client socket (static thread_local)    *)
(* and writes lines to it; the log thread accepts the clients, reads what  *)
(* they wrote and appends it to the log file.  The owner, which starts the *)
(* server, waits until nobody holds the other end of its pipe, and then    *)
(* closes the server while the log thread runs.                            *)
(*                                                                         *)
(* fault names what ended the log process before its time; a tracer whose  *)
(* connection was dropped dies of SIGPIPE at its next line, with its       *)
(* process, and is then in broken.                                         *)
(*                                                                         *)
(* A definition marked "mutant" is a plausible mistake in the definition   *)
(* that follows it; no specification uses one.                             *)
(***************************************************************************)
EXTENDS Epoll, SequencesExt

CONSTANTS Tracers,   \* the threads that call Trace
          Server,    \* what the listening socket's epoll events point to
          Backlog,   \* the argument of listen, 32 in the code
          SockBuf,   \* bound: the lines a connection holds unread
          MaxLines,  \* bound: the calls of Trace, per tracer
          MayFail,   \* may socket, bind, epoll, file and thread calls fail?
          MayExit,   \* may a thread that called Trace end?
          MayClose,  \* may the owner's pipe reach its end?
          LogFixes   \* the repairs of Logger.h and Thread.h assumed

ASSUME TracersAssumption  == IsFiniteSet(Tracers) /\ Server \notin Tracers
ASSUME LimitsAssumption   == {Backlog, SockBuf, MaxLines} \subseteq Nat
ASSUME ChoicesAssumption  == {MayFail, MayExit, MayClose} \subseteq BOOLEAN
ASSUME LogFixesAssumption == LogFixes \subseteq {"thread_valid", "map_find"}

VARIABLES
  owner,     \* where the owner is in CreateLogServer
  startRet,  \* what Start returned; 1 before it returns
  m_server,  \* "null" or "bound" and listening
  m_epoll,   \* -1 or the descriptor
  watched,   \* what epoll watches: Server, and the tracers accepted
  m_thread,  \* 0 or the thread's number, 1
  client,    \* [Tracers -> ...], the thread_local client of each tracer
  said,      \* [Tracers -> Nat], how often each tracer called Trace
  accepted,  \* [Tracers -> Nat], how many of these calls wrote their line
  broken,    \* the tracers killed by SIGPIPE
  conn,      \* [Tracers -> ...], the server's end of the connection
  stream,    \* [Tracers -> Seq(Nat)], the lines written and not yet read
  pc,        \* where the log thread is in ThreadEntry and ThreadFunc
  events,    \* the events of its last wait, still to scan
  hand,      \* the lines it has read and not yet written, <<tracer, line>>
  known,     \* how many descriptors have a key in mapClients
  file,      \* the log file, a sequence of <<tracer, line>>
  fault      \* "none", or what ended the log process

ownerVars  == <<owner, startRet, m_server, m_thread>>
epollVars  == <<m_epoll, watched>>
tracerVars == <<client, said, accepted, broken>>
linkVars   == <<conn, stream>>
threadVars == <<pc, events, hand, known, file>>
vars == <<ownerVars, epollVars, tracerVars, linkVars, threadVars, fault>>

Pending == {t \in Tracers : conn[t] = "pending"}
Live    == {t \in Tracers : conn[t] = "live"}

Init ==
  /\ owner = "file" /\ startRet = 1 /\ m_server = "null" /\ m_thread = 0
  /\ m_epoll = -1 /\ watched = {}
  /\ client = [t \in Tracers |-> "fresh"]
  /\ said = [t \in Tracers |-> 0] /\ accepted = said /\ broken = {}
  /\ conn = [t \in Tracers |-> "none"]
  /\ stream = [t \in Tracers |-> <<>>]
  /\ pc = "off" /\ events = {} /\ hand = <<>> /\ known = 0 /\ file = <<>>
  /\ fault = "none"

(* The end of the process closes its sockets. *)
AllFreed == [t \in Tracers |-> IF conn[t] = "none" THEN "none" ELSE "freed"]

Dies(what) ==
  /\ fault' = what /\ conn' = AllFreed
  /\ UNCHANGED <<ownerVars, epollVars, tracerVars, stream, threadVars>>

-----------------------------------------------------------------------------
(***************************************************************************)
(* Start, called once by CreateLogServer, which waits for the end of its   *)
(* pipe ("serve") whatever Start returned.                                 *)
(***************************************************************************)
StartReturns(r) == owner' = "serve" /\ startRet' = r

(* Deleting the server resets the connections nobody accepted. *)
Reset == [t \in Tracers |-> IF conn[t] = "pending" THEN "freed" ELSE conn[t]]

StartFile ==
  /\ owner = "file"
  /\ \/ owner' = "epoll" /\ UNCHANGED startRet
     \/ MayFail /\ StartReturns(-2)
  /\ UNCHANGED <<m_server, m_thread, epollVars, tracerVars, linkVars, threadVars, fault>>

StartEpoll ==
  /\ owner = "epoll"
  /\ \E r \in CreateResults(m_epoll, MayFail) :
       /\ m_epoll' = r[2]
       /\ IF r[1] = 0 THEN owner' = "server" /\ UNCHANGED startRet
                      ELSE StartReturns(-3)
  /\ UNCHANGED <<m_server, m_thread, watched, tracerVars, linkVars, threadVars, fault>>

(* A failure calls Close, with no thread running. *)
StartServer ==
  /\ owner = "server"
  /\ \/ m_server' = "bound" /\ owner' = "add" /\ UNCHANGED <<startRet, m_epoll>>
     \/ MayFail /\ StartReturns(-5) /\ m_epoll' = -1 /\ UNCHANGED m_server
  /\ UNCHANGED <<m_thread, watched, tracerVars, linkVars, threadVars, fault>>

(* The result of Add is not looked at. *)
StartWatch ==
  /\ owner = "add"
  /\ owner' = "thread"
  /\ \E r \in AddResults(m_epoll, MayFail) :
       watched' = WatchedAfterAdd(watched, Server, r)
  /\ UNCHANGED <<startRet, m_server, m_thread, m_epoll, tracerVars, linkVars, threadVars, fault>>

(* mutant: the thread's own result is returned *)
StartThreadRaw ==
  /\ owner = "thread"
  /\ \/ m_thread' = 1 /\ pc' = "entry" /\ StartReturns(0)
     \/ MayFail /\ StartReturns(-4) /\ UNCHANGED <<m_thread, pc>>
  /\ UNCHANGED <<m_server, epollVars, tracerVars, linkVars, events, hand, known, file, fault>>

StartThread ==
  /\ owner = "thread"
  /\ \/ /\ m_thread' = 1 /\ pc' = "entry" /\ StartReturns(0)
        /\ UNCHANGED <<m_server, epollVars, conn>>
     \/ /\ MayFail /\ StartReturns(-6)
        /\ m_server' = "null" /\ conn' = Reset
        /\ m_epoll' = -1 /\ watched' = {}
        /\ UNCHANGED <<m_thread, pc>>
  /\ UNCHANGED <<tracerVars, stream, events, hand, known, file, fault>>

-----------------------------------------------------------------------------
(* Close, when the pipe has ended, and the exit of the process. *)

CloseServer ==
  /\ owner = "serve" /\ MayClose
  /\ owner' = "closeEpoll" /\ m_server' = "null" /\ conn' = Reset
  /\ UNCHANGED <<startRet, m_thread, epollVars, tracerVars, stream, threadVars, fault>>

CloseEpoll ==
  /\ owner = "closeEpoll"
  /\ owner' = "stop" /\ m_epoll' = -1 /\ watched' = {}
  /\ UNCHANGED <<startRet, m_server, m_thread, tracerVars, linkVars, threadVars, fault>>

(***************************************************************************)
(* Stop gives the thread until 0.1 s after 1970, which is no time at all,  *)
(* and then sends SIGUSR2, whose handler ends the thread wherever it is.   *)
(* A thread that has not installed the handler yet takes the process with  *)
(* it.                                                                     *)
(***************************************************************************)
StopThread ==
  /\ owner = "stop"
  /\ \/ m_thread # 0 /\ pc = "entry" /\ Dies("sigusr2")
     \/ /\ m_thread # 0 => pc # "entry"
        /\ owner' = "exit" /\ m_thread' = 0
        /\ IF m_thread = 0 THEN UNCHANGED <<pc, hand>> ELSE pc' = "exited" /\ hand' = <<>>
        /\ UNCHANGED <<startRet, m_server, epollVars, tracerVars, linkVars,
                       events, known, file, fault>>

ProcessExit ==
  /\ owner = "exit"
  /\ owner' = "gone" /\ pc' = "exited" /\ hand' = <<>>
  /\ conn' = AllFreed
  /\ UNCHANGED <<startRet, m_server, m_thread, epollVars, tracerVars, stream,
                 events, known, file, fault>>

-----------------------------------------------------------------------------
(***************************************************************************)
(* Trace.  It returns nothing: a line whose socket could not be opened or  *)
(* connected is lost without a word.  A client that failed to connect      *)
(* keeps its descriptor, so that it never tries again.                     *)
(***************************************************************************)
Listening == m_server = "bound" /\ fault = "none"

Says(t) == said' = [said EXCEPT ![t] = @ + 1]

NoSocket(t) ==
  /\ client[t] = "fresh" /\ said[t] < MaxLines /\ MayFail
  /\ Says(t)
  /\ UNCHANGED <<ownerVars, epollVars, client, accepted, broken, linkVars, threadVars, fault>>

Connect(t) ==
  /\ client[t] = "fresh" /\ said[t] < MaxLines
  /\ \/ /\ Listening /\ Cardinality(Pending) <= Backlog
        /\ client' = [client EXCEPT ![t] = "linked"]
        /\ conn' = [conn EXCEPT ![t] = "pending"]
     \/ /\ ~Listening
        /\ client' = [client EXCEPT ![t] = "half"]
        /\ UNCHANGED conn
  /\ UNCHANGED <<ownerVars, epollVars, said, accepted, broken, stream, threadVars, fault>>

SendRefused(t) ==
  /\ client[t] = "half" /\ said[t] < MaxLines
  /\ Says(t)
  /\ UNCHANGED <<ownerVars, epollVars, client, accepted, broken, linkVars, threadVars, fault>>

(* write blocks while the connection is full. *)
SendLine(t) ==
  /\ client[t] = "linked" /\ said[t] < MaxLines /\ t \notin broken
  /\ conn[t] \in {"pending", "live"} /\ Len(stream[t]) < SockBuf
  /\ Says(t)
  /\ accepted' = [accepted EXCEPT ![t] = @ + 1]
  /\ stream' = [stream EXCEPT ![t] = Append(@, said[t] + 1)]
  /\ UNCHANGED <<ownerVars, epollVars, client, broken, conn, threadVars, fault>>

SendBreaks(t) ==
  /\ client[t] = "linked" /\ said[t] < MaxLines /\ t \notin broken
  /\ conn[t] = "freed"
  /\ broken' = broken \cup {t}
  /\ UNCHANGED <<ownerVars, epollVars, client, said, accepted, linkVars, threadVars, fault>>

TracerExit(t) ==
  /\ MayExit /\ client[t] \in {"half", "linked"} /\ t \notin broken
  /\ client' = [client EXCEPT ![t] = "gone"]
  /\ UNCHANGED <<ownerVars, epollVars, said, accepted, broken, linkVars, threadVars, fault>>

-----------------------------------------------------------------------------
(* The log thread: ThreadEntry, ThreadFunc and back. *)

Hangup(t)   == client[t] = "gone"
Readable(t) == stream[t] # <<>> \/ Hangup(t)
Ready ==
  {t \in watched \cap Tracers : Readable(t)}
    \cup {s \in watched \cap {Server} : Pending # {}}

EnterThread ==
  /\ pc = "entry"
  /\ pc' = "loop"
  /\ UNCHANGED <<ownerVars, epollVars, tracerVars, linkVars, events, hand, known, file, fault>>

(* As written, a thread is valid when it has no number. *)
IsValid == IF "thread_valid" \in LogFixes THEN m_thread # 0 ELSE m_thread = 0

WaitEvents ==
  /\ pc = "loop" /\ IsValid /\ m_server # "null" /\ m_epoll # -1 /\ Ready # {}
  /\ \E E \in WaitResults(Ready) :
       \/ CopyOverruns(E) /\ Dies("overrun")
       \/ /\ ~CopyOverruns(E)
          /\ pc' = "scan" /\ events' = E
          /\ UNCHANGED <<ownerVars, epollVars, tracerVars, linkVars, hand, known, file, fault>>

(* The loop ends; the clients in mapClients are deleted. *)
LoopEnds ==
  /\ pc = "loop" /\ (~IsValid \/ m_server = "null" \/ m_epoll = -1)
  /\ pc' = "leave"
  /\ conn' = [t \in Tracers |-> IF conn[t] = "live" THEN "freed" ELSE conn[t]]
  /\ watched' = watched \ Live
  /\ UNCHANGED <<ownerVars, m_epoll, tracerVars, stream, events, hand, known, file, fault>>

(* Back in CThread::ThreadEntry. *)
Leave ==
  /\ pc = "leave"
  /\ pc' = "exited" /\ m_thread' = 0
  /\ UNCHANGED <<owner, startRet, m_server, epollVars, tracerVars, linkVars,
                 events, hand, known, file, fault>>

ScanEnds ==
  /\ pc = "scan" /\ events = {}
  /\ pc' = "loop"
  /\ UNCHANGED <<ownerVars, epollVars, tracerVars, linkVars, events, hand, known, file, fault>>

(* An event of the server after m_server was cleared is taken for one of a *)
(* client, and read from.                                                  *)
ScanServer ==
  /\ pc = "scan" /\ Server \in events
  /\ \/ m_server = "null" /\ Dies("server")
     \/ /\ m_server # "null"
        /\ pc' = "link" /\ events' = events \ {Server}
        /\ UNCHANGED <<ownerVars, epollVars, tracerVars, linkVars, hand, known, file, fault>>

(***************************************************************************)
(* Link, Add, and the entry in mapClients.  find has no key for a          *)
(* descriptor used for the first time; what it then reads is whatever      *)
(* follows the map in memory, and a pointer there that is not null is      *)
(* deleted.                                                                *)
(***************************************************************************)
FindsGarbage == Cardinality(Live) = known /\ "map_find" \notin LogFixes

(* mutant: the new client is not watched *)
AcceptUnwatched(t) ==
  /\ pc = "link" /\ conn[t] = "pending" /\ m_server # "null"
  /\ pc' = "scan"
  /\ conn' = [conn EXCEPT ![t] = "live"]
  /\ UNCHANGED <<ownerVars, epollVars, tracerVars, stream, events, hand, known, file, fault>>

(* mutant: accept is called again until it would fail *)
AcceptAgain(t) ==
  /\ pc = "link" /\ conn[t] = "pending" /\ m_server # "null"
  /\ conn' = [conn EXCEPT ![t] = "live"]
  /\ watched' = watched \cup {t}
  /\ UNCHANGED <<ownerVars, m_epoll, tracerVars, stream, threadVars, fault>>

Accept(t) ==
  /\ pc = "link" /\ conn[t] = "pending" /\ m_server # "null"
  /\ \E r \in AddResults(m_epoll, MayFail) :
       \/ r = 0 /\ FindsGarbage /\ Dies("map")
       \/ /\ pc' = "scan"
          /\ watched' = WatchedAfterAdd(watched, t, r)
          /\ IF r = 0
             THEN /\ conn' = [conn EXCEPT ![t] = "live"]
                  /\ known' = IF Cardinality(Live) = known THEN known + 1 ELSE known
             ELSE conn' = [conn EXCEPT ![t] = "freed"] /\ UNCHANGED known
          /\ UNCHANGED <<ownerVars, m_epoll, tracerVars, stream, events, hand, file, fault>>

LinkOnNull ==
  /\ pc = "link" /\ m_server = "null"
  /\ Dies("server")

(* One read takes all the connection holds: the buffer is larger. *)
LinesReadPeeked(t) == stream[t]     \* mutant: the lines stay in the socket
LinesLeft(t)       == <<>>

RecvLines(t) ==
  /\ pc = "scan" /\ t \in events /\ stream[t] # <<>>
  /\ pc' = "write"
  /\ events' = events \ {t}
  /\ hand' = [i \in 1..Len(stream[t]) |-> <<t, stream[t][i]>>]
  /\ stream' = [stream EXCEPT ![t] = LinesLeft(t)]
  /\ UNCHANGED <<ownerVars, epollVars, tracerVars, conn, known, file, fault>>

RecvHangup(t) ==
  /\ pc = "scan" /\ t \in events /\ stream[t] = <<>> /\ Hangup(t)
  /\ events' = events \ {t}
  /\ conn' = [conn EXCEPT ![t] = "freed"]
  /\ watched' = watched \ {t}
  /\ UNCHANGED <<ownerVars, m_epoll, tracerVars, stream, pc, hand, known, file, fault>>

WriteLog ==
  /\ pc = "write"
  /\ pc' = "scan"
  /\ file' = file \o hand /\ hand' = <<>>
  /\ UNCHANGED <<ownerVars, epollVars, tracerVars, linkVars, events, known, fault>>

-----------------------------------------------------------------------------
OwnerStep ==
  \/ StartFile \/ StartEpoll \/ StartServer \/ StartWatch \/ StartThread
  \/ CloseServer \/ CloseEpoll \/ StopThread \/ ProcessExit

TracerStep(t) ==
  \/ NoSocket(t) \/ Connect(t) \/ SendRefused(t) \/ SendLine(t) \/ SendBreaks(t)
  \/ TracerExit(t)

ThreadStep ==
  \/ EnterThread \/ WaitEvents \/ LoopEnds \/ Leave \/ ScanEnds \/ ScanServer
  \/ LinkOnNull \/ WriteLog
  \/ \E t \in Tracers : Accept(t) \/ RecvLines(t) \/ RecvHangup(t)

Next ==
  \/ fault = "none" /\ (OwnerStep \/ ThreadStep)
  \/ \E t \in Tracers : TracerStep(t)

Spec == Init /\ [][Next]_vars

(* The kernel runs the owner and the log thread; a tracer speaks when its  *)
(* program says so, and the owner's pipe may stay open for ever.           *)
FairSpec ==
  /\ Spec
  /\ WF_vars(fault = "none" /\ owner # "serve" /\ OwnerStep)
  /\ WF_vars(fault = "none" /\ ThreadStep)

-----------------------------------------------------------------------------
(***************************************************************************)
(* Type correctness.                                                       *)
(***************************************************************************)
TypeOK ==
  /\ owner \in {"file", "epoll", "server", "add", "thread", "serve",
                "closeEpoll", "stop", "exit", "gone"}
  /\ startRet \in {1, 0, -2, -3, -5, -6}
  /\ m_server \in {"null", "bound"}
  /\ m_epoll \in {-1, Handle}
  /\ watched \subseteq Tracers \cup {Server}
  /\ m_thread \in {0, 1}
  /\ client \in [Tracers -> {"fresh", "half", "linked", "gone"}]
  /\ said \in [Tracers -> Nat]
  /\ accepted \in [Tracers -> Nat]
  /\ broken \subseteq Tracers
  /\ conn \in [Tracers -> {"none", "pending", "live", "freed"}]
  /\ stream \in [Tracers -> Seq(Nat)]
  /\ pc \in {"off", "entry", "loop", "scan", "link", "write", "leave", "exited"}
  /\ events \subseteq Tracers \cup {Server}
  /\ hand \in Seq(Tracers \X Nat)
  /\ known \in Nat
  /\ file \in Seq(Tracers \X Nat)
  /\ fault \in {"none", "overrun", "server", "map", "sigusr2"}

(***************************************************************************)
(* The log file keeps each thread's lines in the order it traced them,     *)
(* none of them twice (Logger.h:167-179, 196-200); and until the log       *)
(* process is told to end, a line that was written to the socket is in     *)
(* the file, in the log thread's hand or still in the connection.  The     *)
(* calls of Trace that write nothing come before a thread's first line.    *)
(***************************************************************************)
Read    == file \o hand
Sent(t) == (said[t] - accepted[t] + 1)..said[t]

LinesAccounted ==
  \A t \in Tracers :
    /\ \A i, j \in DOMAIN Read :
         i < j /\ Read[i][1] = t /\ Read[j][1] = t => Read[i][2] < Read[j][2]
    /\ \A i, j \in DOMAIN stream[t] : i < j => stream[t][i] < stream[t][j]
    /\ \A i \in DOMAIN Read, j \in DOMAIN stream[t] :
         Read[i][1] = t => Read[i][2] < stream[t][j]
    /\ \A i \in DOMAIN Read : Read[i][1] = t => Read[i][2] \in Sent(t)
    /\ \A j \in DOMAIN stream[t] : stream[t][j] \in Sent(t)
    /\ owner \notin {"exit", "gone"} =>
         \A n \in Sent(t) : \/ \E i \in DOMAIN Read : Read[i] = <<t, n>>
                            \/ \E j \in DOMAIN stream[t] : stream[t][j] = n

(***************************************************************************)
(* Only its own Close ends the log process early, the log thread touches   *)
(* no deleted client, and accept is only called with somebody to accept.   *)
(* What find returns for a descriptor without a key ends the process only  *)
(* at a client for which no key is left: a descriptor that is used again   *)
(* finds its own (162-166).                                                *)
(* A thread that traces is killed only when the log server closed, ended   *)
(* early or failed to start, or when it could not watch the connection and *)
(* so never read a line from it (Logger.h:88-93, 156-160): no connection   *)
(* the server has read from is closed under its tracer.                    *)
(***************************************************************************)
Closing == owner \in {"closeEpoll", "stop", "exit", "gone"}

LogFaultCause ==
  /\ fault \in {"server", "sigusr2"} => Closing
  /\ fault = "map" => known < Cardinality({t \in Tracers : conn[t] # "none"})
  /\ pc = "link" /\ fault = "none" /\ ~Closing => Pending # {}
  /\ fault = "none" /\ pc # "exited" => \A t \in events \cap Tracers : conn[t] = "live"
  /\ \A t \in broken :
       Closing \/ fault # "none" \/ startRet = -6 \/ Len(stream[t]) = accepted[t]

(***************************************************************************)
(* The log server implements the log its tracers rely on (Logger.h:68-121, *)
(* 137-200): the lines in the log thread's hand are the head of their      *)
(* tracer's queue, the lines in its connection are the rest.               *)
(***************************************************************************)
HandOf(t) ==
  IF hand # <<>> /\ hand[1][1] = t THEN [i \in 1..Len(hand) |-> hand[i][2]] ELSE <<>>

Queues == [t \in Tracers |-> HandOf(t) \o stream[t]]
Open   == owner \notin {"exit", "gone"} /\ fault = "none"

LL == INSTANCE LineLog
        WITH traced <- said, written <- accepted, queue <- Queues, log <- file, open <- Open

ImplementsLineLog == LL!Spec

(***************************************************************************)
(* While the log server runs, what was written to it gets into the file,   *)
(* and a full connection is emptied, so that its tracer goes on, whatever  *)
(* the other tracers do: one log thread serves them all.  Refused is a     *)
(* connection that could not be watched.                                   *)
(***************************************************************************)
Serving    == owner = "serve" /\ startRet = 0 /\ fault = "none" /\ Server \in watched
Refused(t) == conn[t] = "freed"
Ended(t)   == Closing \/ fault # "none" \/ Refused(t)

SentGetsWritten ==
  \A t \in Tracers :
    /\ \A n \in 1..MaxLines :
         (Serving /\ n \in Range(stream[t])) ~> (<<t, n>> \in Range(file) \/ Ended(t))
    /\ (Serving /\ Len(stream[t]) = SockBuf) ~> (stream[t] = <<>> \/ Ended(t))
=============================================================================

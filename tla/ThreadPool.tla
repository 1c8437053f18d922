----------------------------- MODULE ThreadPool -----------------------------
(***************************************************************************)
(* CThreadPool (ThreadPool.h): the pool that the log server, the main      *)
(* server and the business server run their work on.                       *)
(*                                                                         *)
(* A thread that calls AddTask owns a client socket (static thread_local)  *)
(* and writes the pointer of a heap-allocated task to it.  The workers     *)
(* share one listening socket, one level-triggered epoll instance and the  *)
(* accepted sockets; every socket is blocking and nothing is locked.  The  *)
(* events of one epoll_wait stay in the worker's own vector while other    *)
(* workers accept, read and delete the sockets these events point to.      *)
(*                                                                         *)
(* Using freed memory, a null pointer or a broken pipe ends the process:   *)
(* fault names the first such use, and nothing happens after it.           *)
(*                                                                         *)
(* A definition marked "mutant" is a plausible mistake in the definition   *)
(* that follows it; no specification uses one.                             *)
(***************************************************************************)
EXTENDS Epoll, Sequences

CONSTANTS Callers,     \* the client sockets: one per thread and task type
          Server,      \* what the listening socket's epoll events point to
          Workers,     \* the threads of the pool: Start(Cardinality(Workers))
          Backlog,     \* the argument of listen, 32 in the code
          MaxTasks,    \* bound: the calls of AddTask that queue, per caller
          MayFail,     \* may socket, bind, epoll and thread creation fail?
          MayExit,     \* may a thread that called AddTask end?
          MayClose,    \* does the owner close the pool?
          TasksReturn  \* do the tasks return?  The servers' own never do.

ASSUME CallersAssumption == IsFiniteSet(Callers) /\ Server \notin Callers
ASSUME WorkersAssumption == IsFiniteSet(Workers)
ASSUME BoundsAssumption  == Backlog \in Nat /\ MaxTasks \in Nat
ASSUME SwitchAssumption  ==
  {MayFail, MayExit, MayClose, TasksReturn} \subseteq BOOLEAN

VARIABLES
  owner,     \* where the thread that owns the pool is in Start or Close
  startRet,  \* what Start returned last; 1 before it returns
  m_server,  \* "null", "unbound" (Init failed) or "bound" and listening
  m_epoll,   \* -1 or the descriptor
  watched,   \* what epoll watches: Server, and the callers accepted
  m_threads, \* [Workers -> "none" | "live" | "freed"], the CThread objects
  client,    \* [Callers -> ...], the thread_local client of each caller
  addRet,    \* [Callers -> ...], what AddTask returned last; 1 before
  conn,      \* [Callers -> ...], the pool's end of the caller's connection
  stream,    \* [Callers -> Seq(Nat)], the tasks sent and not yet read
  count,     \* [Callers -> Nat], how many tasks were sent
  pc,        \* [Workers -> ...], where each worker is in TaskDispatch
  events,    \* [Workers -> ...], the events of its last wait, still to scan
  cur,       \* [Workers -> ...], the pointer of the event in hand
  task,      \* [Workers -> Nat], the number of the task it runs, or 0
  done,      \* the tasks whose call returned
  fault      \* "none", or what ended the process

poolVars   == <<owner, startRet, m_server, m_threads>>
epollVars  == <<m_epoll, watched>>
callerVars == <<client, addRet, count>>
linkVars   == <<conn, stream>>
workerVars == <<pc, events, cur, task, done>>
vars == <<poolVars, epollVars, callerVars, linkVars, workerVars, fault>>

Pointers == Callers \cup {Server}
Pending  == {c \in Callers : conn[c] = "pending"}

Init ==
  /\ owner = "idle" /\ startRet = 1
  /\ m_server = "null" /\ m_epoll = -1 /\ watched = {}
  /\ m_threads = [w \in Workers |-> "none"]
  /\ client = [c \in Callers |-> "fresh"]
  /\ addRet = [c \in Callers |-> 1]
  /\ conn = [c \in Callers |-> "none"]
  /\ stream = [c \in Callers |-> <<>>]
  /\ count = [c \in Callers |-> 0]
  /\ pc = [w \in Workers |-> "off"]
  /\ events = [w \in Workers |-> {}]
  /\ cur = [w \in Workers |-> Server]
  /\ task = [w \in Workers |-> 0]
  /\ done = {}
  /\ fault = "none"

-----------------------------------------------------------------------------
(* Start, one action per call that another thread can observe. *)

StartRefused ==
  /\ owner = "idle" /\ m_server # "null" /\ startRet # -1
  /\ startRet' = -1
  /\ UNCHANGED <<owner, m_server, m_threads, epollVars, callerVars, linkVars,
                 workerVars, fault>>

StartServer ==
  /\ owner = "idle" /\ m_server = "null"
  /\ \/ m_server' = "bound" /\ owner' = "create" /\ UNCHANGED startRet
     \/ MayFail /\ m_server' = "unbound" /\ startRet' = -4 /\ UNCHANGED owner
  /\ UNCHANGED <<m_threads, epollVars, callerVars, linkVars, workerVars, fault>>

(* mutant: the result of Create is not looked at *)
StartEpollUnchecked ==
  /\ owner = "create"
  /\ \E r \in CreateResults(m_epoll, MayFail) : m_epoll' = r[2]
  /\ owner' = "add"
  /\ UNCHANGED <<startRet, m_server, m_threads, watched, callerVars, linkVars,
                 workerVars, fault>>

(* mutant: Create's own result is returned *)
StartEpollRaw ==
  /\ owner = "create"
  /\ \E r \in CreateResults(m_epoll, MayFail) :
       /\ m_epoll' = r[2]
       /\ IF r[1] = 0 THEN owner' = "add" /\ UNCHANGED startRet
                      ELSE owner' = "idle" /\ startRet' = r[1]
  /\ UNCHANGED <<m_server, m_threads, watched, callerVars, linkVars,
                 workerVars, fault>>

StartEpoll ==
  /\ owner = "create"
  /\ \E r \in CreateResults(m_epoll, MayFail) :
       /\ m_epoll' = r[2]
       /\ IF r[1] = 0 THEN owner' = "add" /\ UNCHANGED startRet
                      ELSE owner' = "idle" /\ startRet' = -5
  /\ UNCHANGED <<m_server, m_threads, watched, callerVars, linkVars,
                 workerVars, fault>>

StartWatch ==
  /\ owner = "add"
  /\ \E r \in AddResults(m_epoll, MayFail) :
       /\ watched' = WatchedAfterAdd(watched, Server, r)
       /\ IF r = 0 THEN owner' = "spawn" /\ UNCHANGED startRet
                   ELSE owner' = "idle" /\ startRet' = -6
  /\ UNCHANGED <<m_server, m_threads, m_epoll, callerVars, linkVars,
                 workerVars, fault>>

(* mutant: a Start that fails deletes the server, whoever runs already *)
StartThreadTidies(w) ==
  /\ owner = "spawn" /\ m_threads[w] = "none"
  /\ m_threads' = [m_threads EXCEPT ![w] = "live"]
  /\ \/ pc' = [pc EXCEPT ![w] = "loop"] /\ UNCHANGED <<owner, startRet, m_server>>
     \/ /\ MayFail /\ owner' = "idle" /\ startRet' = -8 /\ UNCHANGED pc
        /\ m_server' = "null"
  /\ UNCHANGED <<epollVars, callerVars, linkVars, events, cur, task, done, fault>>

StartThread(w) ==
  /\ owner = "spawn" /\ m_threads[w] = "none"
  /\ m_threads' = [m_threads EXCEPT ![w] = "live"]
  /\ \/ pc' = [pc EXCEPT ![w] = "loop"] /\ UNCHANGED <<owner, startRet>>
     \/ MayFail /\ owner' = "idle" /\ startRet' = -8 /\ UNCHANGED pc
  /\ UNCHANGED <<m_server, epollVars, callerVars, linkVars,
                 events, cur, task, done, fault>>

StartReturns ==
  /\ owner = "spawn" /\ \A w \in Workers : m_threads[w] # "none"
  /\ owner' = "idle" /\ startRet' = 0
  /\ UNCHANGED <<m_server, m_threads, epollVars, callerVars, linkVars,
                 workerVars, fault>>

-----------------------------------------------------------------------------
(***************************************************************************)
(* Close.  No thread is stopped or joined.  Closing the epoll instance     *)
(* ends every watch; deleting the server resets the connections nobody     *)
(* accepted, unless a worker is still inside accept, whose system call     *)
(* keeps the listening socket.                                             *)
(***************************************************************************)
CloseEpoll ==
  /\ owner = "idle" /\ MayClose
  /\ owner' = "closeServer"
  /\ m_epoll' = -1 /\ watched' = {}
  /\ UNCHANGED <<startRet, m_server, m_threads, callerVars, linkVars,
                 workerVars, fault>>

CloseServer ==
  /\ owner = "closeServer"
  /\ owner' = "closeThreads" /\ m_server' = "null"
  /\ conn' = IF \E w \in Workers : pc[w] = "accept" THEN conn
             ELSE [c \in Callers |-> IF conn[c] = "pending" THEN "freed" ELSE conn[c]]
  /\ UNCHANGED <<startRet, m_threads, epollVars, callerVars, stream,
                 workerVars, fault>>

CloseThreads ==
  /\ owner = "closeThreads"
  /\ owner' = "closed"
  /\ m_threads' = [w \in Workers |-> IF m_threads[w] = "live" THEN "freed" ELSE m_threads[w]]
  /\ UNCHANGED <<startRet, m_server, epollVars, callerVars, linkVars,
                 workerVars, fault>>

-----------------------------------------------------------------------------
(***************************************************************************)
(* AddTask.  The client of a first call connects; only an Init that fails  *)
(* leaves it as it was.  When Link fails the descriptor stays, so that no  *)
(* later call connects again, and Send refuses the client's status.        *)
(***************************************************************************)
Connect(c) ==
  /\ client[c] = "fresh" /\ count[c] < MaxTasks
  /\ \/ /\ m_server = "bound" /\ Cardinality(Pending) <= Backlog
        /\ client' = [client EXCEPT ![c] = "linked"]
        /\ conn' = [conn EXCEPT ![c] = "pending"]
        /\ UNCHANGED addRet
     \/ /\ m_server # "bound"
        /\ client' = [client EXCEPT ![c] = "half"]
        /\ addRet' = [addRet EXCEPT ![c] = -2]
        /\ UNCHANGED conn
     \/ /\ MayFail /\ addRet[c] # -1
        /\ addRet' = [addRet EXCEPT ![c] = -1]
        /\ UNCHANGED <<client, conn>>
  /\ UNCHANGED <<poolVars, epollVars, count, stream, workerVars, fault>>

SendTask(c) ==
  /\ client[c] = "linked" /\ count[c] < MaxTasks
  /\ conn[c] \in {"pending", "live"}
  /\ stream' = [stream EXCEPT ![c] = Append(@, count[c] + 1)]
  /\ count' = [count EXCEPT ![c] = @ + 1]
  /\ addRet' = [addRet EXCEPT ![c] = 0]
  /\ UNCHANGED <<poolVars, epollVars, client, conn, workerVars, fault>>

SendRefused(c) ==
  /\ client[c] = "half" /\ addRet[c] # -4
  /\ addRet' = [addRet EXCEPT ![c] = -4]
  /\ UNCHANGED <<poolVars, epollVars, client, count, linkVars, workerVars, fault>>

(* write to a connection whose other end is gone raises SIGPIPE. *)
SendBreaks(c) ==
  /\ client[c] = "linked" /\ conn[c] = "freed"
  /\ fault' = "sigpipe"
  /\ UNCHANGED <<poolVars, epollVars, callerVars, linkVars, workerVars>>

(* The thread ends: its thread_local client is destroyed and closed. *)
CallerExit(c) ==
  /\ MayExit /\ client[c] \in {"half", "linked"}
  /\ client' = [client EXCEPT ![c] = "gone"]
  /\ UNCHANGED <<poolVars, epollVars, addRet, count, linkVars, workerVars, fault>>

-----------------------------------------------------------------------------
(* TaskDispatch, the loop of worker w. *)

Hangup(c)   == client[c] = "gone"
Readable(c) == stream[c] # <<>> \/ Hangup(c)
Ready ==
  {c \in watched \cap Callers : Readable(c)}
    \cup {s \in watched \cap {Server} : Pending # {}}

Dies(what) == /\ fault' = what
              /\ UNCHANGED <<poolVars, epollVars, callerVars, linkVars, workerVars>>

Move(w, to) == pc' = [pc EXCEPT ![w] = to]

WaitEvents(w) ==
  /\ pc[w] = "loop" /\ m_epoll # -1 /\ Ready # {}
  /\ \E E \in WaitResults(Ready) :
       \/ CopyOverruns(E) /\ Dies("overrun")
       \/ /\ ~CopyOverruns(E)
          /\ Move(w, "scan")
          /\ events' = [events EXCEPT ![w] = E]
          /\ UNCHANGED <<poolVars, epollVars, callerVars, linkVars,
                         cur, task, done, fault>>

LoopEnds(w) ==
  /\ pc[w] = "loop" /\ m_epoll = -1
  /\ Move(w, "leave")
  /\ UNCHANGED <<poolVars, epollVars, callerVars, linkVars,
                 events, cur, task, done, fault>>

ScanEnds(w) ==
  /\ pc[w] = "scan" /\ events[w] = {}
  /\ Move(w, "loop")
  /\ UNCHANGED <<poolVars, epollVars, callerVars, linkVars,
                 events, cur, task, done, fault>>

(* The next event, in whatever order epoll put them.  One that points to   *)
(* the server after m_server was cleared is taken for a client's.          *)
TakeEvent(w, p, to) ==
  /\ Move(w, to)
  /\ events' = [events EXCEPT ![w] = @ \ {p}]
  /\ cur' = [cur EXCEPT ![w] = p]
  /\ UNCHANGED <<poolVars, epollVars, callerVars, linkVars, task, done, fault>>

ScanServer(w) ==
  /\ pc[w] = "scan" /\ Server \in events[w]
  /\ \/ m_server # "null" /\ TakeEvent(w, Server, "link")
     \/ m_server = "null" /\ Dies("server")

ScanClient(w, c) ==
  /\ pc[w] = "scan" /\ c \in events[w]
  /\ \/ conn[c] # "freed" /\ TakeEvent(w, c, "recv")
     \/ conn[c] = "freed" /\ Dies("client")

(* m_server is read again for the call of Link, which blocks in accept. *)
Link(w) ==
  /\ pc[w] = "link"
  /\ \/ m_server = "null" /\ Dies("server")
     \/ /\ m_server # "null"
        /\ Move(w, "accept")
        /\ UNCHANGED <<poolVars, epollVars, callerVars, linkVars,
                       events, cur, task, done, fault>>

ToScan(w) == /\ Move(w, "scan")
             /\ cur' = [cur EXCEPT ![w] = Server]
             /\ UNCHANGED <<events, done>>

(* mutant: accept is called again until it would fail *)
AcceptAgain(w, c) ==
  /\ pc[w] = "accept" /\ conn[c] = "pending" /\ m_server # "null"
  /\ watched' = watched \cup {c}
  /\ conn' = [conn EXCEPT ![c] = "live"]
  /\ UNCHANGED <<poolVars, m_epoll, callerVars, stream, workerVars, fault>>

(* mutant: the new socket is not watched *)
AcceptUnwatched(w, c) ==
  /\ pc[w] = "accept" /\ conn[c] = "pending" /\ m_server # "null"
  /\ conn' = [conn EXCEPT ![c] = "live"]
  /\ ToScan(w)
  /\ UNCHANGED <<poolVars, epollVars, callerVars, stream, task, fault>>

(* accept returns; Link then writes the status of its own, maybe freed,    *)
(* object; the new socket is watched, or deleted when that fails.          *)
Accept(w, c) ==
  /\ pc[w] = "accept" /\ conn[c] = "pending"
  /\ \/ m_server = "null" /\ Dies("server")
     \/ /\ m_server # "null"
        /\ \E r \in AddResults(m_epoll, MayFail) :
             /\ watched' = WatchedAfterAdd(watched, c, r)
             /\ conn' = [conn EXCEPT ![c] = IF r = 0 THEN "live" ELSE "freed"]
        /\ ToScan(w)
        /\ UNCHANGED <<poolVars, m_epoll, callerVars, stream, task, fault>>

(* read blocks until there is a task or the caller has hung up. *)
RestPeeked(c) == stream[c]         \* mutant: the task stays in the socket
Rest(c)       == Tail(stream[c])

EndOfFile(c)   == stream[c] = <<>> /\ Hangup(c)

RecvTask(w) ==
  /\ pc[w] = "recv" /\ stream[cur[w]] # <<>>
  /\ Move(w, "run")
  /\ task' = [task EXCEPT ![w] = Head(stream[cur[w]])]
  /\ stream' = [stream EXCEPT ![cur[w]] = Rest(cur[w])]
  /\ UNCHANGED <<poolVars, epollVars, callerVars, conn, events, cur, done, fault>>

(* mutant: the socket is no longer watched, but not deleted *)
RecvHangupLeaks(w) ==
  /\ pc[w] = "recv" /\ EndOfFile(cur[w])
  /\ watched' = WatchedAfterDel(watched, cur[w])
  /\ ToScan(w)
  /\ UNCHANGED <<poolVars, m_epoll, callerVars, linkVars, task, fault>>

RecvHangup(w) ==
  /\ pc[w] = "recv" /\ EndOfFile(cur[w])
  /\ \/ /\ conn[cur[w]] # "freed"
        /\ watched' = WatchedAfterDel(watched, cur[w])
        /\ conn' = [conn EXCEPT ![cur[w]] = "freed"]
        /\ ToScan(w)
        /\ UNCHANGED <<poolVars, m_epoll, callerVars, stream, task, fault>>
     \/ conn[cur[w]] = "freed" /\ Dies("client")

RunTask(w) ==
  /\ pc[w] = "run" /\ TasksReturn
  /\ Move(w, "scan")
  /\ done' = done \cup {<<cur[w], task[w]>>}
  /\ task' = [task EXCEPT ![w] = 0]
  /\ cur' = [cur EXCEPT ![w] = Server]
  /\ UNCHANGED <<poolVars, epollVars, callerVars, linkVars, events, fault>>

(* Back in CThread::ThreadEntry, which touches its CThread object. *)
Leave(w) ==
  /\ pc[w] = "leave"
  /\ \/ m_threads[w] = "freed" /\ Dies("thread")
     \/ /\ m_threads[w] = "live"
        /\ Move(w, "exited")
        /\ UNCHANGED <<poolVars, epollVars, callerVars, linkVars,
                       events, cur, task, done, fault>>

-----------------------------------------------------------------------------
OwnerStep ==
  \/ StartRefused \/ StartServer \/ StartEpoll \/ StartWatch \/ StartReturns
  \/ \E w \in Workers : StartThread(w)
  \/ CloseEpoll \/ CloseServer \/ CloseThreads

CallerStep(c) ==
  Connect(c) \/ SendTask(c) \/ SendRefused(c) \/ SendBreaks(c) \/ CallerExit(c)

WorkerStep(w) ==
  \/ WaitEvents(w) \/ LoopEnds(w) \/ ScanEnds(w) \/ Link(w)
  \/ ScanServer(w)
  \/ \E c \in Callers : ScanClient(w, c) \/ Accept(w, c)
  \/ RecvTask(w) \/ RecvHangup(w) \/ RunTask(w) \/ Leave(w)

Next ==
  /\ fault = "none"
  /\ \/ OwnerStep
     \/ \E c \in Callers : CallerStep(c)
     \/ \E w \in Workers : WorkerStep(w)

Spec == Init /\ [][Next]_vars

(***************************************************************************)
(* The kernel runs every thread that is not blocked; nothing orders the    *)
(* threads that are blocked on one socket, and nothing makes the owner     *)
(* start or close the pool.                                                *)
(***************************************************************************)
FairSpec ==
  /\ Spec
  /\ WF_vars(fault = "none" /\ owner # "idle" /\ OwnerStep)
  /\ \A w \in Workers : WF_vars(fault = "none" /\ WorkerStep(w))

-----------------------------------------------------------------------------
(***************************************************************************)
(* Type correctness.                                                       *)
(***************************************************************************)
TypeOK ==
  /\ owner \in {"idle", "create", "add", "spawn", "closeServer", "closeThreads", "closed"}
  /\ startRet \in {1, 0, -1, -4, -5, -6, -8}
  /\ m_server \in {"null", "unbound", "bound"}
  /\ m_epoll \in {-1, Handle}
  /\ watched \subseteq Pointers
  /\ m_threads \in [Workers -> {"none", "live", "freed"}]
  /\ client \in [Callers -> {"fresh", "half", "linked", "gone"}]
  /\ addRet \in [Callers -> {1, 0, -1, -2, -4}]
  /\ conn \in [Callers -> {"none", "pending", "live", "freed"}]
  /\ stream \in [Callers -> Seq(Nat)]
  /\ count \in [Callers -> Nat]
  /\ pc \in [Workers -> {"off", "loop", "scan", "link", "accept", "recv", "run", "leave", "exited"}]
  /\ events \in [Workers -> SUBSET Pointers]
  /\ cur \in [Workers -> Pointers]
  /\ task \in [Workers -> Nat]
  /\ done \subseteq Callers \X Nat
  /\ fault \in {"none", "overrun", "client", "server", "thread", "sigpipe"}

-----------------------------------------------------------------------------
(***************************************************************************)
(* Every task whose AddTask returned 0 is in exactly one place: in its     *)
(* connection, in the hands of one worker, or done (ThreadPool.h:75-84,    *)
(* 109-121: the pointer is written once, read once and called once,        *)
(* whichever workers were woken for it).                                   *)
(***************************************************************************)
Held(w)  == <<cur[w], task[w]>>
Running  == {Held(w) : w \in {v \in Workers : pc[v] = "run"}}
Tasks    == Callers \X (1..MaxTasks)
Sent     == {t \in Tasks : t[2] <= count[t[1]]}
Queued   == {t \in Tasks : \E i \in 1..Len(stream[t[1]]) : stream[t[1]][i] = t[2]}

TasksAccounted ==
  /\ Queued \cup Running \cup done = Sent
  /\ Queued \cap Running = {} /\ Queued \cap done = {} /\ Running \cap done = {}
  /\ \A v, w \in Workers :
       pc[v] = "run" /\ pc[w] = "run" /\ Held(v) = Held(w) => v = w

(***************************************************************************)
(* The pool implements the queue of tasks its callers rely on.  A caller   *)
(* whose first call came before the pool listened, or whose connect        *)
(* failed, is refused for good (ThreadPool.h:69-83): nothing it adds is    *)
(* ever sent, though the pool runs.                                        *)
(***************************************************************************)
Refused == {c \in Callers : addRet[c] \in {-2, -4}}

TQ == INSTANCE TaskQueue WITH queue <- stream, running <- Running, refused <- Refused

ImplementsTaskQueue == TQ!Spec

(***************************************************************************)
(* What can end the process.  A socket is used after its deletion only     *)
(* when its caller had hung up, for a second worker may hold the event of  *)
(* the same end of file; the server and the thread objects only when       *)
(* Close, which waits for nobody, has run; and a write breaks only when    *)
(* Close or a failed epoll_ctl (ThreadPool.h:100-104) dropped the          *)
(* connection under its caller.                                            *)
(***************************************************************************)
Closing == owner \in {"closeServer", "closeThreads", "closed"}

FaultCause ==
  /\ fault = "client" => \E c \in Callers : Hangup(c) /\ conn[c] = "freed"
  /\ fault \in {"server", "thread"} => Closing
  /\ fault = "sigpipe" => Closing \/ MayFail

Serving == fault = "none" /\ startRet = 0 /\ owner = "idle" /\ m_epoll # -1

(***************************************************************************)
(* A worker that has the pool to itself never blocks in accept or in read, *)
(* and never meets a deleted client: level-triggered events suffice for    *)
(* blocking sockets when nobody else consumes them.                        *)
(***************************************************************************)
AloneNeverBlocks ==
  fault = "none" /\ ~Closing =>
    \A w \in Workers : /\ pc[w] \in {"link", "accept"} => Pending # {}
                       /\ pc[w] = "recv" => Readable(cur[w])
                       /\ \A c \in events[w] \cap Callers : conn[c] = "live"

(***************************************************************************)
(* Every task sent to a running pool is run to its end.                    *)
(***************************************************************************)
TasksGetDone ==
  \A c \in Callers : \A n \in 1..MaxTasks :
    (Serving /\ count[c] >= n) ~> (<<c, n>> \in done)

(***************************************************************************)
(* The pool gives back the connection of every caller that ended.          *)
(***************************************************************************)
HangupsReclaimed ==
  \A c \in Callers : (Serving /\ client[c] = "gone" /\ conn[c] # "none") ~> (conn[c] = "freed")

(***************************************************************************)
(* With Epoll.h as written Start always ends at the epoll instance         *)
(* (ThreadPool.h:36-37), after the socket began to listen: AddTask goes on *)
(* returning 0 for tasks that no worker will ever see.                     *)
(***************************************************************************)
StartsWithoutWorkers ==
  /\ startRet \in {1, -1, -4, -5}
  /\ \A w \in Workers : pc[w] = "off"
  /\ done = {} /\ Queued = Sent

-----------------------------------------------------------------------------
(* A claim of the repository that the code does not keep. *)

(* README.md:5: local sockets, epoll and the thread pool are all it takes  *)
(* to handle many senders at once: what they sent gets handled.            *)
ManySendersServed == TasksGetDone
=============================================================================

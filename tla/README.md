# EPlayerServer: specification and proofs

EPlayerServer is a login server for Linux, written in C++: an HTTP client sends its user name, a time, a salt and a
digest; the server looks the user up in MySQL, computes the digest itself and compares the two. This directory holds
TLA+ modules that model the server, TLC configurations that check them on small instances, and TLAPS proofs that the
safety properties hold in instances of any size. Paths like `ThreadPool.h:98` are relative to
`src/EPlayerServer/`, `README.md:5` is the repository's own README, `src/README.md`.

1. [The system](#1-the-system)
2. [How the sources are read](#2-how-the-sources-are-read)
3. [The modules](#3-the-modules)
4. [The runs](#4-the-runs)
5. [Fairness](#5-fairness)
6. [Where the code and its words disagree](#6-where-the-code-and-its-words-disagree)
7. [The proofs](#7-the-proofs)
8. [What is left out](#8-what-is-left-out)
9. [The plan](#9-the-plan)

## 1. The system

### Processes

The service is three processes (`main.cpp:105-122`, `CServer.cpp:10-35`), each forked from the main one by
`CProcess::CreateSubProcess` and joined to it by a pair of local sockets, the "pipe".

| process | starts with | what it does |
|---|---|---|
| log server | `CreateLogServer` (main.cpp:5-23) | starts `CLoggerServer`, waits for the end of its pipe, closes the logger |
| main (`CServer`) | `Main` (main.cpp:105-122) | listens on TCP port 9999; two pool threads accept clients and send their descriptors down the pipe to the business process |
| business (`CEdoyunPlayerServer`) | `BusinessProcess` (EPlayerServer.h:98-146) | receives the descriptors, watches them in an epoll; pool threads read the requests, query MySQL and answer |

Any thread of any process may call `CLoggerServer::Trace`, which connects to the log server by a local socket.
Inside a process the threads hand work to each other through `CThreadPool`, over another local socket. Nothing in the
program takes a lock; sockets, pipes and epoll are all the synchronisation there is.

### Components

Each entry gives the state the component keeps, its operations, the hard behaviours and what makes it correct.

**Thread pool** (`ThreadPool.h`). *State:* a listening local socket `m_server`, an epoll `m_epoll`, the thread objects
`m_threads`; in each calling thread a `static thread_local` client socket. *Operations:* `Start`, `Close`, `AddTask`
(allocate a function object, write its pointer to the client socket) and `TaskDispatch`, the loop of each worker (wait,
accept or read a pointer, call it). *Hard:* all workers wait on one level-triggered epoll with blocking sockets and keep
the events they got while others act on the same sockets; sockets and threads are deleted without waiting for their
users; a client that failed half-way is kept. *Correct:* a task that was accepted is run once, in its caller's order,
and not lost; nothing is used after its deletion; everything sent gets done.

**Epoll wrapper** (`Epoll.h`). *State:* the descriptor. *Operations:* `Create`, `WaitEvents`, `Add`, `Modify`, `Del`,
`Close`. *Hard:* a guard and a buffer, both wrong as written. *Correct:* an object that was just made can be created, and
the events of a wait end up in the caller's vector.

**Socket wrapper** (`Socket.h`). *State:* descriptor, status (0 fresh, 1 initialised, 2 linked, 3 closed), parameters.
*Operations:* `Init`, `Link`, `Send`, `Recv`, `Close`. *Hard:* the file of a local socket, which only a proper close
removes; `Link` that fails after `Init`; broken connections raise SIGPIPE. *Correct:* a step that fails leaves an object
that can be closed or tried again.

**Thread wrapper** (`Thread.h`). *State:* function, `pthread_t`, paused flag, a static map from threads to objects.
*Operations:* `Start`, `Stop`, `Pause`, `isValid`, the static `ThreadEntry` and signal handler. *Hard:* the map is shared
by all threads and the handler; `Stop` has a time limit that has always passed. *Correct:* a thread that is stopped is
gone before what it uses is.

**Log server** (`Logger.h`). *State:* server socket, epoll, thread, file, a map of clients; a thread-local client in each
tracing thread. *Operations:* `Start`, `Close`, `Trace`, `ThreadFunc`, `WriteLog`. *Hard:* `Trace` blocks when the
connection is full; closing deletes the socket under the running thread; the map lookup reads `end()`. *Correct:* each
thread's lines get into the file once and in order; logging never takes the service down.

**Main server** (`CServer`, with `ThreadFunc` as listed in README.md:979-1000). *State:* server socket, epoll, pool,
child process. *Operations:* `Init`, `Run`, `Close`, `ThreadFunc`. *Hard:* both workers are woken for one connection.
*Correct:* every connection reaches the business process, once.

**Process and descriptor passing** (`Process.h`). *State:* the function of the child, the pipe. *Operations:*
`CreateSubProcess`, `SendFD`/`RecvFD`, `SendSocket`/`RecvSocket`. *Hard:* message headers on the stack; ends of processes
on either side; a receiver without free descriptors. *Correct:* a descriptor that was sent is received once, and the end
of the other process is told from a message.

**Business server** (`EPlayerServer.h`). *State:* epoll, clients map, pool, one MySQL connection. *Operations:*
`BusinessProcess`, `ThreadFunc`, `Connected`, `Received`, `HttpParser`, `MakeResponse`. *Hard:* two workers are told of
one request, requests come in pieces, clients leave at any time, all workers share one database connection, descriptors
are not given back. *Correct:* every request gets one answer, and the answer is what the database says.

**HTTP parser** (`HttpParser.h/.cpp`). *State:* the vendored `http_parser`, its callbacks' results; `UrlParser` with a
URL and its parts. *Operations:* `Parser` and the accessors; `UrlParser::Parser`, `SetUrl`, `operator[]`. *Hard:* results
that survive from one call or request to the next; pieces. *Correct:* a size is reported for complete requests only, and
what is reported belongs to that request.

**Database clients** (`DataBaseHelper.h`, `Sqlite3Client.*`, `MysqlClient.*`). *State:* a handle or a connection, tables
and fields. *Operations:* `Connect`, `Exec` with and without a result, `StartTransaction`, `CommitTransaction`,
`RollbackTransaction`, `Close`, `IsConnected`; statements generated by `Create`, `Drop`, `Insert`, `Delete`, `Modify`,
`Query`. *Hard:* failed opens, lost connections, unread results, transactions that end by themselves. *Correct:* what was
acknowledged is stored, what was not committed is not seen.

**Others.** `Crypto` (one call of MD5), `Public.h` and `Function.h` (strings, sockets' parameters and bound calls),
`main.cpp` (start-up and the author's tests), `PlayerServer.h` (an earlier `EPlayerServer.h` nobody includes), the
vendored `sqlite3` and `http_parser`, the root sample `main.cpp` and build files. See section 8.

### How they interact

```
 client --TCP--> CServer::ThreadFunc --SendSocket--> pipe --RecvSocket--> BusinessProcess --epoll--> ThreadFunc
                   (2 pool threads)                                         (1 thread)             (pool threads)
                                                                                                       |
        any thread --Trace, local socket--> CLoggerServer::ThreadFunc --> file              CHttpParser, UrlParser,
                                                                                            m_db->Exec, Send
```

`hazards` in `PROJECT.json` lists what is hard to test in all this, line by line, with the properties that watch it.

## 2. How the sources are read

At this commit the sources do not compile, so a reading has to be chosen where they are not C++. The choices are these;
every line that does compile is taken literally, also where it looks like a mistake.

| place | reading |
|---|---|
| `SOCK_ISIP = 8;` in an enum, `CLocalSocket` | a comma; another name of the one class `CSocket` |
| `EpollDatas`, `EPEvents`, `m_pool.Size()`, `url.Uri()` | `EpollData`, a vector of events that is empty when declared, the number of threads, the path `UrlParser` found |
| a `CSocketBase` used as an `int`, `CSockParam(sockaddr_in*, int)` | its descriptor; the obvious constructor |
| `CServer::ThreadFunc`, declared and bound but not defined | the listing in README.md:979-1000 |
| constants and the `Condition` member of the database helper, `Result` | flags; a list of tables |
| `Delete` and `Modify` | take the table of values as their argument, as in the overriding classes |

Some lines that do compile stop a component at once. Each of these has a name, so that an instance can take the line as
it is, or as its comment or its use means it, and look behind it. In three modules the names assumed are a constant; in
`Processes`, `Socket` and `Thread` they are a variable `repairs`, chosen in `Init` and never changed, so that one run
explores every choice:

| module | name | line | as written |
|---|---|---|---|
| `ThreadPool`, `Logger` (`Fixes`), `Processes` | `epoll_create` | Epoll.h:64 | `Create` refuses a fresh object |
| `ThreadPool`, `Logger` (`Fixes`) | `events_resize` | Epoll.h:78-81 | the events are copied into an empty vector |
| `Logger` (`LogFixes`), `Processes` | `thread_valid` | Thread.h:85 | a thread is valid when it has no number |
| `Logger` (`LogFixes`) | `map_find` | Logger.h:161-164 | `find` of a new key is dereferenced |
| `Handover` (`Repairs`), `Processes` | `msghdr` | Process.h:79, 108, 136 | message headers are not initialised |
| `Handover` (`Repairs`) | `recv_buffer` | EPlayerServer.h:278 | `Recv` is given an empty buffer |
| | `uri` | EPlayerServer.h:194 | the path is compared with `login`, without its slash |
| `Socket`, `Processes` | `ip_socket` | Socket.h:143 | `Init` replaces the IP socket it has opened by a local one |
| `Thread` | `pause_guard` | Thread.h:56 | `Pause` takes only threads that do not run |

What the lines do as they are is shown by `AsWrittenEnds` (run `processes`), by `NoDataLogIn` and by the
`AsWritten` theorems of section 7. `log_server` runs without `map_find` and `hand_safety` without `msghdr`; `processes`, `socket_starts`
and `threads` run with every choice; the other runs assume the names their `.cfg` gives. The theorems of section 7 hold
for every choice.

Undefined behaviour is a choice over what the build can do: an uninitialised header makes `sendmsg` fail or not, an error
number printed with `%s` ends the process or not, two queries at once on one MySQL connection give any of the
answers, an error or the end of the process, freed memory and null pointers end the process, a map that two threads write at once is torn,
a join of a detached thread that has ended returns or ends the process. The end of a process is recorded in a variable
`fault` (or `why`), and nothing of that process happens after it.

## 3. The modules

| module | models | state and actions |
|---|---|---|
| `Epoll` | `Epoll.h` | operators only, used by the modules that own a `CEpoll`: what `Create`, `WaitEvents`, `Add` and `Del` return and leave |
| `TaskQueue` | what `AddTask` promises | abstract: per caller a queue; `Add`, `Take`, `Finish`, and `Refuse`, after which a caller is never served |
| `ThreadPool` | `ThreadPool.h` with the parts of `Socket.h` and `Thread.h` it calls | variables carry the members' names; `Start` is one action per call another thread can observe (`StartServer`, `StartEpoll`, `StartWatch`, `StartThread`, `StartReturns`, `StartRefused`), `Close` three, `AddTask` `Connect`, `SendTask`, `SendRefused`, `SendBreaks`, a thread's end `CallerExit`, and `TaskDispatch` one action per system call or use of shared memory (`WaitEvents` ... `Leave`) |
| `ThreadPoolInv` | - | the inductive invariant, in named parts |
| `LineLog` | what `Trace` promises | abstract: per tracer a queue of numbered lines; `Drop` (a call before the first line written), `Write`, `Store` (some lines from the head of one queue), `End` |
| `Logger` | `Logger.h`, `CreateLogServer`, `CThread::Stop` | `Start*`, `Close*`, `StopThread`, `ProcessExit` (owner); `Connect`, `SendLine`, `SendRefused`, `SendBreaks`, `NoSocket`, `TracerExit` (a tracer); `WaitEvents`, `ScanServer`, `Accept`, `RecvLines`, `RecvHangup`, `WriteLog`, `LoopEnds`, `Leave` (the log thread) |
| `Handover` | a client's way through both processes: `CServer::ThreadFunc`, `SendSocket`, `RecvSocket`, `BusinessProcess`, `ThreadFunc`, `Received`, `HttpParser` | `WaitFront`, `Accept`, `SendSocket`, `SendBreaks`; `RecvSocket`, `EndOfPipe`, `Watch`; `WaitEvents`, `ScanError`, `ScanClient`, `RecvFailed`, `RecvData`, `Query`, `SendAnswer`; how many users the database has of a name (`rows`) and in how many pieces a client's requests come are chosen once; the clients' `Arrive`, `Ask`, `PieceArrives`, `Leave`; `KillMain` |
| `Processes` | `Main`, `CreateLogServer`, `CServer::Init` and `Close`, `CreateSubProcess`, `RecvFD`, `SendSocket`, `RecvSocket`: the three processes from the first fork to the end of the last | who holds which end of which pair (`holds`), where each process is (`at`) and what ended it (`why`); `ForkLog`, `ForkBusiness`, `MainCloses`, `SetUp`, `SendSocket`, `CloseServer` (main), `BusinessEntry`, `StartUp`, `RecvSocket`, `Trace`, `TraceBreaks` (business), `LogEntry`, `StartLogger`, `ReadLines`, `RecvFD`, `CloseLogger` (log), `RecvFails`, `Kill` |
| `Socket` | `CSocket::Init`, `Link`, `Close` of the two servers and of the tracing clients | one object per start of the program: `Begin`, `OpenSocket`, `Bind`, `Listen`, `Link`, the three steps of `Close` (`CloseBegins`, `CloseUnlink`, `CloseSocket`), `Exit`, and `Crash` at any of them; `name` says who has the file and the port, `Connect` is a client that looks the file up |
| `Thread` | `CThread` | `StartCreate`, `StartStore`, `StartAdd`, `Pause`, `PauseSignal`, `Stop`, `StopJoin`, `StopKill`, `Delete` (owner); `Install`, `FunctionEnds`, `Forget`, `Leave`, `SignalKills`, `Stopped`, `PauseTaken`, `Handle`, `PauseEnds` (a thread and its signal handler); an insertion into the map takes a step during which others may search it, which is what tears it |
| `Sql` | the statement generators of both table classes; the engines as external | operators: a statement is its verb, the columns it sets and compares, and the form of its text: as meant, not well formed, altered by a text that ends or escapes its literal, or a script; `Outcomes` is the set of tables it may leave |
| `Database` | `CSqlite3Client`, `CMysqlClient`, and what SQLite's transactions do to one connection | one object of either class, its connection and the database: one action per member function, an `Exec` for every statement `Sql` generates |
| `Url` | `UrlParser` | pure operators (the loop over the pairs of a query as where the pairs start, `Starts`, at which it stops, `Stops`, and which it puts into the map, `Put`), and the reference `Written`/`Describes`: how a URL is put together |
| `Http` | `CHttpParser` with its callbacks, the decision of `CEdoyunPlayerServer::HttpParser` | `Feed` (a call of `Parser`), `Serve` (a piece of data as the server treats it), `NewLink`, `SetLink`, `ParseLink` (an object of `UrlParser`) |
| `MCThreadPool`, `MCLogger`, `MCHandover`, `MCDatabase`, `MCHttp`, `MCSocket`, `MCThread` | - | small sets for TLC |
| `ThreadPoolProofs`, `LoggerProofs`, `HandoverProofs`, `ProcessesProofs`, `SocketProofs`, `ThreadProofs`, `DatabaseProofs`, `HttpProofs` | - | the theorems |

`ThreadPool`, `Logger` and `Handover` are the concurrent ones. `ThreadPool` and `Logger` each contain the epoll and the
sockets; `Handover` contains the pipe and treats each pool as what it is for its user, a number of threads that run an
endless function (that they get to run it at all is `TasksGetDone`, checked in `pool_one_worker`). The verdict of the
database in `Handover` follows from how many users have the name and whether the sign fits (EPlayerServer.h:205-230),
and its failures there (`-3`, the end of the process) are those `Database` shows
for MySQL. A request which comes in pieces is refused there, as by `Parsed` in `Http`. A name is a text of the client's: what
one with a quote makes of the query (README.md:32) is covered by the number of rows it finds, none, one or several, and by
the failure.

`Processes` composes the three processes at the level of their ends: what stays of each component is what decides whether
somebody can go on (is a pipe held by anyone, is there a reader at the log, how full are a pipe and a connection). The
faults that `ThreadPool`, `Logger`, `Thread` and `Handover` name are a `Kill` there.

What a step is. A thread's local computation is not a step; a system call, a read or write of memory another thread
also uses, and the deletion of such memory are. Where the code reads shared state and uses it later (`m_server` before
and in `Link`, the events of a wait, the thread object in `ThreadEntry`), the model has a step in between.

Data. A task, a line, a client and a descriptor are numbers or model values: numbers where order matters (the n-th task
of a caller). A request is a number of pieces; in `Http` it is a sequence of tokens, in `Url` a URL is a sequence of words
and marks, so that every cut between two tokens is explored and characters are not.

Ghosts. `count` in `ThreadPool`, `said` and `accepted` in `Logger`, `asked` and `answers` in `Handover`, `begun`, `call`
and `ret` in `Database`, `fed` in `Http`, `why` and `sent` in `Processes`, `started` and `deleted` in `Thread` record what a caller did or was told. They are not in the program; `count`,
`said`, `asked` and `sent` also carry the bounds.

## 4. The runs

Twelve runs; each answers one question. All use `CHECK_DEADLOCK FALSE`: callers stop at a bound (`MaxTasks`, `MaxLines`,
`MaxAsks`, `MaxFed`, `MaxSent`), a process that has ended does nothing more, and workers may block for good, which the
code does too; whether anybody waits who should not is asked by the liveness properties instead.

| run | instance | asks | states |
|---|---|---|---|
| `pool_safety` | 2 callers, 2 workers, 2 tasks each, failures, exits, `Close` | `TypeOK`, `TasksAccounted`, `FaultCause`, `ImplementsTaskQueue` | 620 thousand |
| `pool_one_worker` | 2 callers, 1 worker, 3 tasks each, exits, fair | `AloneNeverBlocks`, `TasksGetDone`, `HangupsReclaimed` | 30 thousand |
| `claim_many_senders` | 2 callers, 2 workers, fair | violation of `ManySendersServed`, section 6 | |
| `log_server` | 2 tracers, 3 lines each, connections of 2 lines, everything may fail, fair | `TypeOK`, `LinesAccounted`, `LogFaultCause`, `SentGetsWritten`, `ImplementsLineLog` | 271 thousand |
| `hand_safety` | 2 clients, requests in 1 or 2 pieces, 2 front and 2 business workers, 1 or 2 descriptors, pipe of 1, a name unknown, known once or twice, failures, departures, resets, kill | `TypeOK`, `OneHolder`, `EndCause`, `OneAnswerEach`, `LoginsVerified` | 8.3 million |
| `hand_live` | 2 clients, 2 requests each, 2 front workers, 1 business worker, fair | `OutageSpreads`, `RequestsHandled` | 308 thousand |
| `claim_left_stalls` | 2 clients that may leave, 1 worker each, fair | violation of `EventsHandled`, section 6 | |
| `processes` | 4 clients, pipe of 2, connection of 2, every choice of repairs, failures, kills, fair | `TypeOK`, `LogOutlives`, `EndsHaveACause`, `ChildrenEnd`, `AsWrittenEnds` | 14 thousand |
| `socket_starts` | 3 starts, 2 clients, backlog 0, with and without rivals, crashes | `TypeOK`, `NamedWhileServing`, `StaleFileHeals` | 476 thousand |
| `threads` | 2 objects, 2 thread numbers, fair | `TypeOK`, `EntryIsOwn`, `ThreadFaultCause`, `StoppedEnds` | 68 thousand |
| `db_clients` | both classes, 2 keys, 3 texts (plain, with a quote, with a backslash and a column's name), all table objects and flags | `TypeOK`, `AckedIsStored`, `AllOrNothing`, `WedgedUntilClosed` | 140 thousand |
| `http_requests` | every contiguous piece of two pairs of requests, 3 calls on one parser; 72 URLs from parts, 7 broken ones | `TypeOK`, `SizeMeansComplete`, `UrlIsLastSeen`, `UrlComesApart`, `RefusalIsFinal` | 70 thousand |

What they show, and why the bounds are enough:

* **Pool.** The interesting cases need two workers that hold events of the same socket, two callers (one that hangs up
  while the other connects or sends) and two tasks on one connection (order). A third worker or caller adds another
  holder of the same stale event; the proofs (section 7) need no bound at all. `pool_safety` shows that tasks are never
  lost, doubled or reordered by the race for events, and that what the race can do is end the process: a client object
  is used after another worker deleted it, the server and thread objects after `Close`. In `TaskQueue` a
  caller may be refused before its first task, and then for good: a thread whose first `AddTask` came too early never
  gets a task through (ThreadPool.h:73). With one worker (`pool_one_worker`) nothing blocks and
  everything is done: the pool is right for one worker only. A third task makes sure the worker returns to a connection
  it has read before.
* **Log server.** Two tracers, as each has a connection of its own and one thread serves them; a connection of two
  lines so that one read takes several and a tracer does block; three lines so that the third is written after a read.
  `LinesAccounted` is order, uniqueness and completeness together, across the connection, the thread's hand and the file.
  `LogFaultCause`: one thread that also deletes never meets a deleted client; only `Close`, which deletes the socket first
  and kills the thread last, ends the process early, and the map lookup (Logger.h:162), when a tracer has
  connected that the thread has not taken yet; and no connection is closed under a tracer whose lines were being
  read. `SentGetsWritten`: what is written to the server gets into the file and a full connection is emptied.
  `ImplementsLineLog` says the same step by step, as one specification: a line a tracer has written waits in its queue
  and leaves it from the head, into the file, or with the server; only calls before the first line written come to nothing.
* **Handover.** Two front workers race for an arrival, two business workers for a request. `OneAnswerEach` holds in that
  race because the second worker blocks on the connection until its client speaks again. With one descriptor the table is
  full at the second client; requests in two pieces give the answers that are refusals and the SIGPIPE of a client that
  left after its first piece. `LoginsVerified` looks at the step that writes an answer: it is what the database says of the
  client's own name and sign (no such user, several, one whose password fits or not), `-3` if a query can fail and `-1` if
  requests come in pieces. The one exception is an answer whose own query met another one on the connection all workers
  share (`mixed`): a worker that had the connection to itself is held to the database's verdict whatever the others do. In `hand_live` a client asks twice, so that a second request
  meets whatever the first left behind. Clients that leave before the answer and resets are in all of them.
* **Processes.** Two places in pipe and connection so that each is seen empty, in between and full; more clients than both
  hold. `LogOutlives` and `ChildrenEnd` rest on a descriptor that leaks: the business process inherits the main process's
  end of the log server's pipe, so the log server goes on until both have ended, and if it does not read (Thread.h:85) it
  and the business process wait for each other for ever (`Orphans`, the one exception `ChildrenEnd` names). `Close` stops
  nobody: the children end because the main process does. `AsWrittenEnds`: with Epoll.h:64 or Socket.h:143 as written the
  service ends by itself.
* **Sockets.** Three starts: one that crashes, one that finds its file, one after that. With rivals a start that fails to
  bind removes the file of the one that serves (`NamedWhileServing` says when); without rivals the same `Close` is what
  makes a stale file cost one start only (`StaleFileHeals`). A backlog of 0 makes `connect` wait.
* **Threads.** Two objects on two numbers, so that a number is used again by the same and by the other object, one thread
  ends while the other is started, paused or signalled, and an object is deleted under its thread.
* **Database.** One row matched, one not matched, an empty and a missing table, null, and the texts that are not read as
  they were meant: one with a quote, which with SQLite may go on with statements of its own (Sqlite3Client.cpp:21, 449;
  README.md:32 names this) and with MySQL alters its one statement, and one with a backslash (an escape for MySQL) and the
  name of a column (which SQLite takes for the column). A script may do anything to the tables and the transaction,
  whatever the call returns; `AllOrNothing` and `AckedIsStored` say what is left of a transaction then: nothing can
  be said with SQLite until the next commit or rollback that returns 0, while with MySQL an altered statement cannot end the
  transaction. Two keys and three texts give all of it. The sequence of calls is not bounded.
* **HTTP.** Two requests in a row cut at any two places contain: a part of a request, a whole one, a whole one with the
  beginning or all of the next, the rest of one. Three calls are needed to see a result of the first in the third. `UrlIsLastSeen` is
  what `Url()` then holds: the URL of a next request that has begun takes the place of the complete one's, and of a URL cut
  between two calls the last piece is left (HttpParser.cpp:109).

A mutant in `PROJECT.json` accompanies every property: a plausible mistake in one definition, and the run that then finds
the property violated. The definitions marked "mutant" in the modules are these; no specification uses them.

## 5. Fairness

Runs of safety properties alone assume none. `FairSpec` in `ThreadPool`, `Logger`, `Handover`, `Processes` and `Thread`
assumes weak fairness of each thread by
itself: the kernel eventually runs a thread that can run. It is weak, and of a thread as a whole: a thread blocked in
`accept` or `read` that is overtaken by another each time data arrive is not promised anything, since the kernel promises
nothing. Nothing is assumed of callers, tracers, clients or the failures, nor that an owner ever starts
or closes its pool or logger (a `Start` or `Close` that was begun goes on); only the pieces of a request a client has begun
keep arriving (`PieceArrives`), which TCP does for a connection that stays up. All fairness formulas stop with the process
(`fault = "none"`, `main = "up"`, `biz = "up"`). In `Processes` each process, and the log thread beside its process's main
thread, is fair by itself; the next client, a kill and a `recvmsg` that fails (`RecvFails`) are not promised. In `Thread`
a thread's function need never end (`FunctionEnds` is not fair), which is what `Stop` is for, and the owner finishes a call it
has begun but need not make another.

## 6. Where the code and its words disagree

* **Many senders** (`claim_many_senders`). README.md:5 says that local sockets, epoll and the thread pool are all it takes
  to handle many senders at once. With two workers, both are woken for the same events: a connection waiting and tasks to be
  read. When one of them has taken the connection the other is left in `accept` (ThreadPool.h:98), and when that one has
  read a task the first is left in `read` (ThreadPool.h:111). The trace TLC prints ends with one worker in each and a task
  of another caller in its socket, for good. `CServer` and `Main` ask for two threads per pool (CServer.cpp:19,
  main.cpp:113).
* **Handled events** (`claim_left_stalls`). EPlayerServer.h:28 says that the loop handles the readable events. A client
  that leaves before it is answered turns its connection into an error event, which ends the scan (EPlayerServer.h:272)
  and is never consumed: every later wait returns it and every scan ends there. `RequestsHandled` in `hand_live` shows
  the other side: without a reset connection everybody is answered.
* **GET requests** (`UrlComesApart`, `NoDataLogIn`). README.md:20 and EPlayerServer.h:24-25 say that a GET request is handled as a login:
  the parameters are parsed, the database is queried, the signature verified, and 0 returned if it fits. The path that
  `UrlParser` finds is the path with its slash (`UrlComesApart`) and is compared with `login` (EPlayerServer.h:194): a
  complete GET request for `/login` is answered `-7`, and the database is never asked. `NoDataLogIn` proves
  it for all data and every address, `AsWrittenNobodyLetIn` for the whole way of a client. `LoginsVerified` is checked with
  the comparison repaired, and would be violated if a complete request were still answered `-7`.
* **The default port** (`UrlComesApart`). HttpParser.h:59 says that `Port()` returns 80 by default. `SetUrl` stores
  80, the constructor (HttpParser.cpp:148-151) stores nothing: an object made with a URL that has no port, and parsed with
  result 0, has a port that was never set. `UrlComesApart` says exactly which port an object has.

The properties of the passing runs contain more that a reader may not expect, stated as what the code does:
the refused callers of `TaskQueue`, `AsWrittenEnds`, the two orphans in `ChildrenEnd`, the intruder in `NamedWhileServing`, the causes in
`FaultCause`, `LogFaultCause`, `ThreadFaultCause` and `EndCause`, the commits of MySQL in `AllOrNothing`, `WedgedUntilClosed`,
`RefusalIsFinal`, `UrlIsLastSeen`, the scripts in `AckedIsStored` and `AllOrNothing`, and the URL without a path in `UrlComesApart`.

## 7. The proofs

TLAPS proves the following for every value of the constants: any sets of callers, workers, clients, tracers, starts,
objects and thread numbers, any bounds and sizes, every choice of repairs, any pieces of data and any URLs. The
assumptions are the `ASSUME`s of the modules (finite sets, a server that is no caller, natural bounds, Boolean switches,
words that are no marks, pieces that are made of tokens, parts of a URL that do not contain the mark that ends them),
which TLC evaluates in the runs.

| module | theorem | says |
|---|---|---|
| `ThreadPoolProofs` | `PoolInvHolds` | `TypeOK /\ PoolInv` is inductive |
| | `TypeCorrect`, `TasksAccountedHolds`, `FaultCauseHolds` | `TypeOK`, `TasksAccounted`, `FaultCause` |
| | `PoolRefinesQueue` | the pool implements `TaskQueue` (`ImplementsTaskQueue`) |
| | `AsWrittenNothingRuns` | with `Fixes` without `epoll_create`, no pool has workers |
| | `EachLineStopsThePool` | without one of `epoll_create` and `events_resize` no task is ever taken |
| | `AloneNeverBlocksHolds` | one worker never blocks without need |
| | `RefusedForGoodHolds` | a refused caller stays refused |
| `LoggerProofs` | `LogInvHolds` | `LogInv` is inductive |
| | `LogTypeCorrect`, `LinesAccountedHolds`, `LogFaultCauseHolds` | `TypeOK`, `LinesAccounted`, `LogFaultCause` |
| | `LoggerRefinesLineLog` | the log server implements `LineLog` (`ImplementsLineLog`) |
| | `AsWrittenNothingLogged` | without one of `epoll_create`, `events_resize` and `thread_valid` nobody is accepted and the log stays empty |
| `HandoverProofs` | `HandInvHolds` | `HandInv /\ LoginInv /\ EndCause` holds always |
| | `HandTypeCorrect`, `OneHolderHolds`, `EndCauseHolds`, `OneAnswerEachHolds`, `LoginsVerifiedHolds` | `TypeOK`, `OneHolder`, `EndCause`, `OneAnswerEach`, `LoginsVerified` |
| | `AsWrittenNobodyAnswered` | without `recv_buffer` nobody gets an answer |
| | `AsWrittenNobodyLetIn` | without `uri` every answer is -1 or -7 |
| | `ResetIsNeverCleared` | a watched client that is reset while no worker works for it or is about to read from it stays in error: reported by every wait, never read, never answered, never taken from the epoll |
| | `NothingIsGivenBack` | a descriptor goes one way, and the business process gives none back while it runs |
| `ProcessesProofs` | `ProcInvHolds`, `ProcTypeCorrect`, `LogOutlivesHolds`, `EndsHaveACauseHolds` | `TypeOK`, `LogOutlives`, `EndsHaveACause` |
| | `AsWrittenNobodyAccepted` | without `epoll_create` or `ip_socket` the main process accepts nobody |
| `SocketProofs` | `SockInvHolds`, `SockTypeCorrect`, `NamedHolds`, `StaleFileHealsHolds` | `TypeOK`, `NamedWhileServing`, `StaleFileHeals` |
| | `AsWrittenNoIpServer` | without `ip_socket` no IP server ever listens |
| `ThreadProofs` | `ThreadInvHolds`, `ThreadTypeCorrect`, `EntryIsOwnHolds`, `ThreadFaultCauseHolds` | `TypeOK`, `EntryIsOwn`, `ThreadFaultCause` |
| | `AsWrittenNothingPauses` | without `pause_guard` no thread is ever paused |
| `DatabaseProofs` | `DbInvHolds`, `DbTypeCorrect`, `AckedIsStoredHolds`, `AllOrNothingHolds`, `WedgedUntilClosedHolds` | `TypeOK`, `AckedIsStored`, `AllOrNothing`, `WedgedUntilClosed` |
| `HttpProofs` | `HttpInvHolds` | `HttpInv` is inductive |
| | `HttpTypeCorrect`, `SizeMeansCompleteHolds`, `UrlIsLastSeenHolds`, `RefusalIsFinalHolds`, `UrlComesApartHolds` | `TypeOK`, `SizeMeansComplete`, `UrlIsLastSeen`, `RefusalIsFinal`, `UrlComesApart` |
| | `NoDataLogIn` | with the comparison of EPlayerServer.h:194 as written no data are answered as a login |

So every safety property of the passing runs is proved, the two refinements included; and the theorems whose names begin
with `AsWritten`, with `EachLineStopsThePool`, say what each line of the second table of section 2 does by itself, whatever
else is repaired. In each module the proof has one lemma per part of the
invariant and in it one step per action; what an action with several outcomes does is a lemma of its own.

**Pool.** `TasksAccounted` is not inductive: from a state in which a worker is about to read a
connection that was never accepted, or two workers run a task of one number, a step breaks it. `PoolInv` has three parts.
`PhaseInv` ties the owner's place in `Start` and `Close` to what exists (no threads without an epoll instance, freed
threads only after `Close`). `ConnInv` says whom a worker may touch: the sockets in its events and in its hand are
accepted ones, live or freed after a hang-up, and a freed one has a cause. `TaskInv` gives the tasks on their way their
numbers: what is left of a stream is the tail of 1, 2, 3, ..., and what has left it is running, in one hand, or done. Each part
has a lemma for the owner's steps, one for the callers' and one for the workers'; most steps change nothing `TaskInv` is
about and go by one frame lemma (`TaskFrame`). From it `TasksAccounted` follows in every state; `FaultCause` needs one more
induction, over the step that sets `fault`. For the refinement each step is an `Add`, a `Take`, a `Finish`, a `Refuse` or a stutter of
`TaskQueue`; that a taken task is not running or done already is `TaskInv`, and that a refused caller has added nothing
and adds nothing rests on an invariant of its own, `RefusedInv`: its client is a half-made one, with nothing in its stream. `AloneNeverBlocks` has an invariant of its own,
`AloneInv`, under the hypothesis that `Workers` has at most one member: what the worker was told is ready stays so, as
nobody else consumes it.

**Log server.** `LogInv` has `Phases` (the server and the epoll exist while a thread runs and nobody closes; a thread that
scans has passed `isValid`), `Events` (what the thread holds of its last wait is still live, and a connection waits as long
as it means to accept one), `Clients` (a connection nobody has read from holds all its tracer wrote; a connection freed
under a linked tracer has an excuse) and `Numbered`: the lines in the socket are the last of those that were traced, the
lines read are the ones before, in order and without a gap. A read moves a whole socket across that border.
For the refinement a tracer's queue is what the log thread holds of it followed by what is in its socket, so that a read
is a stutter (`LinesRead`), `WriteLog` a `Store` (`LinesStored`), a line sent a `Write`, and the step in which the process
ends an `End`, which loses the lines in hand (`LinesDropped`). `LineInv` adds what `LogInv` does not say: the lines in hand
are of one tracer, and an owner that is past `Stop` has left no log thread behind.

**Handover.** `HandInv` says who a worker works for (`Works`), what the two ends of a connection know (`Peers`,
`Requests`), and, client by client, that what is in a worker's hand, in the pipe and in the epoll is where `place` says
(`Hands`, `Carried`, `Held`), which is `OneHolder`. For the answers `LoginInv` adds `InTurn`, a request in one piece is
waiting to be read, with one worker, or answered, `Replies`, the result a worker is about to send is its client's verdict
unless its query met another one, and `Meetings`, queries meet only where there are two workers. `LoginsVerified` is then a
fact about the one step that writes an answer. `EndCause` is proved along.
`NothingIsGivenBack` is why the cause "full" is a matter of time: descriptors come in and none is closed
(EPlayerServer.h:281-284). `ResetIsNeverCleared` is the step behind `claim_left_stalls`. A read or a failed write takes
the error of a reset connection (`Told`), after which it reads as ended; but a scan never reads from a connection it finds in
error, so that once nobody works for the client or holds an older event of it (`Ignored`), nobody ever takes the error.

**Processes.** `Holders` gives the holders of each end by the places of the processes: in particular that the business process holds the
end of the log server's pipe as long as it lives. `Signs` is what a process that is about to end has found out. One lemma
(`ExitKeeps`) serves every end of a process.

**Sockets.** `PhaseOf` gives by the call of a start what its `Init` returned and holds; from `bind` to `unlink` a server has its
name unless an intruder removed its file (`Bound`, `Named`). `StaleFileHeals` counts: a crash leaves at most one stale file,
which a failed `bind` pays for, and the file is gone before the next (`Debt`).

**Threads.** `Numbers` makes a thread number belong to one object at a time, `Owned` and `Calling` say that an object's number is
that of a thread of its own, also while the owner is in the middle of a call, and `Marked` that a thread which is or will be
paused has an entry. Then the map is never another's, although numbers are used again.

**Database.** `InSync` says that the connection sees what is stored unless a transaction is open at the engine; that each
of the generated statements leaves a table is shown from the generators, whatever their texts make of them. The two action properties follow call by call.

**HTTP.** What the parsers compute for every input needs induction over the data, and the library's induction theorems
take an operator as a parameter, which no installed prover can instantiate. `SetInduction` gets around that: it is induction
as a property of a set, and follows from the fact that a non-empty set of natural numbers has a least element. With it
the recursive functions `Run` (a piece, token by token) and `WrittenUpTo` (a query, parameter by parameter) are shown to
exist (`RunIs`, `WrittenUpToIs`), and every prefix to have what is claimed of it (`RunFacts`, `UpToFacts`). `HttpInv` adds to
the types and the two invariants that a parser which returned 0 is left with an error (`Poisoned`); that an error stays and
that nothing is stored after it is `RunFacts` again. `NoDataLogIn` holds because every path begins with the slash it was
found by (`PathsBeginWithSlash`). For `UrlIsLastSeen`, `Tracks` says token by token that the span the library keeps is
the run of URL tokens it is in, and `m_url` the last such run (`Spells`, `RunTracks`). For `UrlComesApart`, one lemma for each part of a URL says that the parser's cut falls where
the part was written (`SchemeIs`, `AuthorityIs`, `PathComesApart`), and for the query that the pairs the loop visits are the
parameters, at the positions they were written to (`StartsAre`, `PairAt`), so that the last value of a name is the one that
stays (`StoredIs`). An object may be parsed twice or be given another URL: `Fresh` says what it holds until then.

**Only model-checked:** all liveness (TLAPS does not reason about fairness), and the claims `ManySendersServed` and `EventsHandled` of section 6,
which are liveness too.

## 8. What is left out

* `CSocket`: non-blocking and UDP sockets, which nothing asks for, address reuse, copies of `CSockParam`; the descriptor that
  Socket.h:143 leaks (nothing runs out of them there). `Recv` and `Send` as loops over partial transfers: a pointer goes
  through at once, a line fits the buffer, a request's pieces are explicit.
* `CThread`: a `pthread_create` that fails and a second `Start` of one object; more than one owner.
* `SwitchDeamon`, which is not called; `CServer::Run` only waits. `~CEdoyunPlayerServer`, which `exit` does not run.
* Epoll: `Modify`, which nothing calls.
* `LogInfo`: the text of a line. `MakeResponse`: the text of an answer, which is its code here. `Crypto`: whether the
  digest matches is a property of the client (`Members`).
* Rows and fields of the database on the program's side (`LoadFromStr`, `ExecCallback`, copies of tables); types other than
  an integer key and a text.
* `PlayerServer.h`, the sample `main.cpp` at the root, the build files: not part of the server.
* `sqlite3`: 240 of the 243 thousand lines of the repository. What its transactions do to one connection is in `Database`,
  mapped to its source; parser, planner, B-trees, pager and file locks are not this program's and are left out, as are the
  MySQL client library, `http_parser` and the kernel, which are modelled from their use and marked external in `PROJECT.json`.
* Time. `WaitEvents` has a limit, 10 ms in the pool and the business process (Epoll.h:70) and 1 ms in the log server
  (Logger.h:142); a wait that reaches it returns 0 and the loop goes round, which changes nothing, so that a wait in the
  models ends when there is an event. The limit in `CThread::Stop` has passed when it is set.
* The log thread's scan ends at an error event (Logger.h:147, 183): a local socket gets into error when
  its peer closes without having read what it was sent, and the log server sends nothing, so no such event comes up. `CThread::Stop` returns when it has sent SIGUSR2
  (Thread.h:80); that the log thread takes it is the same step in `Logger`, and two steps in `Thread`.
* One hazard has no property: an `UPDATE` is never well formed with a condition and takes every row without one
  (Sqlite3Client.cpp:226). The statement is modelled as written (`ModifyParses` in `Sql`), and a property would restate it.

## 9. The plan

Done: every component that decides what the service does is modelled, and every safety property of the runs is proved.
What could follow, in this order:

1. **The clients of a database as abstract transactions**: the two action properties of `Database` as a refinement of one
   specification of what `StartTransaction`, `Exec`, `CommitTransaction` and `RollbackTransaction` promise.
2. **Two pools in one process**: a thread that calls `AddTask` of two pools has one thread-local client for both.
3. **Copies of a thread's socket parameters and objects** (`CSockParam`, `CThread` assignment), if the code begins to use them.
4. **Rows and fields** of a result set on the program's side.

New questions are put into the existing runs of a module where they fit the instance, so that the list stays at one run
per question.

-------------------------- MODULE ThreadPoolProofs --------------------------
(***************************************************************************)
(* What holds of the thread pool for every set of callers and workers, for *)
(* every bound, with and without the repairs of Epoll.h; and two special   *)
(* cases: Epoll.h as written, where no worker is ever started, and a       *)
(* single worker, the one size for which blocking sockets under a          *)
(* level-triggered epoll instance never block.                             *)
(***************************************************************************)
EXTENDS ThreadPoolInv, TLAPS, SequenceTheorems, FiniteSetTheorems

(***************************************************************************)
(* The return values of the epoll wrapper.                                 *)
(***************************************************************************)
LEMMA EpollFacts ==
  ASSUME NEW epoll \in {-1, Handle}, NEW f \in BOOLEAN
  PROVE  /\ \A r \in CreateResults(epoll, f) :
              r[2] \in {-1, Handle} /\ (r[1] = 0 => r[2] = Handle)
         /\ \A r \in AddResults(epoll, f) : r = 0 \/ epoll = -1 \/ f
         /\ AddResults(epoll, f) \subseteq {0, -1, -2}
         /\ epoll = -1 => 0 \notin AddResults(epoll, f)
  BY DEF CreateResults, CreateRefused, AddResults, Handle

(* A wait ends the process or brings some of the ready events. *)
GetsEvents(w, E) ==
  /\ pc[w] = "loop" /\ m_epoll # -1
  /\ Move(w, "scan")
  /\ events' = [events EXCEPT ![w] = E]
  /\ UNCHANGED <<poolVars, epollVars, callerVars, linkVars, cur, task, done, fault>>

LEMMA WaitCases ==
  ASSUME NEW w \in Workers, WaitEvents(w)
  PROVE  Dies("overrun") \/ \E E \in SUBSET Ready : GetsEvents(w, E)
  <1> SUFFICES ASSUME ~Dies("overrun") PROVE \E E \in SUBSET Ready : GetsEvents(w, E)
    OBVIOUS
  <1>1. PICK E \in WaitResults(Ready) :
          /\ Move(w, "scan")
          /\ events' = [events EXCEPT ![w] = E]
          /\ UNCHANGED <<poolVars, epollVars, callerVars, linkVars, cur, task, done, fault>>
    BY DEF WaitEvents
  <1>2. E \subseteq Ready
    BY DEF WaitResults
  <1> QED BY <1>1, <1>2 DEF GetsEvents, WaitEvents

-----------------------------------------------------------------------------
(* Type correctness. *)

LEMMA TypeInit == Init => TypeOK
  BY DEF Init, TypeOK, Pointers, Handle

LEMMA OwnerType == TypeOK /\ OwnerStep => TypeOK'
  <1> SUFFICES ASSUME TypeOK, OwnerStep PROVE TypeOK'
    OBVIOUS
  <1> USE SwitchAssumption DEF TypeOK, epollVars, callerVars, linkVars, workerVars, Pointers
  <1>1. CASE StartRefused BY <1>1 DEF StartRefused
  <1>2. CASE StartServer BY <1>2 DEF StartServer
  <1>3. CASE StartEpoll BY <1>3, EpollFacts DEF StartEpoll
  <1>4. CASE StartWatch BY <1>4, EpollFacts DEF StartWatch, WatchedAfterAdd
  <1>5. CASE StartReturns BY <1>5 DEF StartReturns
  <1>6. ASSUME NEW w \in Workers, StartThread(w) PROVE TypeOK'
    BY <1>6 DEF StartThread
  <1>7. CASE CloseEpoll BY <1>7 DEF CloseEpoll
  <1>8. CASE CloseServer BY <1>8 DEF CloseServer
  <1>9. CASE CloseThreads BY <1>9 DEF CloseThreads
  <1> QED BY <1>1, <1>2, <1>3, <1>4, <1>5, <1>6, <1>7, <1>8, <1>9 DEF OwnerStep

LEMMA CallerType ==
  ASSUME NEW c \in Callers, TypeOK, CallerStep(c) PROVE TypeOK'
  <1> USE DEF TypeOK, poolVars, epollVars, callerVars, linkVars, workerVars
  <1>1. CASE Connect(c) BY <1>1 DEF Connect
  <1>2. CASE SendTask(c) BY <1>2 DEF SendTask
  <1>3. CASE SendRefused(c) BY <1>3 DEF SendRefused
  <1>4. CASE SendBreaks(c) BY <1>4 DEF SendBreaks
  <1>5. CASE CallerExit(c) BY <1>5 DEF CallerExit
  <1> QED BY <1>1, <1>2, <1>3, <1>4, <1>5 DEF CallerStep

LEMMA WorkerType ==
  ASSUME NEW w \in Workers, TypeOK, CurOK, WorkerStep(w) PROVE TypeOK'
  <1> USE SwitchAssumption
      DEF TypeOK, poolVars, epollVars, callerVars, linkVars, workerVars, Pointers, Move, ToScan, Dies
  <1>1. CASE WaitEvents(w)
    <2>1. CASE Dies("overrun") BY <2>1
    <2>2. ASSUME NEW E \in SUBSET Ready, GetsEvents(w, E) PROVE TypeOK'
      <3>1. E \subseteq Pointers BY DEF Ready
      <3> QED BY <2>2, <3>1 DEF GetsEvents
    <2> QED BY <1>1, <2>1, <2>2, WaitCases
  <1>2. CASE LoopEnds(w) BY <1>2 DEF LoopEnds
  <1>3. CASE ScanEnds(w) BY <1>3 DEF ScanEnds
  <1>4. CASE Link(w) BY <1>4 DEF Link
  <1>5. CASE ScanServer(w) BY <1>5 DEF ScanServer, TakeEvent
  <1>11. ASSUME NEW c \in Callers, ScanClient(w, c) PROVE TypeOK'
    <2>1. events[w] \ {c} \in SUBSET Pointers OBVIOUS
    <2>2. CASE TakeEvent(w, c, "recv") BY <2>1, <2>2 DEF TakeEvent
    <2>3. CASE Dies("client") BY <2>3
    <2> QED BY <1>11, <2>2, <2>3 DEF ScanClient
  <1>6. ASSUME NEW c \in Callers, Accept(w, c) PROVE TypeOK'
    <2>1. CASE Dies("server") BY <2>1
    <2>2. CASE ~Dies("server")
      <3>1. PICK r \in AddResults(m_epoll, MayFail) :
              /\ watched' = WatchedAfterAdd(watched, c, r)
              /\ conn' = [conn EXCEPT ![c] = IF r = 0 THEN "live" ELSE "freed"]
        BY <1>6, <2>2 DEF Accept
      <3>2. watched' \subseteq Pointers BY <3>1 DEF WatchedAfterAdd
      <3>3. conn' \in [Callers -> {"none", "pending", "live", "freed"}] BY <3>1
      <3>4. ToScan(w) /\ UNCHANGED <<poolVars, m_epoll, callerVars, stream, task, fault>>
        BY <1>6, <2>2 DEF Accept
      <3> QED BY <3>2, <3>3, <3>4
    <2> QED BY <2>1, <2>2
  <1>7. CASE RecvTask(w)
    <2> DEFINE c == cur[w]
    <2>1. /\ c \in Callers /\ stream[c] \in Seq(Nat) /\ stream[c] # <<>>
      BY <1>7 DEF RecvTask, CurOK
    <2>2. Head(stream[c]) \in Nat /\ Tail(stream[c]) \in Seq(Nat)
      BY <2>1, HeadTailProperties
    <2> QED BY <1>7, <2>1, <2>2 DEF RecvTask, Rest
  <1>8. CASE RecvHangup(w) BY <1>8 DEF RecvHangup, WatchedAfterDel
  <1>9. CASE RunTask(w) BY <1>9 DEF RunTask, CurOK
  <1>10. CASE Leave(w) BY <1>10 DEF Leave
  <1> QED BY <1>1, <1>2, <1>3, <1>4, <1>5, <1>6, <1>7, <1>8, <1>9, <1>10, <1>11 DEF WorkerStep

-----------------------------------------------------------------------------
(* The phases of Start and Close. *)

LEMMA PhaseInit == Init => PhaseInv
  BY DEF Init, PhaseInv

LEMMA OwnerPhase == TypeOK /\ PhaseInv /\ OwnerStep => PhaseInv'
  <1> SUFFICES ASSUME TypeOK, PhaseInv, OwnerStep PROVE PhaseInv'
    OBVIOUS
  <1> USE DEF TypeOK, PhaseInv, Closing, epollVars, workerVars
  <1>1. CASE StartRefused BY <1>1 DEF StartRefused
  <1>2. CASE StartServer BY <1>2 DEF StartServer
  <1>3. CASE StartEpoll BY <1>3, EpollFacts, SwitchAssumption DEF StartEpoll, Handle
  <1>4. CASE StartWatch BY <1>4 DEF StartWatch
  <1>5. CASE StartReturns BY <1>5 DEF StartReturns
  <1>6. ASSUME NEW w \in Workers, StartThread(w) PROVE PhaseInv'
    BY <1>6 DEF StartThread
  <1>7. CASE CloseEpoll BY <1>7 DEF CloseEpoll
  <1>8. CASE CloseServer BY <1>8 DEF CloseServer
  <1>9. CASE CloseThreads BY <1>9 DEF CloseThreads
  <1> QED BY <1>1, <1>2, <1>3, <1>4, <1>5, <1>6, <1>7, <1>8, <1>9 DEF OwnerStep

(* A worker only moves once its thread exists. *)
LEMMA WorkerMoves ==
  ASSUME NEW w \in Workers, TypeOK, PhaseInv, WorkerStep(w)
  PROVE  /\ UNCHANGED <<poolVars, m_epoll, callerVars>>
         /\ pc[w] # "off"
         /\ \A v \in Workers : v # w => pc'[v] = pc[v]
  <1> USE DEF TypeOK, poolVars, epollVars, workerVars, Dies, Move
  <1>1. CASE WaitEvents(w) BY <1>1 DEF WaitEvents
  <1>2. CASE LoopEnds(w) BY <1>2 DEF LoopEnds
  <1>3. CASE ScanEnds(w) BY <1>3 DEF ScanEnds
  <1>4. CASE Link(w) BY <1>4 DEF Link
  <1>5. CASE ScanServer(w) BY <1>5 DEF ScanServer, TakeEvent
  <1>6. ASSUME NEW c \in Callers, ScanClient(w, c) \/ Accept(w, c)
        PROVE  /\ UNCHANGED <<poolVars, m_epoll, callerVars>>
               /\ pc[w] # "off"
               /\ \A v \in Workers : v # w => pc'[v] = pc[v]
    BY <1>6 DEF ScanClient, TakeEvent, Accept, ToScan
  <1>7. CASE RecvTask(w) BY <1>7 DEF RecvTask
  <1>8. CASE RecvHangup(w) BY <1>8 DEF RecvHangup, ToScan
  <1>9. CASE RunTask(w) BY <1>9 DEF RunTask
  <1>10. CASE Leave(w) BY <1>10 DEF Leave
  <1> QED BY <1>1, <1>2, <1>3, <1>4, <1>5, <1>6, <1>7, <1>8, <1>9, <1>10 DEF WorkerStep

LEMMA CallerKeeps ==
  ASSUME NEW c \in Callers, CallerStep(c)
  PROVE  UNCHANGED <<poolVars, epollVars, workerVars>>
  BY DEF CallerStep, Connect, SendTask, SendRefused, SendBreaks, CallerExit, linkVars

LEMMA PhaseStep ==
  ASSUME TypeOK, PhaseInv, [Next]_vars PROVE PhaseInv'
  <1>1. ASSUME UNCHANGED <<owner, m_server, m_threads, m_epoll, pc>> PROVE PhaseInv'
    BY <1>1 DEF PhaseInv, Closing
  <1>2. CASE UNCHANGED vars
    BY <1>1, <1>2 DEF vars, poolVars, epollVars, workerVars
  <1>3. CASE OwnerStep BY <1>3, OwnerPhase
  <1>4. ASSUME NEW c \in Callers, CallerStep(c) PROVE PhaseInv'
    BY <1>1, <1>4, CallerKeeps DEF poolVars, epollVars, workerVars
  <1>5. ASSUME NEW w \in Workers, WorkerStep(w) PROVE PhaseInv'
    <2>1. UNCHANGED <<owner, m_server, m_threads, m_epoll>>
      BY <1>5, WorkerMoves DEF poolVars
    <2>2. \A v \in Workers : m_threads[v] = "none" => pc'[v] = "off"
      BY <1>5, WorkerMoves DEF PhaseInv
    <2> QED BY <2>1, <2>2 DEF PhaseInv, Closing
  <1> QED BY <1>2, <1>3, <1>4, <1>5 DEF Next

-----------------------------------------------------------------------------
(* The connections, and the events that point to them. *)

LEMMA ConnInit == Init => ConnInv
  BY DEF Init, ConnInv, CurOK, Touches

LEMMA OwnerConn == TypeOK /\ PhaseInv /\ ConnInv /\ OwnerStep => ConnInv'
  <1> SUFFICES ASSUME TypeOK, PhaseInv, ConnInv, OwnerStep PROVE ConnInv'
    OBVIOUS
  <1> USE DEF epollVars, callerVars, linkVars, workerVars
  <1>1. ASSUME UNCHANGED <<watched, client, conn, pc, events, cur>>, Closing => Closing'
        PROVE  ConnInv'
    BY <1>1 DEF ConnInv, CurOK, Touches, Hangup
  <1>2. CASE StartRefused BY <1>1, <1>2 DEF StartRefused, Closing
  <1>3. CASE StartServer BY <1>1, <1>3 DEF StartServer, Closing
  <1>4. CASE StartEpoll BY <1>1, <1>4 DEF StartEpoll, Closing
  <1>5. CASE StartWatch
    <2>1. UNCHANGED <<client, conn, pc, events, cur>> /\ ~Closing
      BY <1>5 DEF StartWatch, Closing
    <2>2. watched' \cap Callers = watched \cap Callers
      BY <1>5, CallersAssumption DEF StartWatch, WatchedAfterAdd
    <2> QED BY <2>1, <2>2 DEF ConnInv, CurOK, Touches, Hangup
  <1>6. ASSUME NEW w \in Workers, StartThread(w) PROVE ConnInv'
    <2>1. UNCHANGED <<watched, client, conn, events, cur>> /\ ~Closing
      BY <1>6 DEF StartThread, Closing
    <2>2. \A v \in Workers : pc'[v] \in {"recv", "run"} <=> pc[v] \in {"recv", "run"}
      BY <1>6 DEF StartThread, PhaseInv, TypeOK
    <2>3. \A v \in Workers : Touches(v)' = Touches(v)
      BY <2>1, <2>2 DEF Touches
    <2> QED BY <2>1, <2>2, <2>3 DEF ConnInv, CurOK, Hangup
  <1>7. CASE StartReturns BY <1>1, <1>7 DEF StartReturns, Closing
  <1>8. CASE CloseEpoll
    <2>1. UNCHANGED <<client, conn, pc, events, cur>> /\ watched' = {} /\ Closing'
      BY <1>8 DEF CloseEpoll, Closing
    <2> QED BY <2>1 DEF ConnInv, CurOK, Touches, Hangup
  <1>9. CASE CloseServer
    <2>1. UNCHANGED <<client, watched, pc, events, cur>> /\ Closing'
      BY <1>9 DEF CloseServer, Closing
    <2>2. \A c \in Callers : conn'[c] = conn[c] \/ conn[c] = "pending"
      BY <1>9 DEF CloseServer, TypeOK
    <2>3. \A c \in Callers : conn'[c] = "none" <=> conn[c] = "none"
      BY <1>9 DEF CloseServer, TypeOK
    <2> QED BY <2>1, <2>2, <2>3 DEF ConnInv, CurOK, Touches, Hangup
  <1>10. CASE CloseThreads BY <1>1, <1>10 DEF CloseThreads, Closing
  <1> QED BY <1>2, <1>3, <1>4, <1>5, <1>6, <1>7, <1>8, <1>9, <1>10 DEF OwnerStep

LEMMA CallerConn ==
  ASSUME NEW c \in Callers, TypeOK, ConnInv, CallerStep(c) PROVE ConnInv'
  <1>1. UNCHANGED <<watched, pc, events, cur>> /\ (Closing' <=> Closing)
    BY CallerKeeps DEF poolVars, epollVars, workerVars, Closing
  <1>2. \A w \in Workers : Touches(w)' = Touches(w)
    BY <1>1 DEF Touches
  <1>3. \A d \in Callers : Hangup(d) => Hangup(d)'
    BY DEF CallerStep, Connect, SendTask, SendRefused, SendBreaks, CallerExit, callerVars,
           TypeOK, Hangup
  <1>4. \A d \in Callers : conn'[d] = conn[d] \/ (conn[d] = "none" /\ conn'[d] = "pending")
    BY DEF CallerStep, Connect, SendTask, SendRefused, SendBreaks, CallerExit, linkVars,
           TypeOK, ConnInv
  <1>5. \A d \in Callers : client'[d] \in {"fresh", "half"} => conn'[d] = "none"
    BY DEF CallerStep, Connect, SendTask, SendRefused, SendBreaks, CallerExit,
           callerVars, linkVars, TypeOK, ConnInv
  <1> QED BY <1>1, <1>2, <1>3, <1>4, <1>5 DEF ConnInv, CurOK, Touches

(* What one step of a worker may do to the connections and to the watches. *)
ConnMoves ==
  /\ \A d \in Callers : \/ conn'[d] = conn[d]
                        \/ conn[d] = "pending" /\ conn'[d] \in {"live", "freed"}
                        \/ conn'[d] = "freed" /\ Hangup(d)
  /\ \A d \in Callers : conn'[d] = "freed" => conn[d] = "freed" \/ Hangup(d) \/ Closing \/ MayFail
  /\ \A d \in watched' \cap Callers : conn'[d] = "live"

LEMMA WorkerConnMoves ==
  ASSUME NEW w \in Workers, TypeOK, PhaseInv, ConnInv, WorkerStep(w) PROVE ConnMoves
  <1>1. ASSUME UNCHANGED <<conn, watched>> PROVE ConnMoves
    BY <1>1 DEF ConnMoves, ConnInv
  <1>2. ASSUME NEW c \in Callers, Accept(w, c) PROVE ConnMoves
    <2>1. CASE Dies("server") BY <1>1, <2>1 DEF Dies, epollVars, linkVars
    <2>2. CASE ~Dies("server")
      <3>1. PICK r \in AddResults(m_epoll, MayFail) :
              /\ watched' = WatchedAfterAdd(watched, c, r)
              /\ conn' = [conn EXCEPT ![c] = IF r = 0 THEN "live" ELSE "freed"]
        BY <1>2, <2>2 DEF Accept
      <3>2. conn[c] = "pending" /\ pc[w] = "accept"
        BY <1>2 DEF Accept
      <3>3. r = 0 \/ Closing \/ MayFail
        BY <3>1, <3>2, EpollFacts, SwitchAssumption DEF PhaseInv, TypeOK
      <3>4. \A d \in Callers : IF d = c THEN conn'[d] = (IF r = 0 THEN "live" ELSE "freed")
                                        ELSE conn'[d] = conn[d]
        BY <3>1 DEF TypeOK
      <3> QED BY <3>1, <3>2, <3>3, <3>4 DEF ConnMoves, ConnInv, WatchedAfterAdd
    <2> QED BY <2>1, <2>2
  <1>3. CASE RecvHangup(w)
    <2>1. CASE Dies("client") BY <1>1, <2>1 DEF Dies, epollVars, linkVars
    <2>2. CASE ~Dies("client")
      <3>1. /\ cur[w] \in Callers /\ Hangup(cur[w])
            /\ conn' = [conn EXCEPT ![cur[w]] = "freed"]
            /\ watched' = watched \ {cur[w]}
        BY <1>3, <2>2 DEF RecvHangup, EndOfFile, WatchedAfterDel, ConnInv, CurOK
      <3> QED BY <3>1 DEF ConnMoves, ConnInv, TypeOK
    <2> QED BY <2>1, <2>2
  <1>4. ASSUME NEW c \in Callers, ScanClient(w, c) PROVE ConnMoves
    BY <1>1, <1>4 DEF ScanClient, TakeEvent, Dies, epollVars, linkVars
  <1>5. CASE WaitEvents(w) BY <1>1, <1>5 DEF WaitEvents, Dies, epollVars, linkVars
  <1>6. CASE LoopEnds(w) BY <1>1, <1>6 DEF LoopEnds, epollVars, linkVars
  <1>7. CASE ScanEnds(w) BY <1>1, <1>7 DEF ScanEnds, epollVars, linkVars
  <1>8. CASE Link(w) BY <1>1, <1>8 DEF Link, Dies, epollVars, linkVars
  <1>9. CASE ScanServer(w) BY <1>1, <1>9 DEF ScanServer, TakeEvent, Dies, epollVars, linkVars
  <1>10. CASE RecvTask(w) BY <1>1, <1>10 DEF RecvTask, epollVars
  <1>11. CASE RunTask(w) BY <1>1, <1>11 DEF RunTask, epollVars, linkVars
  <1>12. CASE Leave(w) BY <1>1, <1>12 DEF Leave, Dies, epollVars, linkVars
  <1> QED BY <1>2, <1>3, <1>4, <1>5, <1>6, <1>7, <1>8, <1>9, <1>10, <1>11, <1>12 DEF WorkerStep

(* A worker only ever comes to touch a caller that is watched. *)
TouchesLess == \A v \in Workers : Touches(v)' \subseteq Touches(v) \cup watched

LEMMA WorkerTouches ==
  ASSUME NEW w \in Workers, TypeOK, CurOK, WorkerStep(w) PROVE TouchesLess /\ CurOK'
  <1>1. ASSUME UNCHANGED <<pc, events, cur>> PROVE TouchesLess /\ CurOK'
    BY <1>1 DEF TouchesLess, CurOK, Touches
  <1>2. ASSUME UNCHANGED <<events, cur>>, NEW to, Move(w, to),
               to \in {"recv", "run"} => pc[w] \in {"recv", "run"}
        PROVE  TouchesLess /\ CurOK'
    BY <1>2 DEF TouchesLess, CurOK, Touches, Move, TypeOK
  <1>3. ASSUME UNCHANGED events, Move(w, "scan"), cur' = [cur EXCEPT ![w] = Server]
        PROVE  TouchesLess /\ CurOK'
    BY <1>3 DEF TouchesLess, CurOK, Touches, Move, TypeOK
  <1>4. CASE WaitEvents(w)
    <2>1. CASE Dies("overrun") BY <1>1, <2>1 DEF Dies, workerVars
    <2>2. ASSUME NEW E \in SUBSET Ready, GetsEvents(w, E) PROVE TouchesLess /\ CurOK'
      <3>1. E \cap Callers \subseteq watched BY DEF Ready
      <3> QED BY <2>2, <3>1 DEF GetsEvents, TouchesLess, CurOK, Touches, Move, TypeOK
    <2> QED BY <1>4, <2>1, <2>2, WaitCases
  <1>5. CASE LoopEnds(w) BY <1>2, <1>5 DEF LoopEnds
  <1>6. CASE ScanEnds(w) BY <1>2, <1>6 DEF ScanEnds
  <1>7. CASE Link(w)
    BY <1>1, <1>2, <1>7 DEF Link, Dies, workerVars
  <1>8. CASE ScanServer(w)
    <2>1. CASE Dies("server") BY <1>1, <2>1 DEF Dies, workerVars
    <2>2. CASE TakeEvent(w, Server, "link")
      BY <2>2 DEF TakeEvent, TouchesLess, CurOK, Touches, Move, TypeOK
    <2> QED BY <1>8, <2>1, <2>2 DEF ScanServer
  <1>9. ASSUME NEW c \in Callers, ScanClient(w, c) PROVE TouchesLess /\ CurOK'
    <2>1. CASE Dies("client") BY <1>1, <2>1 DEF Dies, workerVars
    <2>2. CASE TakeEvent(w, c, "recv")
      BY <1>9, <2>2 DEF TakeEvent, ScanClient, TouchesLess, CurOK, Touches, Move, TypeOK
    <2> QED BY <1>9, <2>1, <2>2 DEF ScanClient
  <1>10. ASSUME NEW c \in Callers, Accept(w, c) PROVE TouchesLess /\ CurOK'
    BY <1>1, <1>3, <1>10 DEF Accept, Dies, ToScan, workerVars
  <1>11. CASE RecvTask(w) BY <1>2, <1>11 DEF RecvTask
  <1>12. CASE RecvHangup(w) BY <1>1, <1>3, <1>12 DEF RecvHangup, Dies, ToScan, workerVars
  <1>13. CASE RunTask(w) BY <1>3, <1>13 DEF RunTask
  <1>14. CASE Leave(w) BY <1>1, <1>2, <1>14 DEF Leave, Dies, workerVars
  <1> QED BY <1>4, <1>5, <1>6, <1>7, <1>8, <1>9, <1>10, <1>11, <1>12, <1>13, <1>14 DEF WorkerStep

LEMMA ConnStep ==
  ASSUME TypeOK, PhaseInv, ConnInv, [Next]_vars PROVE ConnInv'
  <1>1. CASE UNCHANGED vars
    BY <1>1 DEF vars, poolVars, epollVars, callerVars, linkVars, workerVars,
                ConnInv, CurOK, Touches, Hangup, Closing
  <1>2. CASE OwnerStep BY <1>2, OwnerConn
  <1>3. ASSUME NEW c \in Callers, CallerStep(c) PROVE ConnInv'
    BY <1>3, CallerConn
  <1>4. ASSUME NEW w \in Workers, WorkerStep(w) PROVE ConnInv'
    <2>1. UNCHANGED <<client, owner>>
      BY <1>4, WorkerMoves DEF poolVars, callerVars
    <2>2. ConnMoves
      BY <1>4, WorkerConnMoves
    <2>3. TouchesLess /\ CurOK'
      BY <1>4, WorkerTouches DEF ConnInv
    <2>4. \A d \in Callers : (Hangup(d)' <=> Hangup(d)) /\ (Closing' <=> Closing)
      BY <2>1 DEF Hangup, Closing
    <2>5. \A d \in Callers : client'[d] \in {"fresh", "half"} => conn'[d] = "none"
      BY <2>1, <2>2 DEF ConnInv, ConnMoves, Hangup
    <2>6. \A v \in Workers : \A d \in Touches(v)' :
            conn'[d] = "live" \/ (conn'[d] = "freed" /\ Hangup(d)')
      <3> SUFFICES ASSUME NEW v \in Workers, NEW d \in Touches(v)'
                   PROVE  conn'[d] = "live" \/ (conn'[d] = "freed" /\ Hangup(d)')
        OBVIOUS
      <3>1. d \in Callers /\ (d \in Touches(v) \/ d \in watched)
        BY <2>3 DEF TouchesLess, Touches
      <3>2. conn[d] = "live" \/ (conn[d] = "freed" /\ Hangup(d))
        BY <3>1 DEF ConnInv
      <3> QED BY <2>2, <2>4, <3>1, <3>2 DEF ConnMoves
    <2>7. \A d \in Callers : conn'[d] = "freed" => Hangup(d)' \/ Closing' \/ MayFail
      BY <2>2, <2>4 DEF ConnMoves, ConnInv
    <2> QED BY <2>2, <2>3, <2>5, <2>6, <2>7 DEF ConnInv, ConnMoves
  <1> QED BY <1>1, <1>2, <1>3, <1>4 DEF Next

-----------------------------------------------------------------------------
(* The tasks. *)

LEMMA TaskInit == Init => TaskInv
  <1> SUFFICES ASSUME Init PROVE TaskInv
    OBVIOUS
  <1>1. \A c \in Callers : stream[c] = <<>> /\ Len(stream[c]) = 0 /\ count[c] = 0
    BY DEF Init
  <1>2. \A c \in Callers : Taken(c) = 0 /\ 1..Taken(c) = {} /\ 1..Len(stream[c]) = {}
    BY <1>1 DEF Taken
  <1>3. \A w \in Workers : pc[w] # "run"
    BY DEF Init
  <1>4. done = {} /\ 0 <= MaxTasks
    BY BoundsAssumption DEF Init
  <1>5. \A c \in Callers : /\ count[c] <= MaxTasks
                           /\ Taken(c) \in Nat
                           /\ \A i \in 1..Len(stream[c]) : stream[c][i] = Taken(c) + i
    BY <1>1, <1>2, <1>4
  <1>6. \A c \in Callers : \A n \in 1..Taken(c) : <<c, n>> \in Running \cup done
    BY <1>2
  <1>7. \A t \in done : t[2] \in 1..Taken(t[1])
    BY <1>4
  <1>8. \A v, w \in Workers :
          pc[v] = "run" /\ pc[w] = "run" /\ Held(v) = Held(w) => v = w
    BY <1>3
  <1>9. \A w \in Workers : pc[w] = "run" => task[w] \in 1..Taken(cur[w]) /\ Held(w) \notin done
    BY <1>3
  <1> QED BY <1>5, <1>6, <1>7, <1>8, <1>9 DEF TaskInv

(* Steps that neither send, nor take, nor finish a task. *)
TaskFrame ==
  /\ UNCHANGED <<count, stream, task, done>>
  /\ \A v \in Workers : pc'[v] = "run" <=> pc[v] = "run"
  /\ \A v \in Workers : pc[v] = "run" => cur'[v] = cur[v]

LEMMA FrameRunning == TaskFrame => Running' = Running
  BY DEF TaskFrame, Running, Held

LEMMA FrameTask == TaskFrame /\ TaskInv => TaskInv'
  <1> SUFFICES ASSUME TaskFrame, TaskInv PROVE TaskInv'
    OBVIOUS
  <1>1. Running' = Running BY FrameRunning
  <1>2. \A c \in Callers : Taken(c)' = Taken(c) BY DEF TaskFrame, Taken
  <1>3. \A v \in Workers : pc[v] = "run" => Held(v)' = Held(v) BY DEF TaskFrame, Held
  <1>4. \A c \in Callers : /\ count'[c] <= MaxTasks
                           /\ Taken(c)' \in Nat
                           /\ \A i \in 1..Len(stream'[c]) : stream'[c][i] = Taken(c)' + i
    BY <1>2 DEF TaskFrame, TaskInv
  <1>5. \A v \in Workers : pc'[v] = "run" => task'[v] \in 1..Taken(cur[v])' /\ Held(v)' \notin done'
    BY <1>3 DEF TaskFrame, TaskInv, Taken
  <1>7. \A t \in done' : t[2] \in 1..Taken(t[1])'
    BY DEF TaskFrame, TaskInv, Taken
  <1>8. \A u, v \in Workers : pc'[u] = "run" /\ pc'[v] = "run" /\ Held(u)' = Held(v)' => u = v
    BY <1>3 DEF TaskFrame, TaskInv
  <1>9. \A c \in Callers : \A n \in 1..Taken(c)' : <<c, n>> \in Running' \cup done'
    BY <1>1, <1>2 DEF TaskFrame, TaskInv
  <1> QED BY <1>4, <1>5, <1>7, <1>8, <1>9 DEF TaskInv

LEMMA SendKeeps ==
  ASSUME NEW c \in Callers, TypeOK, TaskInv, SendTask(c) PROVE TaskInv'
  <1>1. /\ UNCHANGED <<pc, cur, task, done>> /\ count[c] < MaxTasks
        /\ stream' = [stream EXCEPT ![c] = Append(@, count[c] + 1)]
        /\ count' = [count EXCEPT ![c] = @ + 1]
    BY DEF SendTask, workerVars
  <1>2. Running' = Running /\ \A v \in Workers : Held(v)' = Held(v)
    BY <1>1 DEF Running, Held
  <1>3. \A d \in Callers : d # c => stream'[d] = stream[d] /\ count'[d] = count[d]
    BY <1>1 DEF TypeOK
  <1>4. /\ Len(stream'[c]) = Len(stream[c]) + 1 /\ Len(stream[c]) \in Nat
        /\ \A i \in 1..Len(stream[c]) : stream'[c][i] = stream[c][i]
        /\ stream'[c][Len(stream[c]) + 1] = count[c] + 1
        /\ count'[c] = count[c] + 1 /\ count[c] \in Nat
    BY <1>1, AppendProperties, LenProperties DEF TypeOK
  <1>5. \A d \in Callers : Taken(d)' = Taken(d)
    BY <1>3, <1>4 DEF Taken
  <1>6. ASSUME NEW d \in Callers
        PROVE  /\ count'[d] <= MaxTasks /\ Taken(d)' \in Nat
               /\ \A i \in 1..Len(stream'[d]) : stream'[d][i] = Taken(d)' + i
    <2>1. CASE d = c
      <3>1. \A i \in 1..Len(stream[c]) : stream'[c][i] = Taken(c) + i
        BY <1>4 DEF TaskInv
      <3>2. stream'[c][Len(stream[c]) + 1] = Taken(c) + (Len(stream[c]) + 1)
        BY <1>4 DEF Taken
      <3>3. Taken(c) \in Nat BY DEF TaskInv
      <3> QED BY <2>1, <1>1, <1>4, <1>5, <3>1, <3>2, <3>3, BoundsAssumption
    <2>2. CASE d # c
      BY <2>2, <1>3, <1>5 DEF TaskInv
    <2> QED BY <2>1, <2>2
  <1>7. \A v \in Workers : pc'[v] = "run" => task'[v] \in 1..Taken(cur[v])' /\ Held(v)' \notin done'
    <2> SUFFICES ASSUME NEW v \in Workers, pc'[v] = "run"
                 PROVE  task'[v] \in 1..Taken(cur[v])' /\ Held(v)' \notin done'
      OBVIOUS
    <2>1. cur[v] \in Callers \/ cur[v] = Server BY DEF TypeOK, Pointers
    <2>2. CASE cur[v] \in Callers
      BY <1>1, <1>2, <1>5, <2>2 DEF TaskInv, Taken
    <2>3. CASE cur[v] = Server /\ Server \notin Callers
      BY <1>1, <1>2, <2>3 DEF TaskInv, Taken, TypeOK
    <2> QED BY <2>1, <2>2, <2>3, CallersAssumption
  <1>8. \A t \in done' : t[2] \in 1..Taken(t[1])'
    BY <1>1, <1>5 DEF TaskInv, TypeOK
  <1>9. \A d \in Callers : \A n \in 1..Taken(d)' : <<d, n>> \in Running' \cup done'
    BY <1>1, <1>2, <1>5 DEF TaskInv
  <1> QED BY <1>1, <1>2, <1>6, <1>7, <1>8, <1>9 DEF TaskInv

(* What a read takes out of the stream: the next number. *)
LEMMA RecvTakes ==
  ASSUME NEW w \in Workers, TypeOK, CurOK, TaskInv, RecvTask(w)
  PROVE  /\ cur[w] \in Callers /\ stream[cur[w]] # <<>> /\ pc[w] = "recv"
         /\ Head(stream[cur[w]]) = Taken(cur[w]) + 1
         /\ \A d \in Callers : d # cur[w] => stream'[d] = stream[d]
         /\ Len(stream'[cur[w]]) = Len(stream[cur[w]]) - 1
         /\ \A i \in 1..Len(stream'[cur[w]]) : stream'[cur[w]][i] = stream[cur[w]][i + 1]
         /\ UNCHANGED <<cur, count, done>>
         /\ task' = [task EXCEPT ![w] = Taken(cur[w]) + 1]
         /\ pc' = [pc EXCEPT ![w] = "run"]
  <1>1. /\ cur[w] \in Callers /\ stream[cur[w]] # <<>> /\ pc[w] = "recv"
        /\ stream[cur[w]] \in Seq(Nat)
    BY DEF RecvTask, CurOK, TypeOK
  <1>2. stream' = [stream EXCEPT ![cur[w]] = Tail(stream[cur[w]])]
    BY DEF RecvTask, Rest
  <1>3. /\ Len(Tail(stream[cur[w]])) = Len(stream[cur[w]]) - 1
        /\ \A i \in 1..Len(Tail(stream[cur[w]])) : Tail(stream[cur[w]])[i] = stream[cur[w]][i + 1]
        /\ Head(stream[cur[w]]) = stream[cur[w]][1]
        /\ 1 \in 1..Len(stream[cur[w]])
    BY <1>1, HeadTailProperties, LenProperties
  <1>4. stream[cur[w]][1] = Taken(cur[w]) + 1
    BY <1>1, <1>3 DEF TaskInv
  <1> QED BY <1>1, <1>2, <1>3, <1>4 DEF RecvTask, Move, TypeOK, poolVars, callerVars

LEMMA RecvKeeps ==
  ASSUME NEW w \in Workers, TypeOK, CurOK, TaskInv, RecvTask(w) PROVE TaskInv'
  <1> DEFINE c == cur[w]
             n == Taken(c) + 1
  <1>1. /\ c \in Callers /\ stream[c] # <<>> /\ pc[w] = "recv"
        /\ \A d \in Callers : d # c => stream'[d] = stream[d]
        /\ Len(stream'[c]) = Len(stream[c]) - 1
        /\ \A i \in 1..Len(stream'[c]) : stream'[c][i] = stream[c][i + 1]
        /\ UNCHANGED <<cur, count, done>>
        /\ task'[w] = n /\ pc'[w] = "run"
        /\ \A v \in Workers : v # w => task'[v] = task[v] /\ pc'[v] = pc[v]
    <2>1. /\ task' = [task EXCEPT ![w] = n] /\ pc' = [pc EXCEPT ![w] = "run"]
          /\ task \in [Workers -> Nat] /\ DOMAIN pc = Workers
      BY RecvTakes DEF TypeOK
    <2>2. /\ task'[w] = n /\ pc'[w] = "run"
          /\ \A v \in Workers : v # w => task'[v] = task[v] /\ pc'[v] = pc[v]
      BY <2>1
    <2> QED BY <2>2, RecvTakes
  <1>2. Len(stream[c]) \in Nat /\ count[c] \in Nat /\ Taken(c) \in Nat /\ Len(stream'[c]) \in Nat
    <2>1. stream[c] \in Seq(Nat) /\ count[c] \in Nat BY <1>1 DEF TypeOK
    <2>2. Len(stream[c]) \in Nat /\ Len(stream[c]) # 0 BY <1>1, <2>1, EmptySeq, LenProperties
    <2> QED BY <1>1, <2>1, <2>2 DEF TaskInv
  <1> HIDE DEF c, n
  <1>3. /\ \A d \in Callers : d # c => Taken(d)' = Taken(d)
        /\ count'[c] - Len(stream'[c]) = n
    <2>1. n = Taken(c) + 1 /\ Taken(c) = count[c] - Len(stream[c]) BY DEF n, Taken
    <2> QED BY <1>1, <1>2, <2>1 DEF Taken
  <1>4. n = Taken(c) + 1 /\ n \in Nat BY <1>2 DEF n
  <1>5. ASSUME NEW d \in Callers
        PROVE  /\ count'[d] <= MaxTasks /\ Taken(d)' \in Nat
               /\ \A i \in 1..Len(stream'[d]) : stream'[d][i] = Taken(d)' + i
    <2>1. CASE d = c
      <3>1. \A i \in 1..Len(stream'[c]) : stream'[c][i] = Taken(c) + (i + 1)
        BY <1>1, <1>2 DEF TaskInv
      <3>2. Taken(d)' = n BY <1>3, <2>1 DEF Taken
      <3>3. \A i \in 1..Len(stream'[d]) : stream'[d][i] = Taken(d)' + i
        BY <2>1, <3>1, <3>2, <1>2, <1>4
      <3>4. count'[d] <= MaxTasks
        BY <1>1 DEF TaskInv
      <3> QED BY <3>2, <3>3, <3>4, <1>4
    <2>2. CASE d # c
      BY <2>2, <1>1, <1>3 DEF TaskInv
    <2> QED BY <2>1, <2>2
  <1>6. \A d \in Callers : Taken(d)' \in Nat /\ 1..Taken(d) \subseteq 1..Taken(d)'
    <2> SUFFICES ASSUME NEW d \in Callers PROVE Taken(d)' \in Nat /\ Taken(d) \in Nat /\ Taken(d) <= Taken(d)'
      OBVIOUS
    <2>1. CASE d = c BY <2>1, <1>3, <1>4, <1>2 DEF Taken
    <2>2. CASE d # c BY <2>2, <1>3 DEF TaskInv
    <2> QED BY <2>1, <2>2
  <1>7. \A t \in done : t \in Callers \X Nat /\ t[2] \in 1..Taken(t[1])
    BY DEF TaskInv, TypeOK
  <1>8. <<c, n>> \notin done
    BY <1>2, <1>4, <1>7
  <1>9. \A v \in Workers : v # w => Held(v)' = Held(v)
    BY <1>1 DEF Held
  <1>10. Held(w)' = <<c, n>>
    BY <1>1 DEF Held, c
  <1>11. \A v \in Workers : v # w /\ pc[v] = "run" => Held(v) # <<c, n>>
    <2> SUFFICES ASSUME NEW v \in Workers, pc[v] = "run", cur[v] = c, task[v] = n PROVE FALSE
      BY DEF Held
    <2>1. n \in 1..Taken(c) BY DEF TaskInv
    <2> QED BY <2>1, <1>2, <1>4
  <1>12. \A v \in Workers : pc'[v] = "run" => task'[v] \in 1..Taken(cur[v])' /\ Held(v)' \notin done'
    <2> SUFFICES ASSUME NEW v \in Workers, pc'[v] = "run"
                 PROVE  task'[v] \in 1..Taken(cur[v])' /\ Held(v)' \notin done'
      OBVIOUS
    <2>0. /\ cur'[v] = cur[v]
          /\ Taken(cur[v])' = count'[cur[v]] - Len(stream'[cur[v]])
      BY <1>1 DEF Taken
    <2>1. CASE v = w
      <3>1. Taken(cur[v])' = n BY <2>0, <2>1, <1>3 DEF c
      <3> QED BY <3>1, <2>1, <1>1, <1>4, <1>8, <1>10, <1>2
    <2>2. CASE v # w
      <3>1. pc[v] = "run" /\ cur[v] \in Callers /\ task[v] \in 1..Taken(cur[v]) /\ Held(v) \notin done
        BY <2>2, <1>1 DEF TaskInv, CurOK
      <3>2. 1..Taken(cur[v]) \subseteq 1..(count'[cur[v]] - Len(stream'[cur[v]]))
        BY <3>1, <1>6 DEF Taken
      <3> QED BY <2>0, <2>2, <3>1, <3>2, <1>1, <1>9
    <2> QED BY <2>1, <2>2
  <1>13. \A t \in done' : t[2] \in 1..Taken(t[1])'
    BY <1>1, <1>6, <1>7
  <1>14. \A u, v \in Workers : pc'[u] = "run" /\ pc'[v] = "run" /\ Held(u)' = Held(v)' => u = v
    BY <1>1, <1>9, <1>10, <1>11 DEF TaskInv
  <1>15. Running' = Running \cup {<<c, n>>}
    BY <1>1, <1>9, <1>10 DEF Running
  <1>16. \A d \in Callers : \A m \in 1..Taken(d)' : <<d, m>> \in Running' \cup done'
    <2> SUFFICES ASSUME NEW d \in Callers, NEW m \in 1..Taken(d)'
                 PROVE  <<d, m>> \in Running' \cup done'
      OBVIOUS
    <2>1. CASE d = c
      <3>1. m \in 1..Taken(c) \/ m = n BY <2>1, <1>2, <1>3, <1>4 DEF Taken
      <3> QED BY <2>1, <3>1, <1>1, <1>15 DEF TaskInv
    <2>2. CASE d # c BY <2>2, <1>1, <1>3, <1>15 DEF TaskInv
    <2> QED BY <2>1, <2>2
  <1> QED BY <1>5, <1>12, <1>13, <1>14, <1>16 DEF TaskInv

LEMMA RunKeeps ==
  ASSUME NEW w \in Workers, TypeOK, TaskInv, RunTask(w) PROVE TaskInv'
  <1>1. /\ pc[w] = "run" /\ done' = done \cup {Held(w)}
        /\ UNCHANGED <<stream, count>>
        /\ pc'[w] = "scan"
        /\ \A v \in Workers : v # w => /\ pc'[v] = pc[v] /\ cur'[v] = cur[v] /\ task'[v] = task[v]
    BY DEF RunTask, Move, Held, TypeOK, linkVars, callerVars
  <1>2. \A v \in Workers : v # w => Held(v)' = Held(v)
    BY <1>1 DEF Held
  <1>3. \A d : Taken(d)' = Taken(d)
    BY <1>1 DEF Taken
  <1>4. \A v \in Workers : pc'[v] = "run" => v # w /\ pc[v] = "run" /\ Held(v) # Held(w)
    BY <1>1 DEF TaskInv
  <1>5. \A v \in Workers : pc'[v] = "run" => task'[v] \in 1..Taken(cur[v])' /\ Held(v)' \notin done'
    <2> SUFFICES ASSUME NEW v \in Workers, pc'[v] = "run"
                 PROVE  task'[v] \in 1..Taken(cur[v])' /\ Held(v)' \notin done'
      OBVIOUS
    <2>1. v # w /\ pc[v] = "run" /\ Held(v) # Held(w) /\ Held(v) \notin done
          /\ task[v] \in 1..Taken(cur[v])
      BY <1>4 DEF TaskInv
    <2>2. Taken(cur[v])' = Taken(cur[v])
      BY <2>1, <1>1 DEF Taken
    <2> QED BY <2>1, <2>2, <1>1, <1>2
  <1>6. Held(w)[2] \in 1..Taken(Held(w)[1])
    BY <1>1 DEF TaskInv, Held
  <1>7. \A t \in done' : t[2] \in 1..Taken(t[1])'
    BY <1>1, <1>3, <1>6 DEF TaskInv
  <1>8. Running' \cup {Held(w)} = Running
    BY <1>1, <1>2, <1>4 DEF Running
  <1>9. \A d \in Callers : \A n \in 1..Taken(d)' : <<d, n>> \in Running' \cup done'
    BY <1>1, <1>3, <1>8 DEF TaskInv
  <1>10. \A u, v \in Workers : pc'[u] = "run" /\ pc'[v] = "run" /\ Held(u)' = Held(v)' => u = v
    BY <1>2, <1>4 DEF TaskInv
  <1>11. \A d \in Callers : /\ count'[d] <= MaxTasks
                            /\ Taken(d)' \in Nat
                            /\ \A i \in 1..Len(stream'[d]) : stream'[d][i] = Taken(d)' + i
    BY <1>1, <1>3 DEF TaskInv
  <1> QED BY <1>5, <1>7, <1>9, <1>10, <1>11 DEF TaskInv

LEMMA OwnerFrame == TypeOK /\ PhaseInv /\ OwnerStep => TaskFrame
  <1> SUFFICES ASSUME TypeOK, PhaseInv, OwnerStep PROVE TaskFrame
    OBVIOUS
  <1>1. ASSUME NEW w \in Workers, StartThread(w) PROVE TaskFrame
    BY <1>1 DEF StartThread, TaskFrame, TypeOK, PhaseInv, callerVars, linkVars
  <1>2. CASE StartRefused BY <1>2 DEF StartRefused, TaskFrame, callerVars, linkVars, workerVars
  <1>3. CASE StartServer BY <1>3 DEF StartServer, TaskFrame, callerVars, linkVars, workerVars
  <1>4. CASE StartEpoll BY <1>4 DEF StartEpoll, TaskFrame, callerVars, linkVars, workerVars
  <1>5. CASE StartWatch BY <1>5 DEF StartWatch, TaskFrame, callerVars, linkVars, workerVars
  <1>6. CASE StartReturns BY <1>6 DEF StartReturns, TaskFrame, callerVars, linkVars, workerVars
  <1>7. CASE CloseEpoll BY <1>7 DEF CloseEpoll, TaskFrame, callerVars, linkVars, workerVars
  <1>8. CASE CloseServer BY <1>8 DEF CloseServer, TaskFrame, callerVars, workerVars
  <1>9. CASE CloseThreads BY <1>9 DEF CloseThreads, TaskFrame, callerVars, linkVars, workerVars
  <1> QED BY <1>1, <1>2, <1>3, <1>4, <1>5, <1>6, <1>7, <1>8, <1>9 DEF OwnerStep

LEMMA CallerFrame ==
  ASSUME NEW c \in Callers, CallerStep(c) PROVE SendTask(c) \/ TaskFrame
  BY DEF CallerStep, Connect, SendRefused, SendBreaks, CallerExit,
         TaskFrame, callerVars, linkVars, workerVars

LEMMA WorkerFrame ==
  ASSUME NEW w \in Workers, TypeOK, WorkerStep(w)
  PROVE  RecvTask(w) \/ RunTask(w) \/ TaskFrame
  <1> USE DEF TypeOK, TaskFrame, callerVars, linkVars, workerVars, Dies, Move
  <1>1. CASE WaitEvents(w)
    <2>1. CASE Dies("overrun") BY <2>1
    <2>2. ASSUME NEW E \in SUBSET Ready, GetsEvents(w, E) PROVE TaskFrame
      BY <2>2 DEF GetsEvents
    <2> QED BY <1>1, <2>1, <2>2, WaitCases
  <1>2. CASE LoopEnds(w) BY <1>2 DEF LoopEnds
  <1>3. CASE ScanEnds(w) BY <1>3 DEF ScanEnds
  <1>4. CASE Link(w) BY <1>4 DEF Link
  <1>5. CASE ScanServer(w) BY <1>5 DEF ScanServer, TakeEvent
  <1>6. ASSUME NEW c \in Callers, ScanClient(w, c) PROVE TaskFrame
    <2>1. CASE Dies("client") BY <2>1
    <2>2. CASE TakeEvent(w, c, "recv") /\ pc[w] = "scan" BY <2>2 DEF TakeEvent
    <2> QED BY <1>6, <2>1, <2>2 DEF ScanClient
  <1>7. ASSUME NEW c \in Callers, Accept(w, c) PROVE TaskFrame
    BY <1>7 DEF Accept, ToScan
  <1>8. CASE RecvHangup(w) BY <1>8 DEF RecvHangup, ToScan
  <1>9. CASE Leave(w) BY <1>9 DEF Leave
  <1> QED BY <1>1, <1>2, <1>3, <1>4, <1>5, <1>6, <1>7, <1>8, <1>9 DEF WorkerStep

LEMMA TaskStep ==
  ASSUME TypeOK, PhaseInv, ConnInv, TaskInv, [Next]_vars PROVE TaskInv'
  <1>1. CASE UNCHANGED vars
    BY <1>1, FrameTask DEF vars, TaskFrame, callerVars, linkVars, workerVars
  <1>2. CASE OwnerStep BY <1>2, OwnerFrame, FrameTask
  <1>3. ASSUME NEW c \in Callers, CallerStep(c) PROVE TaskInv'
    BY <1>3, CallerFrame, FrameTask, SendKeeps
  <1>4. ASSUME NEW w \in Workers, WorkerStep(w) PROVE TaskInv'
    BY <1>4, WorkerFrame, FrameTask, RecvKeeps, RunKeeps DEF ConnInv
  <1> QED BY <1>1, <1>2, <1>3, <1>4 DEF Next

-----------------------------------------------------------------------------
LEMMA TypeStep ==
  ASSUME TypeOK, ConnInv, [Next]_vars PROVE TypeOK'
  <1>1. CASE UNCHANGED vars
    BY <1>1 DEF vars, poolVars, epollVars, callerVars, linkVars, workerVars, TypeOK
  <1>2. CASE OwnerStep BY <1>2, OwnerType
  <1>3. ASSUME NEW c \in Callers, CallerStep(c) PROVE TypeOK'
    BY <1>3, CallerType
  <1>4. ASSUME NEW w \in Workers, WorkerStep(w) PROVE TypeOK'
    BY <1>4, WorkerType DEF ConnInv
  <1> QED BY <1>1, <1>2, <1>3, <1>4 DEF Next

(***************************************************************************)
(* The invariant of the pool (ThreadPool.h:28-129), in all its parts: the  *)
(* phases of Start and Close, the connections, the tasks.                  *)
(***************************************************************************)
THEOREM PoolInvHolds == Spec => [](TypeOK /\ PoolInv)
  <1>1. Init => TypeOK /\ PoolInv
    BY TypeInit, PhaseInit, ConnInit, TaskInit DEF PoolInv
  <1>2. TypeOK /\ PoolInv /\ [Next]_vars => (TypeOK /\ PoolInv)'
    BY TypeStep, PhaseStep, ConnStep, TaskStep DEF PoolInv
  <1> QED BY <1>1, <1>2, PTL DEF Spec

(***************************************************************************)
(* Every variable keeps its type.                                          *)
(***************************************************************************)
THEOREM TypeCorrect == Spec => []TypeOK
  BY PoolInvHolds, PTL

(***************************************************************************)
(* Whatever the workers' interleaving, a task whose AddTask returned 0 is  *)
(* in its connection, with one worker, or done, and in one place only      *)
(* (ThreadPool.h:75-84, 109-121).                                          *)
(***************************************************************************)
THEOREM TasksAccountedHolds == Spec => []TasksAccounted
  <1>1. TypeOK /\ PoolInv => TasksAccounted
    <2> SUFFICES ASSUME TypeOK, PoolInv PROVE TasksAccounted
      OBVIOUS
    <2> USE DEF PoolInv
    <2>1. \A c \in Callers : /\ count[c] \in Nat /\ Len(stream[c]) \in Nat /\ count[c] <= MaxTasks
                             /\ Taken(c) = count[c] - Len(stream[c]) /\ Taken(c) \in Nat
      BY LenProperties DEF TypeOK, TaskInv, Taken
    <2>2. \A t \in Tasks : t \in Queued <=> t[2] \in (Taken(t[1]) + 1)..count[t[1]]
      <3> SUFFICES ASSUME NEW t \in Tasks
                   PROVE  t \in Queued <=> t[2] \in (Taken(t[1]) + 1)..count[t[1]]
        OBVIOUS
      <3>1. t[1] \in Callers /\ t[2] \in Nat BY DEF Tasks
      <3>2. t \in Queued <=> \E i \in 1..Len(stream[t[1]]) : stream[t[1]][i] = t[2]
        BY DEF Queued
      <3>3. \A i \in 1..Len(stream[t[1]]) : stream[t[1]][i] = Taken(t[1]) + i
        BY <3>1 DEF TaskInv
      <3>4. t \in Queued => t[2] \in (Taken(t[1]) + 1)..count[t[1]]
        BY <2>1, <3>1, <3>2, <3>3
      <3>5. ASSUME t[2] \in (Taken(t[1]) + 1)..count[t[1]] PROVE t \in Queued
        <4>1. t[2] - Taken(t[1]) \in 1..Len(stream[t[1]])
          BY <2>1, <3>1, <3>5
        <4>2. stream[t[1]][t[2] - Taken(t[1])] = Taken(t[1]) + (t[2] - Taken(t[1]))
          BY <3>3, <4>1
        <4>3. Taken(t[1]) + (t[2] - Taken(t[1])) = t[2]
          BY <2>1, <3>1
        <4> QED BY <3>2, <4>1, <4>2, <4>3
      <3> QED BY <3>4, <3>5
    <2>3. \A t \in Running \cup done : t \in Tasks /\ t[2] \in 1..Taken(t[1])
      <3>1. \A w \in Workers : pc[w] = "run" =>
              Held(w) = <<cur[w], task[w]>> /\ cur[w] \in Callers /\ task[w] \in 1..Taken(cur[w])
        BY DEF TaskInv, ConnInv, CurOK, Held
      <3>2. \A t \in done : t \in Callers \X Nat /\ t[2] \in 1..Taken(t[1])
        BY DEF TaskInv, TypeOK
      <3>3. \A c \in Callers : 1..Taken(c) \subseteq 1..MaxTasks
        BY <2>1, BoundsAssumption
      <3>4. \A t \in Running : t \in Tasks /\ t[2] \in 1..Taken(t[1])
        BY <3>1, <3>3 DEF Running, Tasks
      <3>5. \A t \in done : t \in Tasks /\ t[2] \in 1..Taken(t[1])
        BY <3>2, <3>3 DEF Tasks
      <3> QED BY <3>4, <3>5
    <2>4. \A t \in Tasks : t[2] \in 1..Taken(t[1]) => t \in Running \cup done
      BY DEF Tasks, TaskInv
    <2>5. Running \cap done = {}
      BY DEF TaskInv, Running
    <2>6. \A t \in Tasks : t[2] \in Nat /\ t[2] >= 1 /\ t[1] \in Callers
      BY BoundsAssumption DEF Tasks
    <2>7. \A t \in Tasks : t \in Sent <=> t \in Queued \/ t \in Running \cup done
      BY <2>1, <2>2, <2>3, <2>4, <2>6 DEF Sent
    <2>8. \A t \in Tasks : ~(t \in Queued /\ t \in Running \cup done)
      BY <2>1, <2>2, <2>3, <2>6
    <2>9. Queued \subseteq Tasks /\ Sent \subseteq Tasks
      BY DEF Queued, Sent
    <2>10. Queued \cup Running \cup done = Sent
      BY <2>3, <2>7, <2>9
    <2>11. Queued \cap Running = {} /\ Queued \cap done = {}
      BY <2>8, <2>9
    <2> QED BY <2>5, <2>10, <2>11 DEF TasksAccounted, TaskInv
  <1> QED BY <1>1, PoolInvHolds, PTL

-----------------------------------------------------------------------------
(* What ends the process. *)

LEMMA FaultStep ==
  ASSUME TypeOK, PoolInv, FaultCause, [Next]_vars PROVE FaultCause'
  <1> USE DEF PoolInv
  <1> SUFFICES ASSUME Next PROVE FaultCause'
    BY DEF vars, poolVars, callerVars, linkVars, FaultCause, Hangup, Closing
  <1>1. fault = "none" BY DEF Next
  <1>2. ASSUME fault' \in {"none", "overrun"} PROVE FaultCause'
    BY <1>2 DEF FaultCause
  <1>3. ASSUME Dies("server"), Closing PROVE FaultCause'
    BY <1>3 DEF FaultCause, Dies, poolVars, Closing
  <1>4. ASSUME Dies("thread"), Closing PROVE FaultCause'
    BY <1>4 DEF FaultCause, Dies, poolVars, Closing
  <1>5. ASSUME Dies("client"), NEW c \in Callers, Hangup(c), conn[c] = "freed" PROVE FaultCause'
    BY <1>5 DEF FaultCause, Dies, callerVars, linkVars, Hangup
  <1>6. CASE OwnerStep
    BY <1>1, <1>2, <1>6 DEF OwnerStep, StartRefused, StartServer, StartEpoll, StartWatch, StartThread,
                       StartReturns, CloseEpoll, CloseServer, CloseThreads
  <1>7. ASSUME NEW c \in Callers, CallerStep(c) PROVE FaultCause'
    <2>1. CASE SendBreaks(c)
      <3>1. Closing \/ MayFail
        BY <2>1 DEF SendBreaks, ConnInv, Hangup
      <3> QED BY <2>1, <3>1 DEF SendBreaks, FaultCause, poolVars, Closing
    <2>2. CASE ~SendBreaks(c)
      BY <1>1, <1>2, <1>7, <2>2 DEF CallerStep, Connect, SendTask, SendRefused, CallerExit
    <2> QED BY <2>1, <2>2
  <1>8. ASSUME NEW w \in Workers, WorkerStep(w) PROVE FaultCause'
    <2>1. m_server = "null" => Closing
      BY <1>8, WorkerMoves DEF PhaseInv
    <2>2. CASE WaitEvents(w) BY <1>1, <1>2, <2>2 DEF WaitEvents, Dies
    <2>3. CASE LoopEnds(w) BY <1>1, <1>2, <2>3 DEF LoopEnds
    <2>4. CASE ScanEnds(w) BY <1>1, <1>2, <2>4 DEF ScanEnds
    <2>5. CASE Link(w) BY <1>1, <1>2, <1>3, <2>1, <2>5 DEF Link
    <2>6. CASE ScanServer(w) BY <1>1, <1>2, <1>3, <2>1, <2>6 DEF ScanServer, TakeEvent
    <2>7. ASSUME NEW c \in Callers, ScanClient(w, c) PROVE FaultCause'
      <3>1. conn[c] = "freed" => Hangup(c)
        BY <2>7 DEF ScanClient, ConnInv, Touches
      <3> QED BY <1>1, <1>2, <1>5, <2>7, <3>1 DEF ScanClient, TakeEvent
    <2>8. ASSUME NEW c \in Callers, Accept(w, c) PROVE FaultCause'
      BY <1>1, <1>2, <1>3, <2>1, <2>8 DEF Accept
    <2>9. CASE RecvTask(w) BY <1>1, <1>2, <2>9 DEF RecvTask
    <2>10. CASE RecvHangup(w)
      <3>1. cur[w] \in Callers /\ Hangup(cur[w])
        BY <2>10 DEF RecvHangup, EndOfFile, ConnInv, CurOK
      <3> QED BY <1>1, <1>2, <1>5, <2>10, <3>1 DEF RecvHangup
    <2>11. CASE RunTask(w) BY <1>1, <1>2, <2>11 DEF RunTask
    <2>12. CASE Leave(w)
      BY <1>1, <1>2, <1>4, <2>12 DEF Leave, PhaseInv, Closing
    <2> QED BY <1>8, <2>2, <2>3, <2>4, <2>5, <2>6, <2>7, <2>8, <2>9, <2>10, <2>11, <2>12 DEF WorkerStep
  <1> QED BY <1>6, <1>7, <1>8 DEF Next

(***************************************************************************)
(* Without a caller that hung up, no client socket is used after it was    *)
(* deleted (ThreadPool.h:111-116); without Close, neither the server       *)
(* (ThreadPool.h:51-55) nor a thread object (56-60) is.                    *)
(***************************************************************************)
THEOREM FaultCauseHolds == Spec => []FaultCause
  <1>1. Init => FaultCause
    BY DEF Init, FaultCause
  <1>2. TypeOK /\ PoolInv /\ FaultCause /\ [Next]_vars => FaultCause'
    BY FaultStep
  <1> QED BY <1>1, <1>2, PoolInvHolds, PTL DEF Spec

-----------------------------------------------------------------------------
(* Refused callers. *)

RefusedInv ==
  \A c \in Callers :
    /\ client[c] \in {"fresh", "half"} => count[c] = 0 /\ stream[c] = <<>>
    /\ addRet[c] \in {-2, -4} => client[c] \in {"half", "gone"} /\ stream[c] = <<>>

LEMMA RefusedStep ==
  ASSUME TypeOK, PoolInv, RefusedInv, [Next]_vars
  PROVE  RefusedInv' /\ \A c \in Callers : addRet[c] \in {-2, -4} =>
           addRet'[c] \in {-2, -4} /\ stream'[c] = stream[c]
  <1> DEFINE Goal == RefusedInv' /\ \A c \in Callers : addRet[c] \in {-2, -4} =>
                       addRet'[c] \in {-2, -4} /\ stream'[c] = stream[c]
  <1> SUFFICES Goal
    OBVIOUS
  <1>1. ASSUME UNCHANGED <<client, addRet, count, stream>> PROVE Goal
    BY <1>1 DEF RefusedInv
  <1>2. CASE UNCHANGED vars BY <1>1, <1>2 DEF vars, callerVars, linkVars
  <1>3. CASE OwnerStep
    BY <1>1, <1>3 DEF OwnerStep, StartRefused, StartServer, StartEpoll, StartWatch, StartThread,
                  StartReturns, CloseEpoll, CloseServer, CloseThreads, callerVars, linkVars
  <1>4. ASSUME NEW c \in Callers, CallerStep(c) PROVE Goal
    <2>1. \A d \in Callers : d # c =>
            /\ client'[d] = client[d] /\ addRet'[d] = addRet[d]
            /\ count'[d] = count[d] /\ stream'[d] = stream[d]
      BY <1>4 DEF CallerStep, Connect, SendTask, SendRefused, SendBreaks, CallerExit,
                  callerVars, linkVars, TypeOK
    <2>2. CASE Connect(c)
      BY <2>1, <2>2 DEF Connect, RefusedInv, TypeOK
    <2>3. CASE SendTask(c)
      BY <2>1, <2>3 DEF SendTask, RefusedInv, TypeOK
    <2>4. CASE SendRefused(c)
      BY <2>1, <2>4 DEF SendRefused, RefusedInv, TypeOK, linkVars
    <2>5. CASE SendBreaks(c) BY <1>1, <2>5 DEF SendBreaks, callerVars, linkVars
    <2>6. CASE CallerExit(c)
      BY <2>1, <2>6 DEF CallerExit, RefusedInv, TypeOK, linkVars
    <2> QED BY <1>4, <2>2, <2>3, <2>4, <2>5, <2>6 DEF CallerStep
  <1>5. ASSUME NEW w \in Workers, WorkerStep(w) PROVE Goal
    <2>1. UNCHANGED <<client, addRet, count>>
      BY <1>5, WorkerMoves DEF callerVars, PoolInv
    <2>2. \A d \in Callers : stream[d] = <<>> => stream'[d] = <<>>
      <3>1. CASE RecvTask(w)
        BY <3>1, RecvTakes DEF PoolInv, ConnInv
      <3>2. CASE ~RecvTask(w)
        BY <1>5, <3>2, WorkerFrame DEF TaskFrame, RunTask, linkVars
      <3> QED BY <3>1, <3>2
    <2> QED BY <2>1, <2>2 DEF RefusedInv
  <1> QED BY <1>2, <1>3, <1>4, <1>5 DEF Next

LEMMA RefusedInvHolds == Spec => []RefusedInv
  <1>1. Init => RefusedInv
    BY DEF Init, RefusedInv
  <1>2. TypeOK /\ PoolInv /\ RefusedInv /\ [Next]_vars => RefusedInv'
    BY RefusedStep
  <1> QED BY <1>1, <1>2, PoolInvHolds, PTL DEF Spec

(* A refused caller gets no other answer, and sends nothing. *)
RefusedForGood ==
  [][\A c \in Callers : addRet[c] \in {-2, -4} =>
        addRet'[c] \in {-2, -4} /\ stream'[c] = stream[c]]_vars

(***************************************************************************)
(* A caller whose first AddTask came before the pool listened stays        *)
(* refused (ThreadPool.h:69-83): every later call returns -4, whatever     *)
(* becomes of the pool.                                                    *)
(***************************************************************************)
THEOREM RefusedForGoodHolds == Spec => RefusedForGood
  <1>1. TypeOK /\ PoolInv /\ RefusedInv /\ [Next]_vars =>
          [\A c \in Callers : addRet[c] \in {-2, -4} =>
             addRet'[c] \in {-2, -4} /\ stream'[c] = stream[c]]_vars
    BY RefusedStep
  <1> QED BY <1>1, RefusedInvHolds, PoolInvHolds, PTL DEF Spec, RefusedForGood

-----------------------------------------------------------------------------
(* The pool implements TaskQueue. *)

(* Who is refused: a step of another caller, of a worker or of the owner   *)
(* has no part in it.                                                      *)
LEMMA RefusedMoves ==
  ASSUME TypeOK, PoolInv, RefusedInv, NEW c \in Callers, CallerStep(c)
  PROVE  IF SendTask(c) THEN Refused' = Refused /\ c \notin Refused
         ELSE \/ Refused' = Refused
              \/ Refused' = Refused \cup {c} /\ count[c] = 0
  <1> USE DEF Refused, RefusedInv, TypeOK
  <1>1. CASE Connect(c)
    <2>1. c \notin Refused /\ count[c] = 0 /\ client[c] = "fresh" BY <1>1 DEF Connect
    <2>2. \A d \in Callers \ {c} : addRet'[d] = addRet[d] BY <1>1 DEF Connect
    <2>3. Refused' = Refused \/ Refused' = Refused \cup {c}
      <3>1. CASE addRet'[c] \in {-2, -4}
        <4>1. Refused' = Refused \cup {c} BY <2>2, <3>1
        <4> QED BY <4>1
      <3>2. CASE addRet'[c] \notin {-2, -4}
        <4>1. Refused' = Refused BY <2>1, <2>2, <3>2
        <4> QED BY <4>1
      <3> QED BY <3>1, <3>2
    <2>4. ~SendTask(c) BY <2>1 DEF SendTask
    <2> QED BY <2>1, <2>3, <2>4
  <1>2. CASE SendTask(c)
    <2>1. c \notin Refused BY <1>2 DEF SendTask
    <2>2. addRet'[c] = 0 /\ \A d \in Callers \ {c} : addRet'[d] = addRet[d]
      BY <1>2 DEF SendTask
    <2> QED BY <1>2, <2>1, <2>2
  <1>3. CASE SendRefused(c)
    <2>1. count[c] = 0 /\ client[c] = "half" BY <1>3 DEF SendRefused
    <2>2. addRet'[c] = -4 /\ \A d \in Callers \ {c} : addRet'[d] = addRet[d]
      BY <1>3 DEF SendRefused
    <2>3. Refused' = Refused \cup {c} BY <2>2
    <2>4. ~SendTask(c) BY <2>1 DEF SendTask
    <2> QED BY <2>1, <2>3, <2>4
  <1>4. CASE SendBreaks(c)
    <2>1. Refused' = Refused /\ UNCHANGED count BY <1>4 DEF SendBreaks, callerVars
    <2>2. ~SendTask(c) BY <2>1 DEF SendTask
    <2> QED BY <2>1, <2>2
  <1>5. CASE CallerExit(c)
    <2>1. Refused' = Refused /\ UNCHANGED count BY <1>5 DEF CallerExit
    <2>2. ~SendTask(c) BY <2>1 DEF SendTask
    <2> QED BY <2>1, <2>2
  <1> QED BY <1>1, <1>2, <1>3, <1>4, <1>5 DEF CallerStep

LEMMA RefusedStays ==
  ASSUME TypeOK, PoolInv,
         OwnerStep \/ (\E w \in Workers : WorkerStep(w)) \/ UNCHANGED vars
  PROVE  Refused' = Refused
  <1>1. UNCHANGED addRet
    <2>1. CASE OwnerStep
      BY <2>1 DEF OwnerStep, StartRefused, StartServer, StartEpoll, StartWatch, StartThread,
                  StartReturns, CloseEpoll, CloseServer, CloseThreads, callerVars
    <2>2. ASSUME NEW w \in Workers, WorkerStep(w) PROVE UNCHANGED addRet
      BY <2>2, WorkerMoves DEF callerVars, PoolInv
    <2>3. CASE UNCHANGED vars BY <2>3 DEF vars, callerVars
    <2> QED BY <2>1, <2>2, <2>3
  <1> QED BY <1>1 DEF Refused

LEMMA QueueStep ==
  ASSUME TypeOK, PoolInv, RefusedInv, [Next]_vars PROVE [TQ!Next]_(TQ!vars)
  <1> USE DEF PoolInv
  <1>1. ASSUME TaskFrame, Refused' = Refused PROVE UNCHANGED TQ!vars
    BY <1>1, FrameRunning DEF TaskFrame, TQ!vars
  <1>2. CASE UNCHANGED vars
    BY <1>1, <1>2, RefusedStays DEF vars, TaskFrame, callerVars, linkVars, workerVars
  <1>3. CASE OwnerStep BY <1>1, <1>3, OwnerFrame, RefusedStays
  <1>4. ASSUME NEW c \in Callers, SendTask(c), CallerStep(c) PROVE TQ!Next
    <2>1. Running' = Running
      BY <1>4 DEF SendTask, Running, Held, workerVars
    <2>2. Refused' = Refused /\ c \notin Refused BY <1>4, RefusedMoves
    <2>3. TQ!Add(c)
      BY <1>4, <2>1, <2>2 DEF SendTask, TQ!Add, workerVars
    <2> QED BY <2>3 DEF TQ!Next
  <1>5. ASSUME NEW w \in Workers, RecvTask(w), WorkerStep(w) PROVE TQ!Next
    <2> DEFINE c == cur[w]
               t == <<c, Head(stream[c])>>
    <2>1. /\ c \in Callers /\ stream[c] # <<>> /\ pc[w] = "recv"
          /\ Head(stream[c]) = Taken(c) + 1
          /\ UNCHANGED <<cur, count, done>>
          /\ task' = [task EXCEPT ![w] = Taken(c) + 1] /\ pc' = [pc EXCEPT ![w] = "run"]
      BY <1>5, RecvTakes DEF ConnInv
    <2>2. Taken(c) \in Nat BY <2>1 DEF TaskInv
    <2> HIDE DEF c
    <2>3. /\ task'[w] = Head(stream[c]) /\ pc'[w] = "run"
          /\ \A v \in Workers : v # w => task'[v] = task[v] /\ pc'[v] = pc[v]
      BY <2>1, <2>2 DEF TypeOK
    <2>4. \A v \in Workers : v # w => Held(v)' = Held(v)
      BY <2>1, <2>3 DEF Held
    <2>5. Held(w)' = t
      BY <2>1, <2>3 DEF Held, c
    <2>6. Running' = Running \cup {t}
      BY <2>1, <2>3, <2>4, <2>5 DEF Running
    <2>7. t \notin done
      BY <2>1, <2>2 DEF TaskInv
    <2>8. t \notin Running
      <3> SUFFICES ASSUME NEW v \in Workers, pc[v] = "run", cur[v] = c, task[v] = Head(stream[c])
                   PROVE  FALSE
        BY DEF Running, Held
      <3>1. Taken(c) + 1 \in 1..Taken(c) BY <2>1 DEF TaskInv
      <3> QED BY <3>1, <2>2
    <2>9. stream' = [stream EXCEPT ![c] = Tail(@)]
      BY <1>5 DEF RecvTask, Rest, c
    <2>10. Refused' = Refused BY <1>5, RefusedStays
    <2>11. TQ!Take(c)
      BY <2>1, <2>6, <2>7, <2>8, <2>9, <2>10 DEF TQ!Take
    <2> QED BY <2>1, <2>11 DEF TQ!Next
  <1>6. ASSUME NEW w \in Workers, RunTask(w), WorkerStep(w) PROVE TQ!Next
    <2>1. /\ pc[w] = "run" /\ done' = done \cup {Held(w)} /\ UNCHANGED <<stream, count>>
          /\ pc'[w] = "scan"
          /\ \A v \in Workers : v # w => /\ pc'[v] = pc[v] /\ cur'[v] = cur[v] /\ task'[v] = task[v]
      BY <1>6 DEF RunTask, Move, Held, TypeOK, linkVars, callerVars
    <2>2. Held(w) \in Running
      BY <2>1 DEF Running
    <2>3. \A v \in Workers : v # w => Held(v)' = Held(v)
      BY <2>1 DEF Held
    <2>4. \A v \in Workers : v # w /\ pc[v] = "run" => Held(v) # Held(w)
      BY <2>1 DEF TaskInv
    <2>5. Running' = Running \ {Held(w)}
      BY <2>1, <2>3, <2>4 DEF Running
    <2>6. Refused' = Refused BY <1>6, RefusedStays
    <2>7. TQ!Finish(Held(w))
      BY <2>1, <2>2, <2>5, <2>6 DEF TQ!Finish
    <2> QED BY <2>2, <2>7 DEF TQ!Next
  <1>7. ASSUME NEW c \in Callers, CallerStep(c) PROVE [TQ!Next]_(TQ!vars)
    <2>1. CASE SendTask(c) BY <1>4, <1>7, <2>1
    <2>2. CASE ~SendTask(c) /\ Refused' = Refused BY <1>1, <1>7, <2>2, CallerFrame
    <2>3. CASE ~SendTask(c) /\ Refused' = Refused \cup {c} /\ count[c] = 0
      <3>1. TQ!Refuse(c)
        BY <1>7, <2>3, CallerFrame, FrameRunning DEF TaskFrame, TQ!Refuse
      <3> QED BY <3>1 DEF TQ!Next
    <2> QED BY <1>7, <2>1, <2>2, <2>3, RefusedMoves
  <1>8. ASSUME NEW w \in Workers, WorkerStep(w) PROVE [TQ!Next]_(TQ!vars)
    BY <1>1, <1>5, <1>6, <1>8, WorkerFrame, RefusedStays
  <1> QED BY <1>2, <1>3, <1>7, <1>8 DEF Next

(***************************************************************************)
(* Every behaviour of the pool (ThreadPool.h:63-129) is, seen from its     *)
(* callers, a behaviour of TaskQueue: one queue each, served in order,     *)
(* every task called at most once, and who is refused is so for good.       *)
(***************************************************************************)
THEOREM PoolRefinesQueue == Spec => ImplementsTaskQueue
  <1>1. Init => TQ!Init
    BY DEF Init, TQ!Init, Running, Refused
  <1>2. TypeOK /\ PoolInv /\ RefusedInv /\ [Next]_vars => [TQ!Next]_(TQ!vars)
    BY QueueStep
  <1> QED BY <1>1, <1>2, PoolInvHolds, RefusedInvHolds, PTL DEF Spec, ImplementsTaskQueue, TQ!Spec

-----------------------------------------------------------------------------
(* Epoll.h as written. *)

NoEpollInv ==
  /\ owner \notin {"add", "spawn"}
  /\ m_epoll = -1
  /\ startRet \in {1, -1, -4, -5}
  /\ \A w \in Workers : m_threads[w] = "none"
  /\ done = {}

LEMMA NoEpollStep ==
  ASSUME "epoll_create" \notin Fixes, TypeOK, PoolInv, NoEpollInv, [Next]_vars
  PROVE  NoEpollInv'
  <1>1. ASSUME UNCHANGED <<owner, m_epoll, startRet, m_threads, done>> PROVE NoEpollInv'
    BY <1>1 DEF NoEpollInv
  <1>2. CASE UNCHANGED vars BY <1>1, <1>2 DEF vars, poolVars, epollVars, workerVars
  <1>3. CASE OwnerStep
    <2>1. CASE StartRefused BY <2>1 DEF StartRefused, NoEpollInv, epollVars, workerVars
    <2>2. CASE StartServer BY <2>2 DEF StartServer, NoEpollInv, epollVars, workerVars
    <2>3. CASE StartEpoll
      <3>1. \A r \in CreateResults(m_epoll, MayFail) : r[1] = -1 /\ r[2] = -1
        BY DEF CreateResults, CreateRefused, NoEpollInv
      <3> QED BY <2>3, <3>1 DEF StartEpoll, NoEpollInv, workerVars
    <2>4. CASE CloseEpoll BY <2>4 DEF CloseEpoll, NoEpollInv, workerVars
    <2>5. CASE CloseServer BY <2>5 DEF CloseServer, NoEpollInv, epollVars, workerVars
    <2>6. CASE CloseThreads BY <2>6 DEF CloseThreads, NoEpollInv, TypeOK, epollVars, workerVars
    <2> QED BY <1>3, <2>1, <2>2, <2>3, <2>4, <2>5, <2>6
            DEF OwnerStep, StartWatch, StartThread, StartReturns, NoEpollInv
  <1>4. ASSUME NEW c \in Callers, CallerStep(c) PROVE NoEpollInv'
    BY <1>1, <1>4, CallerKeeps DEF poolVars, epollVars, workerVars
  <1>5. ASSUME NEW w \in Workers, WorkerStep(w) PROVE NoEpollInv'
    BY <1>5, WorkerMoves DEF PoolInv, PhaseInv, NoEpollInv
  <1> QED BY <1>2, <1>3, <1>4, <1>5 DEF Next

(***************************************************************************)
(* With the guard of Epoll.h:64 as written, Start never succeeds and no    *)
(* worker ever runs, while AddTask (ThreadPool.h:64-85) goes on accepting: *)
(* whatever was sent stays in the sockets.                                 *)
(***************************************************************************)
THEOREM AsWrittenNothingRuns ==
  ASSUME "epoll_create" \notin Fixes
  PROVE  Spec => []StartsWithoutWorkers
  <1>1. Init => NoEpollInv
    BY DEF Init, NoEpollInv
  <1>2. TypeOK /\ PoolInv /\ NoEpollInv /\ [Next]_vars => NoEpollInv'
    BY NoEpollStep
  <1>3. TypeOK /\ PoolInv /\ NoEpollInv /\ TasksAccounted => StartsWithoutWorkers
    <2> SUFFICES ASSUME TypeOK, PoolInv, NoEpollInv, TasksAccounted PROVE StartsWithoutWorkers
      OBVIOUS
    <2>1. \A w \in Workers : pc[w] = "off"
      BY DEF PoolInv, PhaseInv, NoEpollInv
    <2>2. Running = {}
      <3>1. {v \in Workers : pc[v] = "run"} = {} BY <2>1
      <3> QED BY <3>1 DEF Running
    <2>3. Queued = Sent BY <2>2 DEF TasksAccounted, NoEpollInv
    <2> QED BY <2>1, <2>3 DEF StartsWithoutWorkers, NoEpollInv
  <1> QED BY <1>1, <1>2, <1>3, PoolInvHolds, TasksAccountedHolds, PTL DEF Spec

NoEventsInv ==
  /\ done = {}
  /\ \A w \in Workers : pc[w] \in {"off", "loop", "leave", "exited"}

LEMMA NoEventsStep ==
  ASSUME "events_resize" \notin Fixes, TypeOK, PoolInv, NoEventsInv, [Next]_vars
  PROVE  NoEventsInv'
  <1> USE DEF NoEventsInv, TypeOK, poolVars, epollVars, workerVars
  <1>1. ASSUME UNCHANGED <<done, pc>> PROVE NoEventsInv'
    BY <1>1
  <1>2. CASE UNCHANGED vars BY <1>1, <1>2 DEF vars
  <1>3. CASE OwnerStep
    BY <1>1, <1>3 DEF OwnerStep, StartRefused, StartServer, StartEpoll, StartWatch, StartThread,
                      StartReturns, CloseEpoll, CloseServer, CloseThreads
  <1>4. ASSUME NEW c \in Callers, CallerStep(c) PROVE NoEventsInv'
    BY <1>1, <1>4, CallerKeeps
  <1>5. ASSUME NEW w \in Workers, WorkerStep(w) PROVE NoEventsInv'
    <2>1. CASE WaitEvents(w)
      <3>1. PICK E \in WaitResults(Ready) :
              (CopyOverruns(E) /\ Dies("overrun")) \/ ~CopyOverruns(E)
        BY <2>1 DEF WaitEvents
      <3>2. \A D \in WaitResults(Ready) : CopyOverruns(D)
        <4> SUFFICES ASSUME NEW D \in WaitResults(Ready), D = {} PROVE FALSE
          BY DEF CopyOverruns
        <4>1. Ready # {} BY <2>1 DEF WaitEvents
        <4>2. Cardinality(D) = 0 BY FS_EmptySet
        <4>3. D = Ready \/ Cardinality(D) = EVENT_SIZE BY DEF WaitResults
        <4> QED BY <4>1, <4>2, <4>3 DEF EVENT_SIZE
      <3> QED BY <1>1, <3>1, <3>2 DEF Dies
    <2>2. CASE LoopEnds(w) BY <2>2 DEF LoopEnds, Move
    <2>3. CASE Leave(w) BY <1>1, <2>3 DEF Leave, Move, Dies
    <2> QED
      BY <1>5, <2>1, <2>2, <2>3
         DEF WorkerStep, ScanEnds, Link, ScanServer, ScanClient, Accept, RecvTask, RecvHangup, RunTask
  <1> QED BY <1>2, <1>3, <1>4, <1>5 DEF Next

(***************************************************************************)
(* As long as one of the two lines of Epoll.h is as written - the guard of *)
(* Create (line 64) or the resize of the events (line 79) - no task is     *)
(* ever taken by a worker, whoever calls AddTask.                          *)
(***************************************************************************)
THEOREM EachLineStopsThePool ==
  ASSUME ~({"epoll_create", "events_resize"} \subseteq Fixes)
  PROVE  Spec => [](done = {} /\ Running = {})
  <1>1. CASE "epoll_create" \notin Fixes
    <2>1. StartsWithoutWorkers => done = {} /\ Running = {}
      <3> SUFFICES ASSUME StartsWithoutWorkers PROVE done = {} /\ Running = {}
        OBVIOUS
      <3>1. {v \in Workers : pc[v] = "run"} = {} BY DEF StartsWithoutWorkers
      <3> QED BY <3>1 DEF StartsWithoutWorkers, Running
    <2>2. Spec => []StartsWithoutWorkers BY <1>1, AsWrittenNothingRuns
    <2> QED BY <2>1, <2>2, PTL
  <1>2. CASE "events_resize" \notin Fixes
    <2>1. Init => NoEventsInv BY DEF Init, NoEventsInv
    <2>2. TypeOK /\ PoolInv /\ NoEventsInv /\ [Next]_vars => NoEventsInv' BY <1>2, NoEventsStep
    <2>3. NoEventsInv => done = {} /\ Running = {}
      <3> SUFFICES ASSUME NoEventsInv PROVE done = {} /\ Running = {}
        OBVIOUS
      <3>1. {v \in Workers : pc[v] = "run"} = {} BY DEF NoEventsInv
      <3> QED BY <3>1 DEF NoEventsInv, Running
    <2> QED BY <2>1, <2>2, <2>3, PoolInvHolds, PTL DEF Spec
  <1> QED BY <1>1, <1>2

-----------------------------------------------------------------------------
(* One worker. *)

LEMMA AloneOwner ==
  ASSUME TypeOK, PoolInv, AloneInv, OwnerStep PROVE AloneInv'
  <1> SUFFICES ASSUME fault' = "none", ~Closing' PROVE AloneInv'
    BY DEF AloneInv
  <1>1. ASSUME UNCHANGED <<fault, client, conn, stream, pc, events, cur>>, ~Closing PROVE AloneInv'
    BY <1>1 DEF AloneInv, Readable, Hangup, Pending, Closing
  <1>2. CASE StartRefused BY <1>1, <1>2 DEF StartRefused, Closing, callerVars, linkVars, workerVars
  <1>3. CASE StartServer BY <1>1, <1>3 DEF StartServer, Closing, callerVars, linkVars, workerVars
  <1>4. CASE StartEpoll BY <1>1, <1>4 DEF StartEpoll, Closing, callerVars, linkVars, workerVars
  <1>5. CASE StartWatch BY <1>1, <1>5 DEF StartWatch, Closing, callerVars, linkVars, workerVars
  <1>6. CASE StartReturns BY <1>1, <1>6 DEF StartReturns, Closing, callerVars, linkVars, workerVars
  <1>7. ASSUME NEW v \in Workers, StartThread(v) PROVE AloneInv'
    <2>1. UNCHANGED <<fault, client, conn, stream, events, cur>> /\ ~Closing
      BY <1>7 DEF StartThread, Closing, callerVars, linkVars
    <2>2. \A u \in Workers : pc'[u] = pc[u] \/ pc'[u] = "loop"
      BY <1>7 DEF StartThread, TypeOK
    <2> QED BY <2>1, <2>2 DEF AloneInv, Readable, Hangup, Pending
  <1>8. CASE CloseEpoll \/ CloseServer \/ CloseThreads
    BY <1>8 DEF CloseEpoll, CloseServer, CloseThreads, Closing
  <1> QED BY <1>2, <1>3, <1>4, <1>5, <1>6, <1>7, <1>8 DEF OwnerStep

LEMMA AloneCaller ==
  ASSUME NEW c \in Callers, TypeOK, PoolInv, AloneInv, CallerStep(c), fault = "none"
  PROVE  AloneInv'
  <1> SUFFICES ASSUME fault' = "none", ~Closing' PROVE AloneInv'
    BY DEF AloneInv
  <1>1. UNCHANGED <<pc, events, cur>> /\ ~Closing
    BY CallerKeeps DEF poolVars, workerVars, Closing
  <1>2. \A d \in Callers : (conn[d] = "live" => conn'[d] = "live")
                           /\ (conn[d] = "pending" => conn'[d] = "pending")
    BY DEF CallerStep, Connect, SendTask, SendRefused, SendBreaks, CallerExit, linkVars,
           TypeOK, PoolInv, ConnInv
  <1>3. Pending # {} => Pending' # {}
    BY <1>2 DEF Pending
  <1>4. \A d \in Callers : Readable(d) => Readable(d)'
    <2>1. \A d \in Callers : Hangup(d) => Hangup(d)'
      BY DEF CallerStep, Connect, SendTask, SendRefused, SendBreaks, CallerExit, callerVars,
             TypeOK, Hangup
    <2>2. \A d \in Callers : stream[d] # <<>> => stream'[d] # <<>>
      <3>1. CASE SendTask(c)
        <4>1. \A d \in Callers : stream'[d] = IF d = c THEN Append(stream[c], count[c] + 1) ELSE stream[d]
          BY <3>1 DEF SendTask, TypeOK
        <4>2. Append(stream[c], count[c] + 1) # <<>>
          <5>1. stream[c] \in Seq(Nat) /\ count[c] + 1 \in Nat BY DEF TypeOK
          <5> QED BY <5>1, AppendProperties
        <4> QED BY <4>1, <4>2
      <3>2. CASE ~SendTask(c)
        BY <3>2 DEF CallerStep, Connect, SendRefused, SendBreaks, CallerExit, linkVars
      <3> QED BY <3>1, <3>2
    <2> QED BY <2>1, <2>2 DEF Readable
  <1>5. \A v \in Workers : pc[v] = "recv" => cur[v] \in Callers
    BY DEF PoolInv, ConnInv, CurOK
  <1>6. \A v \in Workers : pc[v] = "recv" => conn'[cur[v]] = "live" /\ Readable(cur[v])'
    <2> SUFFICES ASSUME NEW v \in Workers, pc[v] = "recv"
                 PROVE  conn'[cur[v]] = "live" /\ Readable(cur[v])'
      OBVIOUS
    <2>1. conn[cur[v]] = "live" /\ Readable(cur[v]) /\ cur[v] \in Callers /\ cur'[v] = cur[v]
      BY <1>1, <1>5 DEF AloneInv
    <2> DEFINE d == cur[v]
    <2>2. d \in Callers /\ conn'[d] = "live"
      BY <2>1, <1>2
    <2>3. stream'[d] # <<>> \/ client'[d] = "gone"
      BY <2>1, <1>4 DEF Readable, Hangup
    <2>4. cur'[v] = d BY <2>1
    <2> QED BY <2>2, <2>3, <2>4 DEF Readable, Hangup
  <1>7. \A v \in Workers : pc'[v] = "recv" => conn'[cur'[v]] = "live" /\ Readable(cur[v])'
    BY <1>1, <1>6
  <1> QED BY <1>1, <1>2, <1>3, <1>4, <1>7 DEF AloneInv

LEMMA AloneWorker ==
  ASSUME NEW w, Workers = {w}, TypeOK, PoolInv, AloneInv, WorkerStep(w), fault = "none"
  PROVE  AloneInv'
  <1> USE DEF PoolInv
  <1> SUFFICES ASSUME fault' = "none", ~Closing'
               PROVE  /\ Server \in events'[w] \/ pc'[w] \in {"link", "accept"} => Pending' # {}
                      /\ pc'[w] \in {"link", "accept"} => Server \notin events'[w]
                      /\ \A c \in events'[w] \cap Callers : conn'[c] = "live" /\ Readable(c)'
                      /\ pc'[w] = "recv" => conn'[cur'[w]] = "live" /\ Readable(cur[w])'
                      /\ pc'[w] \in {"recv", "run"} => cur'[w] \notin events'[w]
    BY DEF AloneInv, Closing
  <1> w \in Workers OBVIOUS
  <1>1. UNCHANGED <<client, owner>> /\ ~Closing
    BY WorkerMoves DEF poolVars, callerVars, Closing
  <1>2. /\ Server \in events[w] \/ pc[w] \in {"link", "accept"} => Pending # {}
        /\ pc[w] \in {"link", "accept"} => Server \notin events[w]
        /\ \A c \in events[w] \cap Callers : conn[c] = "live" /\ Readable(c)
        /\ pc[w] = "recv" => conn[cur[w]] = "live" /\ Readable(cur[w])
        /\ pc[w] \in {"recv", "run"} => cur[w] \notin events[w]
    BY <1>1 DEF AloneInv
  <1>3. \A what : what # "none" => ~Dies(what)
    BY DEF Dies
  <1> USE DEF Readable, Hangup, Pending, Move
  <1>4. CASE WaitEvents(w)
    <2>1. PICK E \in SUBSET Ready : GetsEvents(w, E)
      BY <1>3, <1>4, WaitCases
    <2>2. pc'[w] = "scan" /\ events'[w] = E /\ UNCHANGED <<conn, stream>>
      BY <2>1 DEF GetsEvents, TypeOK, linkVars
    <2>3. \A c \in E \cap Callers : conn[c] = "live" /\ Readable(c)
      BY CallersAssumption DEF Ready, ConnInv
    <2>4. Server \in E => Pending # {}
      BY CallersAssumption DEF Ready
    <2> QED BY <1>1, <2>2, <2>3, <2>4
  <1>5. CASE LoopEnds(w) \/ ScanEnds(w) \/ Leave(w)
    BY <1>1, <1>2, <1>3, <1>5 DEF LoopEnds, ScanEnds, Leave, linkVars, TypeOK
  <1>6. CASE Link(w)
    BY <1>1, <1>2, <1>3, <1>6 DEF Link, linkVars, TypeOK
  <1>7. CASE ScanServer(w)
    <2>1. Server \in events[w] /\ TakeEvent(w, Server, "link")
      BY <1>3, <1>7 DEF ScanServer
    <2>2. pc'[w] = "link" /\ events'[w] = events[w] \ {Server} /\ UNCHANGED <<conn, stream>>
      BY <2>1 DEF TakeEvent, TypeOK, linkVars
    <2> QED BY <1>1, <1>2, <2>1, <2>2
  <1>8. ASSUME NEW c \in Callers, ScanClient(w, c) PROVE AloneInv'
    <2>1. c \in events[w] /\ TakeEvent(w, c, "recv")
      BY <1>3, <1>8 DEF ScanClient
    <2>2. /\ pc'[w] = "recv" /\ events'[w] = events[w] \ {c} /\ cur'[w] = c
          /\ UNCHANGED <<conn, stream>>
      BY <2>1 DEF TakeEvent, TypeOK, linkVars
    <2> QED BY <1>1, <1>2, <2>1, <2>2 DEF AloneInv
  <1>9. ASSUME NEW c \in Callers, Accept(w, c) PROVE AloneInv'
    <2>1. /\ conn[c] = "pending" /\ pc[w] = "accept" /\ ToScan(w) /\ stream' = stream
          /\ \A d \in Callers : d # c => conn'[d] = conn[d]
      BY <1>3, <1>9 DEF Accept, TypeOK
    <2>2. pc'[w] = "scan" /\ events'[w] = events[w]
      BY <2>1 DEF ToScan, TypeOK
    <2> QED BY <1>1, <1>2, <2>1, <2>2 DEF AloneInv
  <1>10. CASE RecvTask(w)
    <2>1. /\ pc'[w] = "run" /\ UNCHANGED <<conn, events, cur>> /\ pc[w] = "recv"
          /\ \A d \in Callers : d # cur[w] => stream'[d] = stream[d]
      BY <1>10 DEF RecvTask, TypeOK
    <2> QED BY <1>1, <1>2, <2>1
  <1>11. CASE RecvHangup(w)
    <2>1. /\ pc[w] = "recv" /\ ToScan(w) /\ stream' = stream
          /\ \A d \in Callers : d # cur[w] => conn'[d] = conn[d]
          /\ conn[cur[w]] = "live" /\ cur[w] \in Callers
      BY <1>2, <1>3, <1>11 DEF RecvHangup, TypeOK, ConnInv, CurOK
    <2>2. pc'[w] = "scan" /\ events'[w] = events[w]
      BY <2>1 DEF ToScan, TypeOK
    <2>3. \A d \in Callers : conn[d] = "pending" => conn'[d] = "pending"
      BY <2>1
    <2> QED BY <1>1, <1>2, <2>1, <2>2, <2>3
  <1>12. CASE RunTask(w)
    BY <1>1, <1>2, <1>12 DEF RunTask, linkVars, TypeOK
  <1> QED BY <1>4, <1>5, <1>6, <1>7, <1>8, <1>9, <1>10, <1>11, <1>12 DEF WorkerStep, AloneInv

(***************************************************************************)
(* A pool of one worker never waits in accept or in read for something     *)
(* that did not happen, and never holds an event of a deleted socket: the  *)
(* blocking calls of ThreadPool.h:98 and 111 and the deletion at 114 are   *)
(* safe as long as nobody else consumes the same events.                   *)
(***************************************************************************)
THEOREM AloneNeverBlocksHolds ==
  ASSUME NEW w, Workers = {w}
  PROVE  Spec => []AloneNeverBlocks
  <1>1. Init => AloneInv
    BY DEF Init, AloneInv
  <1>2. TypeOK /\ PoolInv /\ AloneInv /\ [Next]_vars => AloneInv'
    <2> SUFFICES ASSUME TypeOK, PoolInv, AloneInv, [Next]_vars PROVE AloneInv'
      OBVIOUS
    <2>1. CASE UNCHANGED vars
      BY <2>1 DEF vars, poolVars, epollVars, callerVars, linkVars, workerVars,
                  AloneInv, Readable, Hangup, Pending, Closing
    <2>2. CASE Next
      BY <2>2, AloneOwner, AloneCaller, AloneWorker DEF Next
    <2> QED BY <2>1, <2>2
  <1>3. AloneInv => AloneNeverBlocks
    BY DEF AloneInv, AloneNeverBlocks
  <1> QED BY <1>1, <1>2, <1>3, PoolInvHolds, PTL DEF Spec
=============================================================================

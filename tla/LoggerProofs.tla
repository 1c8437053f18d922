---------------------------- MODULE LoggerProofs ----------------------------
(***************************************************************************)
(* What holds of the log server for any number of tracers, any backlog,    *)
(* any size of a connection and any number of lines, with and without each *)
(* repair.                                                                 *)
(***************************************************************************)
EXTENDS Logger, SequenceTheorems, FiniteSetTheorems, TLAPS

(***************************************************************************)
(* The inductive invariant.  Phases ties the thread to where the owner is  *)
(* in Start and Close; Events says what the thread may hold of the events  *)
(* of its last wait; Clients follows a tracer's connection; Numbered gives *)
(* the lines on their way their numbers.                                   *)
(***************************************************************************)
Starting == owner \in {"file", "epoll", "server", "add", "thread"}

Phases ==
  /\ Starting => pc = "off" /\ startRet = 1
  /\ owner \in {"server", "add", "thread"} => m_epoll # -1
  /\ owner \in {"add", "thread"} => m_server = "bound"
  /\ owner = "serve" /\ pc # "off" => m_server = "bound" /\ m_epoll # -1
  /\ pc \notin {"off", "exited"} => m_thread = 1
  /\ pc \in {"scan", "link", "write"} => "thread_valid" \in LogFixes
  /\ "thread_valid" \notin LogFixes => \A t \in Tracers : conn[t] # "live"

Events ==
  /\ pc \in {"off", "entry", "loop", "leave"} => events = {}
  /\ pc = "link" => Server \notin events
  /\ fault = "none" /\ pc # "exited" =>
       \A t \in Tracers : t \in watched \/ t \in events => conn[t] = "live"
  /\ fault = "none" /\ ~Closing
       /\ (pc = "link" \/ (pc \in {"scan", "write"} /\ Server \in events)) =>
         \E t \in Tracers : conn[t] = "pending"

Unread(t) == Len(stream[t]) = accepted[t]

Excused == Closing \/ fault # "none" \/ startRet = -6

ClientOf(t) ==
  /\ client[t] \in {"fresh", "half"} => accepted[t] = 0 /\ conn[t] = "none"
  /\ accepted[t] <= said[t] /\ Len(stream[t]) <= accepted[t]
  /\ conn[t] \in {"none", "pending"} => Unread(t)
  /\ client[t] = "linked" /\ conn[t] = "freed" => Excused \/ Unread(t)
  /\ t \in broken => client[t] = "linked" /\ conn[t] = "freed"

Clients == \A t \in Tracers : ClientOf(t)

Before(t) == said[t] - Len(stream[t])    \* the last line that was read

NumberedOf(t) ==
  /\ \A j \in 1..Len(stream[t]) : stream[t][j] = Before(t) + j
  /\ \A i \in 1..Len(Read) : Read[i][1] = t =>
       said[t] - accepted[t] < Read[i][2] /\ Read[i][2] <= Before(t)
  /\ \A i, j \in 1..Len(Read) :
       i < j /\ Read[i][1] = t /\ Read[j][1] = t => Read[i][2] < Read[j][2]
  /\ owner \notin {"exit", "gone"} =>
       \A n \in (said[t] - accepted[t] + 1)..Before(t) :
         \E i \in 1..Len(Read) : Read[i] = <<t, n>>

Numbered ==
  /\ pc # "write" => hand = <<>>
  /\ \A t \in Tracers : NumberedOf(t)

LogInv == TypeOK /\ Phases /\ Events /\ Clients /\ Numbered

LEMMA InitInv == Init => LogInv
  <1> SUFFICES ASSUME Init PROVE LogInv
    OBVIOUS
  <1> USE LimitsAssumption DEF Init
  <1>1. TypeOK BY DEF TypeOK
  <1>2. Phases /\ Events BY DEF Phases, Events, Starting
  <1>3. Clients BY DEF Clients, ClientOf, Unread
  <1>4. Read = <<>> BY DEF Read
  <1>5. Numbered BY <1>4 DEF Numbered, NumberedOf, Before
  <1> QED BY <1>1, <1>2, <1>3, <1>5 DEF LogInv

(* The end of the process, whatever ends it. *)
LEMMA DiesIs ==
  ASSUME TypeOK, NEW what, Dies(what)
  PROVE  /\ fault' = what
         /\ conn' \in [Tracers -> {"none", "freed"}]
         /\ \A t \in Tracers : conn'[t] = "none" <=> conn[t] = "none"
         /\ UNCHANGED <<ownerVars, epollVars, tracerVars, stream, threadVars>>
  BY DEF Dies, AllFreed, TypeOK

LEMMA WaitIs ==
  ASSUME NEW R, NEW E \in WaitResults(R) PROVE E \subseteq R
  BY DEF WaitResults

LEMMA ConnectIs ==
  ASSUME TypeOK, NEW t \in Tracers, Connect(t)
  PROVE  \A u \in Tracers : conn'[u] = conn[u] \/ (u = t /\ conn'[u] = "pending")
  BY DEF TypeOK, Connect, Listening

(* Accept either ends the process or gives the connection away. *)
LEMMA AcceptIs ==
  ASSUME TypeOK, NEW t \in Tracers, Accept(t)
  PROVE  /\ conn[t] = "pending" /\ pc = "link" /\ m_server # "null"
         /\ \/ Dies("map")
            \/ /\ conn' \in [Tracers -> {"none", "pending", "live", "freed"}]
               /\ \A u \in Tracers \ {t} : conn'[u] = conn[u]
               /\ conn'[t] \in {"live", "freed"}
               /\ watched' \subseteq watched \cup {t}
               /\ t \in watched' /\ t \notin watched => conn'[t] = "live"
               /\ pc' = "scan"
               /\ UNCHANGED <<ownerVars, m_epoll, tracerVars, stream, events, hand, file, fault>>
  <1> USE DEF TypeOK, Accept, AddResults, WatchedAfterAdd
  <1>1. conn[t] = "pending" /\ pc = "link" /\ m_server # "null" OBVIOUS
  <1>2. CASE ~Dies("map")
    <2>1. PICK r \in {-1, 0, -2} :
            /\ pc' = "scan" /\ watched' = (IF r = 0 THEN watched \cup {t} ELSE watched)
            /\ conn' = [conn EXCEPT ![t] = IF r = 0 THEN "live" ELSE "freed"]
            /\ UNCHANGED <<ownerVars, m_epoll, tracerVars, stream, events, hand, file, fault>>
      BY <1>2
    <2> QED BY <2>1
  <1> QED BY <1>1, <1>2

(* Types. *)
LEMMA TypeStep ==
  ASSUME LogInv, Next PROVE TypeOK'
  <1>0. ASSUME NEW what \in {"overrun", "server", "map", "sigusr2"}, Dies(what) PROVE TypeOK'
    <2>1. TypeOK BY DEF LogInv
    <2>2. fault' = what /\ conn' \in [Tracers -> {"none", "freed"}] BY <1>0, <2>1, DiesIs
    <2>3. UNCHANGED <<ownerVars, epollVars, tracerVars, stream, threadVars>> BY <1>0, <2>1, DiesIs
    <2> QED BY <2>1, <2>2, <2>3 DEF TypeOK, ownerVars, epollVars, tracerVars, threadVars
  <1> USE DEF LogInv, TypeOK, ownerVars, epollVars, tracerVars, linkVars, threadVars
  <1>1. ASSUME fault = "none", StartFile PROVE TypeOK'
    BY <1>1 DEF StartFile, StartReturns
  <1>2. ASSUME fault = "none", StartEpoll PROVE TypeOK'
    BY <1>2 DEF StartEpoll, StartReturns, CreateResults, CreateRefused, Handle
  <1>3. ASSUME fault = "none", StartServer PROVE TypeOK'
    BY <1>3 DEF StartServer, StartReturns
  <1>4. ASSUME fault = "none", StartWatch PROVE TypeOK'
    BY <1>4 DEF StartWatch, AddResults, WatchedAfterAdd
  <1>5. ASSUME fault = "none", StartThread PROVE TypeOK'
    BY <1>5 DEF StartThread, StartReturns, Reset
  <1>6. ASSUME fault = "none", CloseServer PROVE TypeOK'
    BY <1>6 DEF CloseServer, Reset
  <1>7. ASSUME fault = "none", CloseEpoll PROVE TypeOK'
    BY <1>7 DEF CloseEpoll
  <1>8. ASSUME fault = "none", StopThread PROVE TypeOK'
    <2>1. CASE Dies("sigusr2") BY <2>1, <1>0
    <2>2. CASE ~Dies("sigusr2")
      <3>1. hand' \in Seq(Tracers \X Nat) /\ pc' \in {pc, "exited"}
        <4>1. hand' = hand \/ hand' = <<>> BY <1>8, <2>2 DEF StopThread
        <4>2. pc' = pc \/ pc' = "exited" BY <1>8, <2>2 DEF StopThread
        <4>3. <<>> \in Seq(Tracers \X Nat) OBVIOUS
        <4> QED BY <4>1, <4>2, <4>3
      <3>2. UNCHANGED <<tracerVars, linkVars, epollVars, startRet, m_server, events, known, file, fault>>
        BY <1>8, <2>2 DEF StopThread
      <3>3. owner' = "exit" /\ m_thread' = 0 BY <1>8, <2>2 DEF StopThread
      <3> QED BY <3>1, <3>2, <3>3
    <2> QED BY <2>1, <2>2
  <1>9. ASSUME fault = "none", ProcessExit PROVE TypeOK'
    BY <1>9 DEF ProcessExit, AllFreed
  <1>10. ASSUME fault = "none", EnterThread PROVE TypeOK'
    BY <1>10 DEF EnterThread
  <1>11. ASSUME fault = "none", WaitEvents PROVE TypeOK'
    <2>1. CASE Dies("overrun") BY <2>1, <1>0
    <2>2. CASE ~Dies("overrun")
      <3>1. PICK E \in WaitResults(Ready) : events' = E BY <1>11, <2>2 DEF WaitEvents, IsValid
      <3>2. events' \subseteq Tracers \cup {Server} BY <3>1, WaitIs DEF Ready
      <3> QED BY <1>11, <2>2, <3>2 DEF WaitEvents, IsValid
    <2> QED BY <2>1, <2>2
  <1>12. ASSUME fault = "none", LoopEnds PROVE TypeOK'
    BY <1>12 DEF LoopEnds, IsValid
  <1>13. ASSUME fault = "none", Leave PROVE TypeOK'
    BY <1>13 DEF Leave
  <1>14. ASSUME fault = "none", ScanEnds PROVE TypeOK'
    BY <1>14 DEF ScanEnds
  <1>15. ASSUME fault = "none", ScanServer PROVE TypeOK'
    BY <1>15, <1>0 DEF ScanServer
  <1>16. ASSUME fault = "none", LinkOnNull PROVE TypeOK'
    BY <1>16, <1>0 DEF LinkOnNull
  <1>17. ASSUME fault = "none", WriteLog PROVE TypeOK'
    BY <1>17 DEF WriteLog
  <1>18. ASSUME fault = "none", NEW t \in Tracers, Accept(t) PROVE TypeOK'
    <2>1. CASE Dies("map") BY <2>1, <1>0
    <2>2. CASE ~Dies("map")
      <3>1. watched' \subseteq Tracers \cup {Server}
        BY <1>18, <2>2 DEF Accept, AddResults, WatchedAfterAdd, FindsGarbage
      <3>2. known' \in Nat BY <1>18, <2>2 DEF Accept, AddResults, WatchedAfterAdd, FindsGarbage
      <3>3. conn' \in [Tracers -> {"none", "pending", "live", "freed"}]
        BY <1>18, <2>2 DEF Accept, AddResults, WatchedAfterAdd, FindsGarbage
      <3>4. pc' = "scan" /\ UNCHANGED <<ownerVars, m_epoll, tracerVars, stream, events, hand, file, fault>>
        BY <1>18, <2>2 DEF Accept
      <3> QED BY <3>1, <3>2, <3>3, <3>4
    <2> QED BY <2>1, <2>2
  <1>19. ASSUME fault = "none", NEW t \in Tracers, RecvLines(t) PROVE TypeOK'
    BY <1>19 DEF RecvLines, LinesLeft
  <1>20. ASSUME fault = "none", NEW t \in Tracers, RecvHangup(t) PROVE TypeOK'
    BY <1>20 DEF RecvHangup, Hangup
  <1>21. ASSUME NEW t \in Tracers, NoSocket(t) PROVE TypeOK'
    BY <1>21 DEF NoSocket, Says
  <1>22. ASSUME NEW t \in Tracers, Connect(t) PROVE TypeOK'
    <2>1. client' \in [Tracers -> {"fresh", "half", "linked", "gone"}] BY <1>22 DEF Connect, Listening
    <2>2. conn' \in [Tracers -> {"none", "pending", "live", "freed"}] BY <1>22 DEF Connect, Listening
    <2> QED BY <1>22, <2>1, <2>2 DEF Connect
  <1>23. ASSUME NEW t \in Tracers, SendRefused(t) PROVE TypeOK'
    BY SMTT(60), <1>23 DEF SendRefused, Says
  <1>24. ASSUME NEW t \in Tracers, SendLine(t) PROVE TypeOK'
    BY <1>24 DEF SendLine, Says
  <1>25. ASSUME NEW t \in Tracers, SendBreaks(t) PROVE TypeOK'
    BY <1>25 DEF SendBreaks
  <1>26. ASSUME NEW t \in Tracers, TracerExit(t) PROVE TypeOK'
    BY <1>26 DEF TracerExit
  <1> QED
    BY <1>1, <1>2, <1>3, <1>4, <1>5, <1>6, <1>7, <1>8, <1>9,
       <1>10, <1>11, <1>12, <1>13, <1>14, <1>15, <1>16, <1>17, <1>18,
       <1>19, <1>20, <1>21, <1>22, <1>23, <1>24, <1>25, <1>26 DEF Next, OwnerStep, ThreadStep, TracerStep

(* Where the owner and the thread are. *)
LEMMA PhasesStep ==
  ASSUME LogInv, Next PROVE Phases'
  <1>0. ASSUME NEW what, what # "none", Dies(what) PROVE Phases'
    <2>1. TypeOK BY DEF LogInv
    <2>2. /\ fault' = what /\ conn' \in [Tracers -> {"none", "freed"}]
          /\ \A t \in Tracers : conn'[t] = "none" <=> conn[t] = "none"
      BY <1>0, <2>1, DiesIs
    <2>3. UNCHANGED <<ownerVars, epollVars, tracerVars, stream, threadVars>> BY <1>0, <2>1, DiesIs
    <2> QED BY <1>0, <2>2, <2>3 DEF LogInv, Phases, Starting, ownerVars, epollVars, tracerVars,
          linkVars, threadVars
  <1> USE DEF LogInv, TypeOK, Phases, Starting, ownerVars, epollVars, tracerVars, linkVars, threadVars
  <1>1. ASSUME fault = "none", StartFile PROVE Phases'
    BY <1>1 DEF StartFile, StartReturns
  <1>2. ASSUME fault = "none", StartEpoll PROVE Phases'
    BY <1>2 DEF StartEpoll, StartReturns, CreateResults, CreateRefused, Handle
  <1>3. ASSUME fault = "none", StartServer PROVE Phases'
    BY <1>3 DEF StartServer, StartReturns
  <1>4. ASSUME fault = "none", StartWatch PROVE Phases'
    BY <1>4 DEF StartWatch, AddResults, WatchedAfterAdd
  <1>5. ASSUME fault = "none", StartThread PROVE Phases'
    BY <1>5 DEF StartThread, StartReturns, Reset
  <1>6. ASSUME fault = "none", CloseServer PROVE Phases'
    BY <1>6 DEF CloseServer, Reset
  <1>7. ASSUME fault = "none", CloseEpoll PROVE Phases'
    BY <1>7 DEF CloseEpoll
  <1>8. ASSUME fault = "none", StopThread PROVE Phases'
    BY <1>8, <1>0 DEF StopThread
  <1>9. ASSUME fault = "none", ProcessExit PROVE Phases'
    BY <1>9 DEF ProcessExit, AllFreed
  <1>10. ASSUME fault = "none", EnterThread PROVE Phases'
    BY <1>10 DEF EnterThread
  <1>11. ASSUME fault = "none", WaitEvents PROVE Phases'
    BY <1>11, <1>0 DEF WaitEvents, IsValid
  <1>12. ASSUME fault = "none", LoopEnds PROVE Phases'
    BY <1>12 DEF LoopEnds, IsValid
  <1>13. ASSUME fault = "none", Leave PROVE Phases'
    BY <1>13 DEF Leave
  <1>14. ASSUME fault = "none", ScanEnds PROVE Phases'
    BY <1>14 DEF ScanEnds
  <1>15. ASSUME fault = "none", ScanServer PROVE Phases'
    BY <1>15, <1>0 DEF ScanServer
  <1>16. ASSUME fault = "none", LinkOnNull PROVE Phases'
    BY <1>16, <1>0 DEF LinkOnNull
  <1>17. ASSUME fault = "none", WriteLog PROVE Phases'
    BY <1>17 DEF WriteLog
  <1>18. ASSUME fault = "none", NEW t \in Tracers, Accept(t) PROVE Phases'
    <2>1. CASE Dies("map") BY <2>1, <1>0
    <2>2. CASE ~Dies("map")
      <3>1. pc = "link" /\ pc' = "scan" /\ UNCHANGED <<ownerVars, m_epoll>>
        BY <1>18, <2>2, AcceptIs
      <3> QED BY <3>1
    <2> QED BY <2>1, <2>2
  <1>19. ASSUME fault = "none", NEW t \in Tracers, RecvLines(t) PROVE Phases'
    BY <1>19 DEF RecvLines, LinesLeft
  <1>20. ASSUME fault = "none", NEW t \in Tracers, RecvHangup(t) PROVE Phases'
    BY <1>20 DEF RecvHangup, Hangup
  <1>21. ASSUME NEW t \in Tracers, NoSocket(t) PROVE Phases'
    BY <1>21 DEF NoSocket, Says
  <1>22. ASSUME NEW t \in Tracers, Connect(t) PROVE Phases'
    BY <1>22 DEF Connect, Listening
  <1>23. ASSUME NEW t \in Tracers, SendRefused(t) PROVE Phases'
    BY <1>23 DEF SendRefused, Says
  <1>24. ASSUME NEW t \in Tracers, SendLine(t) PROVE Phases'
    BY <1>24 DEF SendLine, Says
  <1>25. ASSUME NEW t \in Tracers, SendBreaks(t) PROVE Phases'
    BY <1>25 DEF SendBreaks
  <1>26. ASSUME NEW t \in Tracers, TracerExit(t) PROVE Phases'
    BY <1>26 DEF TracerExit
  <1> QED
    BY <1>1, <1>2, <1>3, <1>4, <1>5, <1>6, <1>7, <1>8, <1>9,
       <1>10, <1>11, <1>12, <1>13, <1>14, <1>15, <1>16, <1>17, <1>18,
       <1>19, <1>20, <1>21, <1>22, <1>23, <1>24, <1>25, <1>26 DEF Next, OwnerStep, ThreadStep, TracerStep

(* What the thread holds of its last wait. *)
LEMMA EventsStep ==
  ASSUME LogInv, Next PROVE Events'
  <1>0. ASSUME NEW what, what # "none", Dies(what) PROVE Events'
    <2>1. TypeOK BY DEF LogInv
    <2>2. /\ fault' = what /\ conn' \in [Tracers -> {"none", "freed"}]
          /\ \A t \in Tracers : conn'[t] = "none" <=> conn[t] = "none"
      BY <1>0, <2>1, DiesIs
    <2>3. UNCHANGED <<ownerVars, epollVars, tracerVars, stream, threadVars>> BY <1>0, <2>1, DiesIs
    <2> QED BY <1>0, <2>2, <2>3 DEF LogInv, Events, Closing, ownerVars, epollVars, tracerVars,
          linkVars, threadVars
  <1> USE DEF LogInv, TypeOK, Events, Closing, Phases, Starting, Ready, Pending, Live, ownerVars,
        epollVars, tracerVars, linkVars, threadVars
  <1>1. ASSUME fault = "none", StartFile PROVE Events'
    BY <1>1 DEF StartFile, StartReturns
  <1>2. ASSUME fault = "none", StartEpoll PROVE Events'
    BY <1>2 DEF StartEpoll, StartReturns, CreateResults, CreateRefused, Handle
  <1>3. ASSUME fault = "none", StartServer PROVE Events'
    BY <1>3 DEF StartServer, StartReturns
  <1>4. ASSUME fault = "none", StartWatch PROVE Events'
    <2>1. UNCHANGED <<pc, events, conn, fault, startRet>> /\ pc = "off" BY <1>4 DEF StartWatch
    <2>2. watched' \subseteq watched \cup {Server} BY <1>4 DEF StartWatch, AddResults, WatchedAfterAdd
    <2> QED BY <1>4, <2>1, <2>2, TracersAssumption DEF StartWatch
  <1>5. ASSUME fault = "none", StartThread PROVE Events'
    BY <1>5 DEF StartThread, StartReturns, Reset
  <1>6. ASSUME fault = "none", CloseServer PROVE Events'
    BY <1>6 DEF CloseServer, Reset
  <1>7. ASSUME fault = "none", CloseEpoll PROVE Events'
    BY <1>7 DEF CloseEpoll
  <1>8. ASSUME fault = "none", StopThread PROVE Events'
    BY <1>8, <1>0 DEF StopThread
  <1>9. ASSUME fault = "none", ProcessExit PROVE Events'
    BY <1>9 DEF ProcessExit, AllFreed
  <1>10. ASSUME fault = "none", EnterThread PROVE Events'
    BY <1>10 DEF EnterThread
  <1>11. ASSUME fault = "none", WaitEvents PROVE Events'
    <2>1. CASE Dies("overrun") BY <2>1, <1>0
    <2>2. CASE ~Dies("overrun")
      <3>1. PICK E \in WaitResults(Ready) : events' = E BY <1>11, <2>2 DEF WaitEvents, IsValid
      <3>2. events' \subseteq Ready BY <3>1, WaitIs
      <3>3. Server \in events' => \E t \in Tracers : conn[t] = "pending"
        BY <3>2, TracersAssumption
      <3>4. \A t \in Tracers : t \in events' => t \in watched BY <3>2, TracersAssumption
      <3>5. pc = "loop" /\ pc' = "scan" /\ UNCHANGED <<ownerVars, epollVars, conn, fault>>
        BY <1>11, <2>2 DEF WaitEvents
      <3> QED BY <3>3, <3>4, <3>5
    <2> QED BY <2>1, <2>2
  <1>12. ASSUME fault = "none", LoopEnds PROVE Events'
    BY <1>12 DEF LoopEnds, IsValid
  <1>13. ASSUME fault = "none", Leave PROVE Events'
    BY <1>13 DEF Leave
  <1>14. ASSUME fault = "none", ScanEnds PROVE Events'
    BY <1>14 DEF ScanEnds
  <1>15. ASSUME fault = "none", ScanServer PROVE Events'
    BY <1>15, <1>0 DEF ScanServer
  <1>16. ASSUME fault = "none", LinkOnNull PROVE Events'
    BY <1>16, <1>0 DEF LinkOnNull
  <1>17. ASSUME fault = "none", WriteLog PROVE Events'
    BY <1>17 DEF WriteLog
  <1>18. ASSUME fault = "none", NEW t \in Tracers, Accept(t) PROVE Events'
    <2>1. CASE Dies("map") BY <2>1, <1>0
    <2>2. CASE ~Dies("map")
      <3>1. /\ conn' \in [Tracers -> {"none", "pending", "live", "freed"}]
            /\ \A u \in Tracers \ {t} : conn'[u] = conn[u]
            /\ conn[t] = "pending" /\ conn'[t] \in {"live", "freed"}
        BY <1>18, <2>2, AcceptIs
      <3>2. /\ watched' \subseteq watched \cup {t}
            /\ t \in watched' /\ t \notin watched => conn'[t] = "live"
            /\ pc = "link" /\ pc' = "scan" /\ UNCHANGED <<ownerVars, m_epoll, events, fault>>
        BY <1>18, <2>2, AcceptIs
      <3>3. fault = "none" => \A u \in Tracers : u \in watched' \/ u \in events' => conn'[u] = "live"
        <4>1. fault = "none" => \A u \in Tracers : u \in watched \/ u \in events => conn[u] = "live"
          BY <3>2
        <4> HIDE DEF LogInv, TypeOK, Phases, Events
        <4> QED BY <4>1, <3>1, <3>2
      <3> QED BY <3>2, <3>3
    <2> QED BY <2>1, <2>2
  <1>19. ASSUME fault = "none", NEW t \in Tracers, RecvLines(t) PROVE Events'
    BY <1>19 DEF RecvLines, LinesLeft
  <1>20. ASSUME fault = "none", NEW t \in Tracers, RecvHangup(t) PROVE Events'
    BY <1>20 DEF RecvHangup, Hangup
  <1>21. ASSUME NEW t \in Tracers, NoSocket(t) PROVE Events'
    BY <1>21 DEF NoSocket, Says
  <1>22. ASSUME NEW t \in Tracers, Connect(t) PROVE Events'
    <2>1. \A u \in Tracers : conn'[u] = conn[u] \/ (u = t /\ conn'[u] = "pending") BY <1>22, ConnectIs
    <2>2. client[t] = "fresh" /\ UNCHANGED <<ownerVars, epollVars, threadVars, fault>>
      BY <1>22 DEF Connect
    <2>3. conn[t] = "none" BY <2>2 DEF Clients, ClientOf
    <2>4. \A u \in Tracers : conn[u] \in {"live", "pending"} => conn'[u] = conn[u] BY <2>1, <2>3
    <2> QED BY <2>2, <2>4
  <1>23. ASSUME NEW t \in Tracers, SendRefused(t) PROVE Events'
    BY <1>23 DEF SendRefused, Says
  <1>24. ASSUME NEW t \in Tracers, SendLine(t) PROVE Events'
    BY <1>24 DEF SendLine, Says
  <1>25. ASSUME NEW t \in Tracers, SendBreaks(t) PROVE Events'
    BY <1>25 DEF SendBreaks
  <1>26. ASSUME NEW t \in Tracers, TracerExit(t) PROVE Events'
    BY <1>26 DEF TracerExit
  <1> QED
    BY <1>1, <1>2, <1>3, <1>4, <1>5, <1>6, <1>7, <1>8, <1>9,
       <1>10, <1>11, <1>12, <1>13, <1>14, <1>15, <1>16, <1>17, <1>18,
       <1>19, <1>20, <1>21, <1>22, <1>23, <1>24, <1>25, <1>26 DEF Next, OwnerStep, ThreadStep, TracerStep

(* The connections. *)
LEMMA ClientsStep ==
  ASSUME LogInv, Next PROVE Clients'
  <1>0. ASSUME NEW what, what # "none", Dies(what) PROVE Clients'
    <2>1. TypeOK BY DEF LogInv
    <2>2. /\ fault' = what /\ conn' \in [Tracers -> {"none", "freed"}]
          /\ \A t \in Tracers : conn'[t] = "none" <=> conn[t] = "none"
      BY <1>0, <2>1, DiesIs
    <2>3. UNCHANGED <<ownerVars, epollVars, tracerVars, stream, threadVars>> BY <1>0, <2>1, DiesIs
    <2> QED BY <1>0, <2>2, <2>3 DEF LogInv, Clients, ClientOf, Excused, Unread, Closing,
          ownerVars, epollVars, tracerVars, linkVars, threadVars
  <1> USE DEF LogInv, TypeOK, Clients, ClientOf, Excused, Unread, Closing, Phases, Starting,
        Events, ownerVars, epollVars, tracerVars, linkVars, threadVars
  <1>1. ASSUME fault = "none", StartFile PROVE Clients'
    BY <1>1 DEF StartFile, StartReturns
  <1>2. ASSUME fault = "none", StartEpoll PROVE Clients'
    BY <1>2 DEF StartEpoll, StartReturns, CreateResults, CreateRefused, Handle
  <1>3. ASSUME fault = "none", StartServer PROVE Clients'
    BY <1>3 DEF StartServer, StartReturns
  <1>4. ASSUME fault = "none", StartWatch PROVE Clients'
    BY <1>4 DEF StartWatch, AddResults, WatchedAfterAdd
  <1>5. ASSUME fault = "none", StartThread PROVE Clients'
    BY <1>5 DEF StartThread, StartReturns, Reset
  <1>6. ASSUME fault = "none", CloseServer PROVE Clients'
    BY <1>6 DEF CloseServer, Reset
  <1>7. ASSUME fault = "none", CloseEpoll PROVE Clients'
    BY <1>7 DEF CloseEpoll
  <1>8. ASSUME fault = "none", StopThread PROVE Clients'
    BY <1>8, <1>0 DEF StopThread
  <1>9. ASSUME fault = "none", ProcessExit PROVE Clients'
    BY <1>9 DEF ProcessExit, AllFreed
  <1>10. ASSUME fault = "none", EnterThread PROVE Clients'
    BY <1>10 DEF EnterThread
  <1>11. ASSUME fault = "none", WaitEvents PROVE Clients'
    BY <1>11, <1>0 DEF WaitEvents, IsValid
  <1>12. ASSUME fault = "none", LoopEnds PROVE Clients'
    BY <1>12 DEF LoopEnds, IsValid
  <1>13. ASSUME fault = "none", Leave PROVE Clients'
    BY <1>13 DEF Leave
  <1>14. ASSUME fault = "none", ScanEnds PROVE Clients'
    BY <1>14 DEF ScanEnds
  <1>15. ASSUME fault = "none", ScanServer PROVE Clients'
    BY <1>15, <1>0 DEF ScanServer
  <1>16. ASSUME fault = "none", LinkOnNull PROVE Clients'
    BY <1>16, <1>0 DEF LinkOnNull
  <1>17. ASSUME fault = "none", WriteLog PROVE Clients'
    BY <1>17 DEF WriteLog
  <1>18. ASSUME fault = "none", NEW t \in Tracers, Accept(t) PROVE Clients'
    <2>1. CASE Dies("map") BY <2>1, <1>0
    <2>2. CASE ~Dies("map")
      <3>1. /\ conn' \in [Tracers -> {"none", "pending", "live", "freed"}]
            /\ \A u \in Tracers \ {t} : conn'[u] = conn[u]
            /\ conn[t] = "pending" /\ conn'[t] \in {"live", "freed"}
        BY <1>18, <2>2, AcceptIs
      <3>2. UNCHANGED <<owner, startRet, client, said, accepted, broken, stream, fault>>
        BY <1>18, <2>2, AcceptIs
      <3>3. \A u \in Tracers \ {t} : ClientOf(u)' BY <3>1, <3>2
      <3>4. ClientOf(t)'
        <4>1. ClientOf(t) OBVIOUS
        <4> HIDE DEF LogInv, TypeOK, Phases, Events
        <4> QED BY <4>1, <3>1, <3>2
      <3> QED BY <3>3, <3>4 DEF Clients
    <2> QED BY <2>1, <2>2
  <1>19. ASSUME fault = "none", NEW t \in Tracers, RecvLines(t) PROVE Clients'
    <2>1. stream' = [stream EXCEPT ![t] = <<>>] /\ UNCHANGED <<ownerVars, tracerVars, conn, fault>>
      BY <1>19 DEF RecvLines, LinesLeft
    <2>2. pc = "scan" /\ t \in events BY <1>19 DEF RecvLines
    <2>3. fault = "none" => conn[t] = "live" BY <2>2
    <2>4. stream'[t] = <<>> /\ \A u \in Tracers \ {t} : stream'[u] = stream[u] BY <2>1
    <2>5. \A u \in Tracers \ {t} : ClientOf(u)' BY <2>1, <2>4
    <2>6. ClientOf(t) /\ accepted[t] \in Nat /\ Len(stream'[t]) = 0 BY <2>4
    <2>7. ClientOf(t)' BY <1>19, <2>1, <2>3, <2>6
    <2> QED BY <2>5, <2>7 DEF Clients
  <1>20. ASSUME fault = "none", NEW t \in Tracers, RecvHangup(t) PROVE Clients'
    BY <1>20 DEF RecvHangup, Hangup
  <1>21. ASSUME NEW t \in Tracers, NoSocket(t) PROVE Clients'
    BY <1>21 DEF NoSocket, Says
  <1>22. ASSUME NEW t \in Tracers, Connect(t) PROVE Clients'
    BY <1>22 DEF Connect, Listening
  <1>23. ASSUME NEW t \in Tracers, SendRefused(t) PROVE Clients'
    BY <1>23 DEF SendRefused, Says
  <1>24. ASSUME NEW t \in Tracers, SendLine(t) PROVE Clients'
    <2>1. /\ client[t] = "linked" /\ t \notin broken /\ conn[t] \in {"pending", "live"}
          /\ UNCHANGED <<ownerVars, client, broken, conn, fault>>
      BY <1>24 DEF SendLine
    <2>2. /\ said'[t] = said[t] + 1 /\ accepted'[t] = accepted[t] + 1
          /\ \A u \in Tracers \ {t} :
               said'[u] = said[u] /\ accepted'[u] = accepted[u] /\ stream'[u] = stream[u]
      BY <1>24 DEF SendLine, Says
    <2>3. Len(stream'[t]) = Len(stream[t]) + 1 BY <1>24 DEF SendLine
    <2>4. \A u \in Tracers \ {t} : ClientOf(u)' BY <2>1, <2>2
    <2>5. ClientOf(t) /\ accepted[t] \in Nat /\ said[t] \in Nat OBVIOUS
    <2>6. ClientOf(t)' BY <2>1, <2>2, <2>3, <2>5
    <2> QED BY <2>4, <2>6 DEF Clients
  <1>25. ASSUME NEW t \in Tracers, SendBreaks(t) PROVE Clients'
    BY <1>25 DEF SendBreaks
  <1>26. ASSUME NEW t \in Tracers, TracerExit(t) PROVE Clients'
    BY <1>26 DEF TracerExit
  <1> QED
    BY <1>1, <1>2, <1>3, <1>4, <1>5, <1>6, <1>7, <1>8, <1>9,
       <1>10, <1>11, <1>12, <1>13, <1>14, <1>15, <1>16, <1>17, <1>18,
       <1>19, <1>20, <1>21, <1>22, <1>23, <1>24, <1>25, <1>26 DEF Next, OwnerStep, ThreadStep, TracerStep

LEMMA ConcatIs ==
  ASSUME NEW S, NEW a \in Seq(S), NEW b \in Seq(S)
  PROVE  /\ a \o b \in Seq(S) /\ Len(a \o b) = Len(a) + Len(b)
         /\ \A i \in 1..Len(a) : (a \o b)[i] = a[i]
         /\ \A i \in 1..Len(b) : (a \o b)[Len(a) + i] = b[i]
  OBVIOUS

LEMMA ConcatEmpty ==
  ASSUME NEW S, NEW a \in Seq(S) PROVE a \o <<>> = a
  OBVIOUS

LEMMA ReadIs ==
  ASSUME TypeOK
  PROVE  Read \in Seq(Tracers \X Nat)
  BY ConcatIs DEF TypeOK, Read

(* A step that moves no line and starts no call of Trace. *)
LEMMA NumberedFrame ==
  ASSUME LogInv, UNCHANGED <<stream, said, accepted, hand, file>>,
         owner \in {"exit", "gone"} => owner' \in {"exit", "gone"},
         pc = "write" => pc' = "write"
  PROVE  Numbered'
  <1>1. Read' = Read BY DEF Read
  <1>2. ASSUME NEW t \in Tracers PROVE NumberedOf(t)'
    <2>1. NumberedOf(t) BY DEF LogInv, Numbered
    <2> QED BY <1>1, <2>1 DEF NumberedOf, Before
  <1> QED BY <1>2 DEF LogInv, Numbered

(* The end of the log thread, which drops the lines it holds. *)
LEMMA NumberedDrop ==
  ASSUME LogInv, UNCHANGED <<stream, said, accepted, file>>, hand' = <<>>,
         owner' \in {"exit", "gone"}
  PROVE  Numbered'
  <1>1. /\ Read' = file /\ file \in Seq(Tracers \X Nat) /\ hand \in Seq(Tracers \X Nat)
    BY ConcatEmpty DEF LogInv, TypeOK, Read
  <1>2. /\ Len(file) \in Nat /\ Len(hand) \in Nat /\ Len(Read) = Len(file) + Len(hand)
        /\ \A i \in 1..Len(file) : Read[i] = file[i]
    BY <1>1, ConcatIs DEF Read
  <1>3. 1..Len(file) \subseteq 1..Len(Read) BY <1>2
  <1>4. \A t \in Tracers : Before(t)' = Before(t) BY DEF Before
  <1>5. ASSUME NEW t \in Tracers PROVE NumberedOf(t)'
    <2>1. NumberedOf(t) BY DEF LogInv, Numbered
    <2> QED BY <2>1, <1>1, <1>2, <1>3, <1>4 DEF NumberedOf
  <1> QED BY <1>5 DEF Numbered

(* A call of Trace that writes nothing: its thread has written nothing yet. *)
LEMMA NumberedSilent ==
  ASSUME LogInv, NEW t \in Tracers, accepted[t] = 0, Says(t),
         UNCHANGED <<owner, pc, stream, accepted, hand, file>>
  PROVE  Numbered'
  <1>1. /\ said'[t] = said[t] + 1 /\ said[t] \in Nat /\ Len(stream[t]) = 0
        /\ \A u \in Tracers \ {t} : said'[u] = said[u]
    BY DEF Says, LogInv, TypeOK, Clients, ClientOf
  <1>2. Read' = Read BY DEF Read
  <1>3. ASSUME NEW u \in Tracers, u # t PROVE NumberedOf(u)'
    BY <1>1, <1>2, <1>3 DEF LogInv, Numbered, NumberedOf, Before
  <1>4. NumberedOf(t)'
    <2>1. NumberedOf(t) BY DEF LogInv, Numbered
    <2>2. \A i \in 1..Len(Read) : Read[i] \in Tracers \X Nat BY ReadIs DEF LogInv
    <2>3. \A i \in 1..Len(Read) : Read[i][1] # t
      BY <1>1, <2>1, <2>2 DEF NumberedOf, Before
    <2> QED BY <1>1, <1>2, <2>1, <2>3 DEF NumberedOf, Before
  <1> QED BY <1>3, <1>4 DEF LogInv, Numbered

LEMMA NumberedSend ==
  ASSUME LogInv, NEW t \in Tracers, SendLine(t)
  PROVE  Numbered'
  <1>1. /\ said'[t] = said[t] + 1 /\ accepted'[t] = accepted[t] + 1
        /\ said[t] \in Nat /\ accepted[t] \in Nat /\ stream[t] \in Seq(Nat)
        /\ \A u \in Tracers \ {t} :
             said'[u] = said[u] /\ accepted'[u] = accepted[u] /\ stream'[u] = stream[u]
    BY DEF SendLine, Says, LogInv, TypeOK
  <1>2. stream'[t] = Append(stream[t], said[t] + 1) BY DEF SendLine, LogInv, TypeOK
  <1>3. /\ Len(stream[t]) \in Nat /\ Len(stream'[t]) = Len(stream[t]) + 1
        /\ \A j \in 1..Len(stream[t]) : stream'[t][j] = stream[t][j]
        /\ stream'[t][Len(stream[t]) + 1] = said[t] + 1
    BY <1>1, <1>2
  <1>4. Read' = Read /\ UNCHANGED <<owner, pc, hand>>
    BY DEF Read, SendLine, ownerVars, threadVars
  <1>5. ASSUME NEW u \in Tracers, u # t PROVE NumberedOf(u)'
    BY <1>1, <1>4, <1>5 DEF LogInv, Numbered, NumberedOf, Before
  <1>6. NumberedOf(t)'
    <2>1. NumberedOf(t) BY DEF LogInv, Numbered
    <2>2. said'[t] - Len(stream'[t]) = said[t] - Len(stream[t])
      <3>1. said'[t] = said[t] + 1 /\ Len(stream'[t]) = Len(stream[t]) + 1 BY <1>1, <1>3
      <3>2. said[t] \in Nat /\ Len(stream[t]) \in Nat BY <1>1, <1>3
      <3> QED BY <3>1, <3>2
    <2>3. Before(t)' = Before(t) BY <2>2 DEF Before
    <2>4. said'[t] - accepted'[t] = said[t] - accepted[t] BY <1>1
    <2>5. \A j \in 1..Len(stream'[t]) : stream'[t][j] = Before(t) + j
      <3> TAKE j \in 1..Len(stream'[t])
      <3>1. CASE j \in 1..Len(stream[t]) BY <3>1, <1>3, <2>1 DEF NumberedOf
      <3>2. CASE j = Len(stream[t]) + 1
        <4>1. Before(t) + j = said[t] + 1 BY <3>2, <1>1, <1>3 DEF Before
        <4> QED BY <3>2, <4>1, <1>3
      <3> QED BY <3>1, <3>2, <1>3
    <2> QED BY <1>4, <2>1, <2>3, <2>4, <2>5 DEF NumberedOf
  <1> QED BY <1>4, <1>5, <1>6 DEF LogInv, Numbered

LEMMA NumberedRecv ==
  ASSUME LogInv, NEW t \in Tracers, RecvLines(t)
  PROVE  Numbered'
  <1> DEFINE s == stream[t]
  <1>1. /\ hand = <<>> /\ s \in Seq(Nat) /\ file \in Seq(Tracers \X Nat)
        /\ said[t] \in Nat /\ accepted[t] \in Nat /\ Len(s) <= accepted[t]
    BY DEF RecvLines, LogInv, TypeOK, Numbered, Clients, ClientOf
  <1>2. /\ stream'[t] = <<>> /\ \A u \in Tracers \ {t} : stream'[u] = stream[u]
        /\ hand' = [i \in 1..Len(s) |-> <<t, s[i]>>]
        /\ pc' = "write" /\ UNCHANGED <<owner, said, accepted, file>>
    BY DEF RecvLines, LinesLeft, LogInv, TypeOK, ownerVars, tracerVars
  <1>3. Read = file BY <1>1, ConcatEmpty DEF Read
  <1>4. hand' \in Seq(Tracers \X Nat) /\ Len(hand') = Len(s) BY <1>1, <1>2
  <1>5. /\ Len(file) \in Nat /\ Len(s) \in Nat /\ Len(Read') = Len(file) + Len(s)
        /\ \A i \in 1..Len(file) : Read'[i] = file[i]
        /\ \A i \in 1..Len(s) : Read'[Len(file) + i] = <<t, s[i]>>
    BY <1>1, <1>2, <1>4, ConcatIs DEF Read
  <1>6. \A k \in 1..Len(Read') :
          \/ k \in 1..Len(file) /\ Read'[k] = file[k]
          \/ /\ k > Len(file) /\ k - Len(file) \in 1..Len(s)
             /\ Read'[k] = <<t, s[k - Len(file)]>>
    <2> TAKE k \in 1..Len(Read')
    <2>1. CASE k <= Len(file) BY <2>1, <1>5
    <2>2. CASE k > Len(file)
      <3>1. k - Len(file) \in 1..Len(s) /\ k = Len(file) + (k - Len(file)) BY <2>2, <1>5
      <3> QED BY <2>2, <3>1, <1>5
    <2> QED BY <2>1, <2>2, <1>5
  <1>7. ASSUME NEW u \in Tracers, u # t PROVE NumberedOf(u)'
    <2>1. NumberedOf(u) /\ Before(u)' = Before(u)
      BY <1>2, <1>7 DEF LogInv, Numbered, Before
    <2>2. \A k \in 1..Len(Read') : Read'[k][1] = u => k \in 1..Len(file) /\ Read'[k] = file[k]
      BY <1>6, <1>7
    <2>3. 1..Len(file) \subseteq 1..Len(Read') BY <1>5
    <2> QED BY <1>2, <1>3, <1>5, <1>7, <2>1, <2>2, <2>3 DEF NumberedOf
  <1>8. /\ said[t] \in Nat /\ accepted[t] \in Nat /\ Len(s) \in Nat /\ Len(file) \in Nat
        /\ Len(s) <= accepted[t]
    BY <1>1, <1>5
  <1>9. NumberedOf(t)'
    <2>1. NumberedOf(t) BY DEF LogInv, Numbered
    <2>2. Before(t) = said[t] - Len(s) /\ Before(t)' = said[t] BY <1>1, <1>2 DEF Before
    <2>3. \A i \in 1..Len(s) : s[i] = Before(t) + i BY <2>1 DEF NumberedOf
    <2>4. ASSUME NEW k \in 1..Len(Read'), Read'[k][1] = t
          PROVE  said[t] - accepted[t] < Read'[k][2] /\ Read'[k][2] <= said[t]
      <3>1. CASE k \in 1..Len(file) /\ Read'[k] = file[k]
        <4>1. file[k] \in Tracers \X Nat BY <3>1, <1>1
        <4>2. said[t] - accepted[t] < file[k][2] /\ file[k][2] <= Before(t)
          BY <2>1, <2>4, <3>1, <1>3 DEF NumberedOf
        <4> QED BY <3>1, <4>1, <4>2, <2>2, <1>1, <1>5
      <3>2. CASE k > Len(file) /\ k - Len(file) \in 1..Len(s) /\ Read'[k] = <<t, s[k - Len(file)]>>
        <4>1. Read'[k][2] = Before(t) + (k - Len(file)) BY <3>2, <2>3
        <4> QED BY <4>1, <3>2, <2>2, <1>8
      <3> QED BY <3>1, <3>2, <1>6
    <2>5. ASSUME NEW i \in 1..Len(Read'), NEW j \in 1..Len(Read'), i < j,
                 Read'[i][1] = t, Read'[j][1] = t
          PROVE  Read'[i][2] < Read'[j][2]
      <3>1. CASE j \in 1..Len(file) /\ Read'[j] = file[j]
        <4>1. i \in 1..Len(file) /\ Read'[i] = file[i] BY <2>5, <3>1, <1>5
        <4> QED BY <2>1, <2>5, <3>1, <4>1, <1>3 DEF NumberedOf
      <3>2. CASE j > Len(file) /\ j - Len(file) \in 1..Len(s) /\ Read'[j] = <<t, s[j - Len(file)]>>
        <4>1. Read'[j][2] = Before(t) + (j - Len(file)) BY <3>2, <2>3
        <4>2. CASE i \in 1..Len(file) /\ Read'[i] = file[i]
          <5>1. file[i] \in Tracers \X Nat BY <4>2, <1>1
          <5>2. file[i][2] <= Before(t) BY <2>1, <2>5, <4>2, <1>3 DEF NumberedOf
          <5>3. file[i][2] \in Nat /\ Read'[i][2] = file[i][2] BY <5>1, <4>2
          <5> QED BY <5>2, <5>3, <4>1, <3>2, <2>2, <1>8
        <4>3. CASE i > Len(file) /\ i - Len(file) \in 1..Len(s) /\ Read'[i] = <<t, s[i - Len(file)]>>
          <5>1. Read'[i][2] = Before(t) + (i - Len(file)) BY <4>3, <2>3
          <5> QED BY <5>1, <4>1, <2>5, <2>2, <1>1, <1>5
        <4> QED BY <4>2, <4>3, <1>6
      <3> QED BY <3>1, <3>2, <1>6
    <2>6. ASSUME owner' \notin {"exit", "gone"}, NEW n \in (said[t] - accepted[t] + 1)..said[t]
          PROVE  \E i \in 1..Len(Read') : Read'[i] = <<t, n>>
      <3>1. CASE n <= Before(t)
        <4>1. n \in (said[t] - accepted[t] + 1)..Before(t) BY <3>1, <2>2, <1>1, <1>5
        <4>2. PICK i \in 1..Len(file) : file[i] = <<t, n>>
          BY <4>1, <2>1, <2>6, <1>2, <1>3 DEF NumberedOf
        <4> QED BY <4>2, <1>5
      <3>2. CASE n > Before(t)
        <4>1. n - Before(t) \in 1..Len(s) BY <3>2, <2>2, <1>1, <1>5
        <4>2. s[n - Before(t)] = n
          <5>1. s[n - Before(t)] = Before(t) + (n - Before(t)) BY <4>1, <2>3
          <5>2. n \in Int /\ Before(t) \in Int BY <2>2, <1>1, <1>5
          <5>3. Before(t) + (n - Before(t)) = n BY <5>2
          <5> QED BY <5>1, <5>3
        <4>3. Len(file) + (n - Before(t)) \in 1..Len(Read') BY <4>1, <1>5
        <4> QED BY <4>1, <4>2, <4>3, <1>5
      <3> QED BY <3>1, <3>2, <2>2, <1>1, <1>5
    <2>7. Len(stream'[t]) = 0 BY <1>2
    <2>8. said'[t] = said[t] /\ accepted'[t] = accepted[t] /\ owner' = owner BY <1>2
    <2>9. \A j \in 1..Len(stream'[t]) : stream'[t][j] = Before(t)' + j BY <2>7
    <2>10. \A k \in 1..Len(Read') : Read'[k][1] = t =>
             said'[t] - accepted'[t] < Read'[k][2] /\ Read'[k][2] <= Before(t)'
      BY <2>2, <2>4, <2>8
    <2>11. owner' \notin {"exit", "gone"} =>
             \A n \in (said'[t] - accepted'[t] + 1)..Before(t)' :
               \E i \in 1..Len(Read') : Read'[i] = <<t, n>>
      BY <2>2, <2>6, <2>8
    <2> QED BY <2>5, <2>9, <2>10, <2>11 DEF NumberedOf
  <1> QED BY <1>2, <1>7, <1>9 DEF Numbered

LEMMA NumberedWrite ==
  ASSUME LogInv, WriteLog
  PROVE  Numbered'
  <1>1. Read' = Read /\ hand' = <<>> /\ UNCHANGED <<owner, stream, said, accepted>>
    BY ReadIs, ConcatEmpty DEF WriteLog, Read, LogInv, ownerVars, tracerVars, linkVars
  <1>2. ASSUME NEW t \in Tracers PROVE NumberedOf(t)'
    BY <1>1 DEF LogInv, Numbered, NumberedOf, Before
  <1> QED BY <1>1, <1>2 DEF Numbered

(* The numbers of the lines. *)
LEMMA NumberedStep ==
  ASSUME LogInv, Next PROVE Numbered'
  <1>0. ASSUME NEW what, Dies(what) PROVE Numbered'
    <2>1. UNCHANGED <<ownerVars, epollVars, tracerVars, stream, threadVars>>
      BY <1>0, DiesIs DEF LogInv
    <2> QED BY <2>1, NumberedFrame DEF ownerVars, tracerVars, threadVars
  <1> USE DEF ownerVars, epollVars, tracerVars, linkVars, threadVars
  <1>1. ASSUME fault = "none", StartFile PROVE Numbered'
    BY <1>1, NumberedFrame DEF StartFile, StartReturns
  <1>2. ASSUME fault = "none", StartEpoll PROVE Numbered'
    BY <1>2, NumberedFrame DEF StartEpoll, StartReturns, CreateResults, CreateRefused, Handle
  <1>3. ASSUME fault = "none", StartServer PROVE Numbered'
    BY <1>3, NumberedFrame DEF StartServer, StartReturns
  <1>4. ASSUME fault = "none", StartWatch PROVE Numbered'
    BY <1>4, NumberedFrame DEF StartWatch, AddResults, WatchedAfterAdd
  <1>5. ASSUME fault = "none", StartThread PROVE Numbered'
    BY <1>5, NumberedFrame DEF StartThread, StartReturns, Reset, LogInv, Phases, Starting
  <1>6. ASSUME fault = "none", CloseServer PROVE Numbered'
    BY <1>6, NumberedFrame DEF CloseServer, Reset
  <1>7. ASSUME fault = "none", CloseEpoll PROVE Numbered'
    BY <1>7, NumberedFrame DEF CloseEpoll
  <1>8. ASSUME fault = "none", StopThread PROVE Numbered'
    <2>1. CASE Dies("sigusr2") BY <2>1, <1>0
    <2>2. CASE ~Dies("sigusr2") /\ m_thread = 0 BY <1>8, <2>2, NumberedFrame DEF StopThread
    <2>3. CASE ~Dies("sigusr2") /\ ~(m_thread = 0) BY <1>8, <2>3, NumberedDrop DEF StopThread
    <2> QED BY <2>1, <2>2, <2>3
  <1>9. ASSUME fault = "none", ProcessExit PROVE Numbered'
    BY <1>9, NumberedDrop DEF ProcessExit
  <1>10. ASSUME fault = "none", EnterThread PROVE Numbered'
    BY <1>10, NumberedFrame DEF EnterThread
  <1>11. ASSUME fault = "none", WaitEvents PROVE Numbered'
    BY <1>11, <1>0, NumberedFrame DEF WaitEvents, IsValid
  <1>12. ASSUME fault = "none", LoopEnds PROVE Numbered'
    BY <1>12, NumberedFrame DEF LoopEnds, IsValid
  <1>13. ASSUME fault = "none", Leave PROVE Numbered'
    BY <1>13, NumberedFrame DEF Leave
  <1>14. ASSUME fault = "none", ScanEnds PROVE Numbered'
    BY <1>14, NumberedFrame DEF ScanEnds
  <1>15. ASSUME fault = "none", ScanServer PROVE Numbered'
    BY <1>15, <1>0, NumberedFrame DEF ScanServer
  <1>16. ASSUME fault = "none", LinkOnNull PROVE Numbered'
    BY <1>16, <1>0, NumberedFrame DEF LinkOnNull
  <1>17. ASSUME fault = "none", WriteLog PROVE Numbered'
    BY <1>17, NumberedWrite
  <1>18. ASSUME fault = "none", NEW t \in Tracers, Accept(t) PROVE Numbered'
    BY <1>18, <1>0, NumberedFrame DEF Accept, AddResults, WatchedAfterAdd, FindsGarbage
  <1>19. ASSUME fault = "none", NEW t \in Tracers, RecvLines(t) PROVE Numbered'
    BY <1>19, NumberedRecv
  <1>20. ASSUME fault = "none", NEW t \in Tracers, RecvHangup(t) PROVE Numbered'
    BY <1>20, NumberedFrame DEF RecvHangup, Hangup
  <1>21. ASSUME NEW t \in Tracers, NoSocket(t) PROVE Numbered'
    <2>1. client[t] \in {"fresh", "half"} /\ Says(t) BY <1>21 DEF NoSocket
    <2>2. accepted[t] = 0 BY <2>1 DEF LogInv, Clients, ClientOf
    <2> QED BY <1>21, <2>1, <2>2, NumberedSilent DEF NoSocket
  <1>22. ASSUME NEW t \in Tracers, Connect(t) PROVE Numbered'
    BY <1>22, NumberedFrame DEF Connect, Listening
  <1>23. ASSUME NEW t \in Tracers, SendRefused(t) PROVE Numbered'
    <2>1. client[t] \in {"fresh", "half"} /\ Says(t) BY <1>23 DEF SendRefused
    <2>2. accepted[t] = 0 BY <2>1 DEF LogInv, Clients, ClientOf
    <2> QED BY <1>23, <2>1, <2>2, NumberedSilent DEF SendRefused
  <1>24. ASSUME NEW t \in Tracers, SendLine(t) PROVE Numbered'
    BY <1>24, NumberedSend
  <1>25. ASSUME NEW t \in Tracers, SendBreaks(t) PROVE Numbered'
    BY <1>25, NumberedFrame DEF SendBreaks
  <1>26. ASSUME NEW t \in Tracers, TracerExit(t) PROVE Numbered'
    BY <1>26, NumberedFrame DEF TracerExit
  <1> QED
    BY <1>1, <1>2, <1>3, <1>4, <1>5, <1>6, <1>7, <1>8, <1>9,
       <1>10, <1>11, <1>12, <1>13, <1>14, <1>15, <1>16, <1>17, <1>18,
       <1>19, <1>20, <1>21, <1>22, <1>23, <1>24, <1>25, <1>26 DEF Next, OwnerStep, ThreadStep, TracerStep

(***************************************************************************)
(* The inductive invariant, in every reachable state.                      *)
(***************************************************************************)
THEOREM LogInvHolds == Spec => []LogInv
  <1>1. LogInv /\ [Next]_vars => LogInv'
    <2> SUFFICES ASSUME LogInv, [Next]_vars PROVE LogInv'
      OBVIOUS
    <2>1. CASE Next
      BY <2>1, TypeStep, PhasesStep, EventsStep, ClientsStep, NumberedStep DEF LogInv
    <2>2. CASE UNCHANGED vars
      <3> USE <2>2 DEF vars, ownerVars, epollVars, tracerVars, linkVars, threadVars, LogInv
      <3>1. TypeOK' BY DEF TypeOK
      <3>2. Phases' BY DEF Phases, Starting
      <3>3. Events' BY DEF Events, Closing
      <3>4. Clients' BY DEF Clients, ClientOf, Excused, Unread, Closing
      <3>5. Numbered' BY NumberedFrame
      <3> QED BY <3>1, <3>2, <3>3, <3>4, <3>5
    <2> QED BY <2>1, <2>2
  <1> QED BY <1>1, InitInv, PTL DEF Spec

(***************************************************************************)
(* Type correctness (Logger.h).                                            *)
(***************************************************************************)
THEOREM LogTypeCorrect == Spec => []TypeOK
  <1>1. LogInv => TypeOK BY DEF LogInv
  <1> QED BY <1>1, LogInvHolds, PTL

(***************************************************************************)
(* No line that was written to a connection is lost, doubled or overtaken  *)
(* before the log process is told to end, for any number of tracers and    *)
(* lines (Logger.h:121, 167-179, 196-200).                                 *)
(***************************************************************************)
THEOREM LinesAccountedHolds == Spec => []LinesAccounted
  <1>1. LogInv => LinesAccounted
    <2> SUFFICES ASSUME LogInv, NEW t \in Tracers
                 PROVE  /\ \A i, j \in DOMAIN Read :
                             i < j /\ Read[i][1] = t /\ Read[j][1] = t => Read[i][2] < Read[j][2]
                        /\ \A i, j \in DOMAIN stream[t] : i < j => stream[t][i] < stream[t][j]
                        /\ \A i \in DOMAIN Read, j \in DOMAIN stream[t] :
                             Read[i][1] = t => Read[i][2] < stream[t][j]
                        /\ \A i \in DOMAIN Read : Read[i][1] = t => Read[i][2] \in Sent(t)
                        /\ \A j \in DOMAIN stream[t] : stream[t][j] \in Sent(t)
                        /\ owner \notin {"exit", "gone"} =>
                             \A n \in Sent(t) : \/ \E i \in DOMAIN Read : Read[i] = <<t, n>>
                                                \/ \E j \in DOMAIN stream[t] : stream[t][j] = n
      BY DEF LinesAccounted
    <2> DEFINE s == stream[t]
    <2>1. /\ said[t] \in Nat /\ accepted[t] \in Nat /\ s \in Seq(Nat) /\ Len(s) \in Nat
          /\ Len(s) <= accepted[t] /\ accepted[t] <= said[t]
      BY DEF LogInv, TypeOK, Clients, ClientOf
    <2>2. NumberedOf(t) BY DEF LogInv, Numbered
    <2>3. Read \in Seq(Tracers \X Nat) BY ReadIs DEF LogInv
    <2>4. DOMAIN Read = 1..Len(Read) /\ DOMAIN s = 1..Len(s) BY <2>1, <2>3
    <2>5. \A i \in 1..Len(Read) : Read[i][2] \in Nat BY <2>3
    <2>6. Before(t) = said[t] - Len(s) BY DEF Before
    <2>7. \A j \in 1..Len(s) : s[j] = Before(t) + j BY <2>2 DEF NumberedOf
    <2>8. \A i \in 1..Len(Read) : Read[i][1] = t =>
            said[t] - accepted[t] < Read[i][2] /\ Read[i][2] <= Before(t)
      BY <2>2 DEF NumberedOf
    <2>9. \A i, j \in DOMAIN Read :
            i < j /\ Read[i][1] = t /\ Read[j][1] = t => Read[i][2] < Read[j][2]
      BY <2>2, <2>4 DEF NumberedOf
    <2>10. \A j \in DOMAIN s : s[j] > Before(t) /\ s[j] \in Sent(t)
      BY <2>1, <2>4, <2>6, <2>7 DEF Sent
    <2>11. \A i \in DOMAIN Read : Read[i][1] = t => Read[i][2] \in Sent(t)
      BY <2>1, <2>4, <2>5, <2>6, <2>8 DEF Sent
    <2>12. \A i, j \in DOMAIN s : i < j => s[i] < s[j] BY <2>1, <2>4, <2>6, <2>7
    <2>13. \A i \in DOMAIN Read, j \in DOMAIN s : Read[i][1] = t => Read[i][2] < s[j]
      BY <2>1, <2>4, <2>5, <2>6, <2>8, <2>10
    <2>14. ASSUME owner \notin {"exit", "gone"}, NEW n \in Sent(t)
           PROVE  \/ \E i \in DOMAIN Read : Read[i] = <<t, n>>
                  \/ \E j \in DOMAIN s : s[j] = n
      <3>1. CASE n <= Before(t)
        <4>1. n \in (said[t] - accepted[t] + 1)..Before(t) BY <3>1, <2>1, <2>6 DEF Sent
        <4> QED BY <4>1, <2>2, <2>4, <2>14 DEF NumberedOf
      <3>2. CASE n > Before(t)
        <4>1. n - Before(t) \in 1..Len(s) BY <3>2, <2>1, <2>6 DEF Sent
        <4>2. s[n - Before(t)] = n
          <5>1. s[n - Before(t)] = Before(t) + (n - Before(t)) BY <4>1, <2>7
          <5>2. n \in Int /\ Before(t) \in Int BY <2>1, <2>6 DEF Sent
          <5>3. Before(t) + (n - Before(t)) = n BY <5>2
          <5> QED BY <5>1, <5>3
        <4> QED BY <4>1, <4>2, <2>4
      <3> QED BY <3>1, <3>2, <2>1, <2>6 DEF Sent
    <2> QED BY <2>9, <2>10, <2>11, <2>12, <2>13, <2>14
  <1> QED BY <1>1, LogInvHolds, PTL

(* The connections made so far: they only become more. *)
Made == {t \in Tracers : conn[t] # "none"}

LEMMA MadeIs ==
  ASSUME known < Cardinality(Made), known \in Nat, UNCHANGED known,
         \A t \in Tracers : conn[t] # "none" => conn'[t] # "none"
  PROVE  known' < Cardinality(Made')
  <1>1. Made \subseteq Made' /\ Made' \subseteq Tracers BY DEF Made
  <1>2. IsFiniteSet(Made') BY <1>1, TracersAssumption, FS_Subset
  <1>3. IsFiniteSet(Made) BY <1>1, <1>2, FS_Subset
  <1>4. Cardinality(Made) <= Cardinality(Made') BY <1>1, <1>2, FS_Subset
  <1>5. Cardinality(Made) \in Nat /\ Cardinality(Made') \in Nat
    BY <1>2, <1>3, FS_CardinalityType
  <1> QED BY <1>4, <1>5

(* The map is read past its end for a client more than it has keys. *)
LEMMA MapIs ==
  ASSUME TypeOK, NEW t \in Tracers, Accept(t), fault = "none", fault' = "map"
  PROVE  known' < Cardinality(Made')
  <1>1. Cardinality(Live) = known /\ Dies("map") /\ conn[t] = "pending"
    BY DEF Accept, FindsGarbage
  <1>2. Live \subseteq Made /\ t \in Made /\ t \notin Live /\ Made \subseteq Tracers
    BY <1>1 DEF Live, Made
  <1>3. IsFiniteSet(Made) BY <1>2, TracersAssumption, FS_Subset
  <1>4. Cardinality(Live) < Cardinality(Made)
    <2>1. Live # Made BY <1>2
    <2>2. /\ IsFiniteSet(Live) /\ Cardinality(Live) <= Cardinality(Made)
          /\ Cardinality(Made) # Cardinality(Live)
      BY <1>2, <1>3, <2>1, FS_Subset
    <2>3. Cardinality(Live) \in Nat /\ Cardinality(Made) \in Nat
      BY <1>3, <2>2, FS_CardinalityType
    <2> QED BY <2>2, <2>3
  <1>5. Made' = Made BY <1>1, DiesIs DEF Made
  <1> QED BY <1>1, <1>4, <1>5, DiesIs DEF threadVars

(***************************************************************************)
(* What may end the log process early and kill a tracer, for any number of *)
(* tracers (Logger.h:88-103, 150-175).                                     *)
(***************************************************************************)
THEOREM LogFaultCauseHolds == Spec => []LogFaultCause
  <1>1. LogInv => /\ pc = "link" /\ fault = "none" /\ ~Closing => Pending # {}
                  /\ fault = "none" /\ pc # "exited" => \A t \in events \cap Tracers : conn[t] = "live"
                  /\ \A t \in broken :
                       Closing \/ fault # "none" \/ startRet = -6 \/ Len(stream[t]) = accepted[t]
    <2> SUFFICES ASSUME LogInv
                 PROVE  /\ pc = "link" /\ fault = "none" /\ ~Closing => Pending # {}
                        /\ fault = "none" /\ pc # "exited" =>
                             \A t \in events \cap Tracers : conn[t] = "live"
                        /\ \A t \in broken :
                             Closing \/ fault # "none" \/ startRet = -6 \/ Len(stream[t]) = accepted[t]
      OBVIOUS
    <2>1. pc = "link" /\ fault = "none" /\ ~Closing => Pending # {}
      BY DEF LogInv, Events, Pending
    <2>2. fault = "none" /\ pc # "exited" => \A t \in events \cap Tracers : conn[t] = "live"
      BY DEF LogInv, Events
    <2>3. \A t \in broken :
            Closing \/ fault # "none" \/ startRet = -6 \/ Len(stream[t]) = accepted[t]
      BY DEF LogInv, TypeOK, Clients, ClientOf, Excused, Unread
    <2> QED BY <2>1, <2>2, <2>3
  <1> DEFINE Cause == /\ fault \in {"server", "sigusr2"} => Closing
                      /\ fault = "map" => known < Cardinality(Made)
  <1>2. Init => Cause BY DEF Init
  <1>3. LogInv /\ Cause /\ [Next]_vars => Cause'
    <2> SUFFICES ASSUME LogInv, Cause, [Next]_vars PROVE Cause'
      OBVIOUS
    <2>0. CASE UNCHANGED vars
      BY <2>0 DEF vars, ownerVars, linkVars, threadVars, Closing, Made
    <2>1. CASE fault = "none" /\ UNCHANGED fault BY <2>1
    <2>2. ASSUME Dies("overrun") PROVE Cause'
      BY <2>2, DiesIs DEF LogInv
    <2>3. ASSUME NEW what \in {"server", "sigusr2"}, Dies(what), Closing PROVE Cause'
      BY <2>3, DiesIs DEF LogInv, ownerVars, Closing
    <2>4. ASSUME fault = "none", OwnerStep PROVE Cause'
      <3>1. CASE StopThread BY <2>1, <2>3, <2>4, <3>1 DEF StopThread, Closing
      <3> QED
        BY <2>1, <2>4, <3>1
           DEF OwnerStep, StartFile, StartEpoll, StartServer, StartWatch, StartThread,
               CloseServer, CloseEpoll, ProcessExit
    <2>5. ASSUME fault = "none", ThreadStep PROVE Cause'
      <3>1. CASE WaitEvents BY <2>1, <2>2, <2>5, <3>1 DEF WaitEvents
      <3>2. m_server = "null" /\ pc \in {"scan", "link"} => Closing
        BY DEF LogInv, TypeOK, Phases, Starting, Closing
      <3>3. CASE ScanServer BY <2>1, <2>3, <2>5, <3>2, <3>3 DEF ScanServer
      <3>4. CASE LinkOnNull BY <2>3, <3>2, <3>4 DEF LinkOnNull
      <3>5. ASSUME NEW t \in Tracers, Accept(t) PROVE Cause'
        <4>1. fault' = "none" \/ fault' = "map"
          BY <2>5, <3>5, AcceptIs, DiesIs DEF LogInv
        <4>2. fault' = "map" => known' < Cardinality(Made')
          BY <2>5, <3>5, MapIs DEF LogInv
        <4> QED BY <4>1, <4>2
      <3> QED
        BY <2>1, <2>5, <3>1, <3>3, <3>4, <3>5
           DEF ThreadStep, EnterThread, LoopEnds, Leave, ScanEnds, WriteLog, RecvLines, RecvHangup
    <2>6. ASSUME NEW t \in Tracers, TracerStep(t) PROVE Cause'
      <3>1. UNCHANGED <<owner, fault, known>>
        BY <2>6 DEF TracerStep, NoSocket, Connect, SendRefused, SendLine, SendBreaks, TracerExit,
                    ownerVars, threadVars
      <3>2. \A u \in Tracers : conn[u] # "none" => conn'[u] # "none"
        BY <2>6, ConnectIs DEF TracerStep, NoSocket, SendRefused, SendLine, SendBreaks,
                               TracerExit, linkVars, LogInv
      <3>3. known \in Nat BY DEF LogInv, TypeOK
      <3>4. fault = "map" => known' < Cardinality(Made') BY <3>1, <3>2, <3>3, MadeIs
      <3> QED BY <3>1, <3>4 DEF Closing
    <2> QED BY <2>0, <2>4, <2>5, <2>6 DEF Next
  <1> QED BY <1>1, <1>2, <1>3, LogInvHolds, PTL DEF Spec, LogFaultCause, Made

-----------------------------------------------------------------------------
(***************************************************************************)
(* The log server implements LineLog.  Two more facts are needed: what is  *)
(* in the log thread's hand is all of one tracer, and when the owner is    *)
(* past Stop there is no log thread.                                       *)
(***************************************************************************)
LineInv ==
  /\ \A i \in 1..Len(hand) : hand[i][1] = hand[1][1]
  /\ owner \in {"exit", "gone"} => pc \in {"off", "exited"}

LEMMA LineInvInit == Init => LineInv
  BY DEF Init, LineInv

(* What a step does to the lines in hand, and to the place of the thread. *)
LEMMA HandMoves ==
  ASSUME LogInv, [Next]_vars
  PROVE  hand' = hand \/ hand' = <<>> \/ \E t \in Tracers : RecvLines(t)
  <1>1. ASSUME NEW what, Dies(what) PROVE hand' = hand
    BY <1>1 DEF Dies, threadVars
  <1>2. CASE UNCHANGED vars BY <1>2 DEF vars, threadVars
  <1>3. CASE OwnerStep
    BY <1>1, <1>3 DEF OwnerStep, StartFile, StartEpoll, StartServer, StartWatch, StartThread,
                      CloseServer, CloseEpoll, StopThread, ProcessExit, threadVars
  <1>4. ASSUME NEW t \in Tracers, TracerStep(t) PROVE hand' = hand
    BY <1>4 DEF TracerStep, NoSocket, Connect, SendRefused, SendLine, SendBreaks, TracerExit,
                threadVars
  <1>5. CASE ThreadStep
    <2>1. ASSUME NEW t \in Tracers, Accept(t) PROVE hand' = hand
      BY <1>1, <2>1, AcceptIs DEF LogInv
    <2>2. ASSUME NEW t \in Tracers, RecvHangup(t) PROVE hand' = hand
      BY <2>2 DEF RecvHangup
    <2>3. CASE WriteLog BY <2>3 DEF WriteLog
    <2>4. CASE WaitEvents BY <1>1, <2>4 DEF WaitEvents
    <2>5. CASE ScanServer \/ LinkOnNull BY <1>1, <2>5 DEF ScanServer, LinkOnNull
    <2>6. CASE EnterThread \/ LoopEnds \/ Leave \/ ScanEnds
      BY <2>6 DEF EnterThread, LoopEnds, Leave, ScanEnds
    <2> QED BY <1>5, <2>1, <2>2, <2>3, <2>4, <2>5, <2>6 DEF ThreadStep
  <1> QED BY <1>2, <1>3, <1>4, <1>5 DEF Next

LEMMA OverMoves ==
  ASSUME LogInv, LineInv, [Next]_vars
  PROVE  /\ owner' \in {"exit", "gone"} => pc' \in {"off", "exited"}
         /\ Open' => Open
  <1> USE DEF LineInv, Open, ownerVars, threadVars
  <1>1. ASSUME NEW what \in {"overrun", "server", "map", "sigusr2"}, Dies(what)
        PROVE  owner' = owner /\ pc' = pc /\ ~Open'
    BY <1>1 DEF Dies
  <1>2. CASE UNCHANGED vars BY <1>2 DEF vars
  <1>3. CASE fault = "none" /\ OwnerStep
    <2>1. CASE StopThread /\ ~Dies("sigusr2")
      BY <1>3, <2>1 DEF StopThread, LogInv, TypeOK, Phases
    <2>2. CASE StopThread /\ Dies("sigusr2") BY <1>1, <2>2
    <2>3. CASE ~StopThread
      BY <1>3, <2>3 DEF OwnerStep, StartFile, StartEpoll, StartServer, StartWatch, StartThread,
                        CloseServer, CloseEpoll, ProcessExit, StartReturns
    <2> QED BY <2>1, <2>2, <2>3
  <1>4. ASSUME NEW t \in Tracers, TracerStep(t) PROVE UNCHANGED <<owner, pc, fault>>
    BY <1>4 DEF TracerStep, NoSocket, Connect, SendRefused, SendLine, SendBreaks, TracerExit
  <1>5. CASE fault = "none" /\ ThreadStep
    <2>1. CASE \E what \in {"overrun", "server", "map", "sigusr2"} : Dies(what) BY <1>1, <2>1
    <2>2. CASE \A what \in {"overrun", "server", "map", "sigusr2"} : ~Dies(what)
      <3>1. pc \notin {"off", "exited"} /\ owner' = owner
        <4>1. ASSUME NEW t \in Tracers, Accept(t) PROVE pc \notin {"off", "exited"} /\ owner' = owner
          BY <2>2, <4>1, AcceptIs DEF LogInv
        <4> QED BY <1>5, <2>2, <4>1
                DEF ThreadStep, EnterThread, WaitEvents, LoopEnds, Leave, ScanEnds, ScanServer,
                    LinkOnNull, WriteLog, RecvLines, RecvHangup
      <3> QED BY <1>5, <3>1
    <2> QED BY <2>1, <2>2
  <1> QED BY <1>2, <1>3, <1>4, <1>5 DEF Next

LEMMA LineInvStep ==
  ASSUME LogInv, LineInv, [Next]_vars PROVE LineInv'
  <1>1. \A i \in 1..Len(hand') : hand'[i][1] = hand'[1][1]
    <2>1. CASE hand' = hand BY <2>1 DEF LineInv
    <2>2. CASE hand' = <<>> BY <2>2
    <2>3. ASSUME NEW t \in Tracers, RecvLines(t)
          PROVE  \A i \in 1..Len(hand') : hand'[i][1] = hand'[1][1]
      <3>1. hand' = [i \in 1..Len(stream[t]) |-> <<t, stream[t][i]>>] /\ stream[t] \in Seq(Nat)
        BY <2>3 DEF RecvLines, LogInv, TypeOK
      <3>2. Len(stream[t]) \in Nat BY <3>1
      <3>3. Len(hand') = Len(stream[t]) BY <3>1, <3>2
      <3> QED BY <3>1, <3>2, <3>3
    <2> QED BY <2>1, <2>2, <2>3, HandMoves
  <1> QED BY <1>1, OverMoves DEF LineInv

(* The head of a sequence in two parts is taken away. *)
LEMMA TakeFront ==
  ASSUME NEW S, NEW a \in Seq(S), NEW b \in Seq(S)
  PROVE  SubSeq(a \o b, Len(a) + 1, Len(a \o b)) = b
  <1> DEFINE s == a \o b  A == Len(a)  B == Len(b)  c == SubSeq(s, A + 1, A + B)
  <1>1. /\ s \in Seq(S) /\ Len(s) = A + B /\ A \in Nat /\ B \in Nat
        /\ \A i \in 1..(A + B) : s[i] = IF i <= A THEN a[i] ELSE b[i - A]
    BY ConcatProperties, LenProperties
  <1> HIDE DEF s, A, B
  <1>2. \A i \in (A + 1)..(A + B) : s[i] \in S
    <2>1. \A i \in 1..Len(s) : s[i] \in S BY <1>1, ElementOfSeq
    <2> QED BY <1>1, <2>1
  <1>3. /\ c \in Seq(S) /\ Len(c) = IF A + 1 <= A + B THEN A + B - (A + 1) + 1 ELSE 0
        /\ \A i \in 1..(A + B - (A + 1) + 1) : c[i] = s[A + 1 + i - 1]
    BY <1>1, <1>2, SubSeqProperties
  <1>4. Len(c) = B BY <1>1, <1>3
  <1>5. ASSUME NEW i \in 1..B PROVE c[i] = b[i]
    <2>1. i \in 1..(A + B - (A + 1) + 1) /\ A + 1 + i - 1 = A + i BY <1>1
    <2>2. A + i \in 1..(A + B) /\ ~(A + i <= A) /\ A + i - A = i BY <1>1
    <2> QED BY <1>1, <1>3, <2>1, <2>2
  <1> HIDE DEF c
  <1>6. c = b BY <1>3, <1>4, <1>5, SeqEqual DEF B
  <1> QED BY <1>1, <1>6 DEF c, s, A, B

(* The queue of a tracer: what is in hand of it, and what is to come. *)
LEMMA HandOfIs ==
  ASSUME TypeOK, LineInv, NEW t \in Tracers
  PROVE  /\ HandOf(t) \in Seq(Nat)
         /\ hand # <<>> /\ hand[1][1] = t =>
              /\ Len(HandOf(t)) = Len(hand) /\ Len(hand) \in Nat \ {0}
              /\ \A i \in 1..Len(hand) : hand[i] = <<t, HandOf(t)[i]>>
         /\ hand = <<>> \/ hand[1][1] # t => HandOf(t) = <<>>
  <1>1. CASE hand # <<>> /\ hand[1][1] = t
    <2>1. hand \in Seq(Tracers \X Nat) /\ Len(hand) \in Nat BY DEF TypeOK
    <2>2. \A i \in 1..Len(hand) : hand[i] \in Tracers \X Nat BY <2>1
    <2>3. HandOf(t) = [i \in 1..Len(hand) |-> hand[i][2]] BY <1>1 DEF HandOf
    <2>4. HandOf(t) \in Seq(Nat) /\ Len(HandOf(t)) = Len(hand) BY <2>1, <2>2, <2>3
    <2>5. ASSUME NEW i \in 1..Len(hand) PROVE hand[i] = <<t, HandOf(t)[i]>>
      <3>1. hand[i][1] = t BY <1>1 DEF LineInv
      <3>2. hand[i] = <<hand[i][1], hand[i][2]>> BY <2>2
      <3> QED BY <2>3, <3>1, <3>2
    <2>6. Len(hand) # 0 BY <1>1, <2>1
    <2> QED BY <1>1, <2>1, <2>4, <2>5, <2>6
  <1>2. CASE ~(hand # <<>> /\ hand[1][1] = t)
    <2>1. HandOf(t) = <<>> BY <1>2 DEF HandOf
    <2> QED BY <1>2, <2>1
  <1> QED BY <1>1, <1>2

(* A step that moves no line between the queues and the log. *)
LEMMA LinesRest ==
  ASSUME UNCHANGED <<said, accepted, file, Queues>>, Open' => Open
  PROVE  [LL!Next]_(LL!vars)
  <1>1. CASE Open' = Open BY <1>1 DEF LL!vars
  <1>2. CASE Open /\ ~Open'
    <2>1. Open = TRUE /\ Open' = FALSE BY <1>2 DEF Open
    <2>2. LL!End BY <2>1 DEF LL!End
    <2> QED BY <2>2 DEF LL!Next
  <1> QED BY <1>1, <1>2 DEF Open

LEMMA QueuesRest ==
  ASSUME UNCHANGED <<hand, stream>> PROVE Queues' = Queues
  BY DEF Queues, HandOf

(* The log thread is ended with lines in its hand. *)
LEMMA LinesDropped ==
  ASSUME LogInv, LineInv, UNCHANGED <<said, accepted, stream, file>>, hand' = <<>>,
         Open' => Open, hand # <<>> => Open /\ ~Open'
  PROVE  [LL!Next]_(LL!vars)
  <1>1. CASE hand = <<>> BY <1>1, QueuesRest, LinesRest
  <1>2. CASE hand # <<>>
    <2> DEFINE t == hand[1][1]  n == Len(hand)
    <2>1. TypeOK BY DEF LogInv
    <2>2. hand \in Seq(Tracers \X Nat) /\ Len(hand) \in Nat \ {0} BY <1>2, <2>1 DEF TypeOK
    <2>3. t \in Tracers
      <3>1. hand[1] \in Tracers \X Nat BY <2>2
      <3> QED BY <3>1
    <2> HIDE DEF t
    <2>4. /\ HandOf(t) \in Seq(Nat) /\ Len(HandOf(t)) = n /\ n \in Nat \ {0}
      BY <1>2, <2>1, <2>3, HandOfIs DEF t
    <2>5. \A u \in Tracers \ {t} : HandOf(u) = <<>> BY <2>1, HandOfIs DEF t
    <2>6. stream \in [Tracers -> Seq(Nat)] BY <2>1 DEF TypeOK
    <2>7. \A u \in Tracers : HandOf(u)' = <<>> BY DEF HandOf
    <2>8. Queues' = [u \in Tracers |-> stream[u]]
      <3>1. \A u \in Tracers : <<>> \o stream[u] = stream[u] BY <2>6
      <3>2. Queues' = [u \in Tracers |-> HandOf(u)' \o stream'[u]] BY DEF Queues
      <3> QED BY <2>7, <3>1, <3>2
    <2>9. /\ Queues[t] = HandOf(t) \o stream[t]
          /\ \A u \in Tracers \ {t} : Queues[u] = stream[u]
      BY <2>3, <2>5, <2>6 DEF Queues
    <2>10. SubSeq(Queues[t], n + 1, Len(Queues[t])) = stream[t]
      BY <2>3, <2>4, <2>6, <2>9, TakeFront
    <2>11. Queues' = [Queues EXCEPT ![t] = SubSeq(Queues[t], n + 1, Len(Queues[t]))]
      BY <2>3, <2>8, <2>9, <2>10 DEF Queues
    <2>12. n \in 1..Len(Queues[t])
      <3>0. stream[t] \in Seq(Nat) /\ HandOf(t) \in Seq(Nat) BY <2>3, <2>4, <2>6
      <3>1. /\ Len(HandOf(t) \o stream[t]) = Len(HandOf(t)) + Len(stream[t])
            /\ Len(stream[t]) \in Nat
        BY <3>0, ConcatIs
      <3> HIDE DEF n
      <3> QED BY <2>4, <2>9, <3>1
    <2>13. LL!Takes(t, n) BY <2>11 DEF LL!Takes
    <2>14. Open = TRUE /\ Open' = FALSE BY <1>2 DEF Open
    <2>15. LL!End BY <2>3, <2>12, <2>13, <2>14 DEF LL!End
    <2> QED BY <2>15 DEF LL!Next
  <1> QED BY <1>1, <1>2

LEMMA LinesStored ==
  ASSUME LogInv, LineInv, fault = "none", WriteLog
  PROVE  [LL!Next]_(LL!vars)
  <1>1. /\ pc = "write" /\ file' = file \o hand /\ hand' = <<>>
        /\ UNCHANGED <<said, accepted, stream, owner, fault>>
    BY DEF WriteLog, ownerVars, tracerVars, linkVars
  <1>2. Open /\ Open' BY <1>1 DEF Open, LineInv
  <1>3. CASE hand = <<>>
    <2>1. file' = file BY <1>1, <1>3, ConcatEmpty DEF LogInv, TypeOK
    <2> QED BY <1>1, <1>2, <1>3, <2>1, QueuesRest, LinesRest
  <1>4. CASE hand # <<>>
    <2> DEFINE t == hand[1][1]  n == Len(hand)
    <2>1. TypeOK BY DEF LogInv
    <2>2. hand \in Seq(Tracers \X Nat) /\ Len(hand) \in Nat \ {0} BY <1>4, <2>1 DEF TypeOK
    <2>3. t \in Tracers
      <3>1. hand[1] \in Tracers \X Nat BY <2>2
      <3> QED BY <3>1
    <2> HIDE DEF t
    <2>4. /\ HandOf(t) \in Seq(Nat) /\ Len(HandOf(t)) = n /\ n \in Nat \ {0}
          /\ \A i \in 1..n : hand[i] = <<t, HandOf(t)[i]>>
      BY <1>4, <2>1, <2>3, HandOfIs DEF t
    <2>5. \A u \in Tracers \ {t} : HandOf(u) = <<>> BY <2>1, HandOfIs DEF t
    <2>6. stream \in [Tracers -> Seq(Nat)] BY <2>1 DEF TypeOK
    <2>7. \A u \in Tracers : HandOf(u)' = <<>> BY <1>1 DEF HandOf
    <2>8. Queues' = [u \in Tracers |-> stream[u]]
      <3>1. \A u \in Tracers : <<>> \o stream[u] = stream[u] BY <2>6
      <3>2. Queues' = [u \in Tracers |-> HandOf(u)' \o stream'[u]] BY DEF Queues
      <3> QED BY <1>1, <2>7, <3>1, <3>2
    <2>9. /\ Queues[t] = HandOf(t) \o stream[t]
          /\ \A u \in Tracers \ {t} : Queues[u] = stream[u]
      BY <2>3, <2>5, <2>6 DEF Queues
    <2>10. SubSeq(Queues[t], n + 1, Len(Queues[t])) = stream[t]
      BY <2>3, <2>4, <2>6, <2>9, TakeFront
    <2>11. Queues' = [Queues EXCEPT ![t] = SubSeq(Queues[t], n + 1, Len(Queues[t]))]
      BY <2>3, <2>8, <2>9, <2>10 DEF Queues
    <2>12. /\ n \in 1..Len(Queues[t])
           /\ \A i \in 1..n : Queues[t][i] = HandOf(t)[i]
      <3>0. stream[t] \in Seq(Nat) /\ HandOf(t) \in Seq(Nat) BY <2>3, <2>4, <2>6
      <3>1. /\ Len(HandOf(t) \o stream[t]) = Len(HandOf(t)) + Len(stream[t])
            /\ Len(stream[t]) \in Nat
            /\ \A i \in 1..Len(HandOf(t)) : (HandOf(t) \o stream[t])[i] = HandOf(t)[i]
        BY <3>0, ConcatIs
      <3> HIDE DEF n
      <3> QED BY <2>4, <2>9, <3>1
    <2>13. hand = [i \in 1..n |-> <<t, Queues[t][i]>>]
      <3>1. hand = [i \in 1..n |-> hand[i]] BY <2>2
      <3> QED BY <2>4, <2>12, <3>1
    <2>14. LL!Takes(t, n) BY <2>11 DEF LL!Takes
    <2>15. file' = file \o [i \in 1..n |-> <<t, Queues[t][i]>>]
      <3> HIDE DEF n
      <3> QED BY <1>1, <2>13
    <2>16. LL!Store(t, n)
      <3>1. Open' = Open BY <1>2 DEF Open
      <3> HIDE DEF n
      <3> QED BY <1>1, <1>2, <2>14, <2>15, <3>1 DEF LL!Store
    <2> QED BY <2>3, <2>12, <2>16 DEF LL!Next
  <1> QED BY <1>3, <1>4

LEMMA LinesRead ==
  ASSUME LogInv, LineInv, NEW t \in Tracers, RecvLines(t)
  PROVE  [LL!Next]_(LL!vars)
  <1> DEFINE s == stream[t]
  <1>1. /\ pc = "scan" /\ s # <<>> /\ stream' = [stream EXCEPT ![t] = <<>>]
        /\ hand' = [i \in 1..Len(s) |-> <<t, s[i]>>]
        /\ UNCHANGED <<owner, fault, said, accepted, file>>
    BY DEF RecvLines, LinesLeft, ownerVars, tracerVars
  <1>2. hand = <<>> BY <1>1 DEF LogInv, Numbered
  <1>3. TypeOK /\ stream \in [Tracers -> Seq(Nat)] /\ s \in Seq(Nat) BY DEF LogInv, TypeOK
  <1>4. Len(s) \in Nat /\ Len(s) # 0 BY <1>1, <1>3
  <1> HIDE DEF s
  <1>5. Len(hand') = Len(s) /\ hand'[1] = <<t, s[1]>> /\ hand' # <<>> BY <1>1, <1>4
  <1>6. HandOf(t)' = [i \in 1..Len(s) |-> hand'[i][2]] BY <1>5 DEF HandOf
  <1>7. HandOf(t)' = s
    <2>1. \A i \in 1..Len(s) : hand'[i][2] = s[i] BY <1>1
    <2>2. s = [i \in 1..Len(s) |-> s[i]] BY <1>3
    <2> QED BY <1>6, <2>1, <2>2
  <1>8. \A u \in Tracers \ {t} : HandOf(u)' = <<>> BY <1>5 DEF HandOf
  <1>9. \A u \in Tracers : HandOf(u) = <<>> BY <1>2 DEF HandOf
  <1>10. \A u \in Tracers : HandOf(u)' \o stream'[u] = HandOf(u) \o stream[u]
    <2>1. ASSUME NEW u \in Tracers, u # t
          PROVE  HandOf(u)' \o stream'[u] = HandOf(u) \o stream[u]
      BY <1>1, <1>3, <1>8, <1>9, <2>1
    <2>2. HandOf(t)' \o stream'[t] = s
      <3>1. stream'[t] = <<>> BY <1>1, <1>3
      <3> QED BY <1>3, <1>7, <3>1, ConcatEmpty
    <2>3. HandOf(t) \o stream[t] = s
      <3>1. <<>> \o s = s BY <1>3
      <3> QED BY <1>9, <3>1 DEF s
    <2> QED BY <2>1, <2>2, <2>3
  <1>11. Queues' = Queues
    <2>1. Queues' = [u \in Tracers |-> HandOf(u)' \o stream'[u]] BY DEF Queues
    <2> QED BY <1>10, <2>1 DEF Queues
  <1>12. Open' = Open BY <1>1 DEF Open
  <1> QED BY <1>1, <1>11, <1>12, LinesRest

LEMMA LineWritten ==
  ASSUME LogInv, LineInv, NEW t \in Tracers, SendLine(t)
  PROVE  LL!Next
  <1>1. /\ said' = [said EXCEPT ![t] = @ + 1] /\ accepted' = [accepted EXCEPT ![t] = @ + 1]
        /\ stream' = [stream EXCEPT ![t] = Append(stream[t], said[t] + 1)]
        /\ UNCHANGED <<owner, fault, hand, file>>
    BY DEF SendLine, Says, ownerVars, threadVars
  <1>2. /\ TypeOK /\ stream \in [Tracers -> Seq(Nat)] /\ said[t] + 1 \in Nat
        /\ HandOf(t) \in Seq(Nat)
    BY HandOfIs DEF LogInv, TypeOK
  <1>3. \A u \in Tracers : HandOf(u)' = HandOf(u) BY <1>1 DEF HandOf
  <1>4. HandOf(t) \o Append(stream[t], said[t] + 1) = Append(HandOf(t) \o stream[t], said[t] + 1)
    <2>1. ASSUME NEW a \in Seq(Nat), NEW b \in Seq(Nat), NEW x \in Nat
          PROVE  a \o Append(b, x) = Append(a \o b, x)
      OBVIOUS
    <2> QED BY <1>2, <2>1
  <1>5. Queues' = [Queues EXCEPT ![t] = Append(Queues[t], said[t] + 1)]
    <2>1. Queues' = [u \in Tracers |-> HandOf(u)' \o stream'[u]] BY DEF Queues
    <2>2. \A u \in Tracers \ {t} : HandOf(u)' \o stream'[u] = HandOf(u) \o stream[u]
      BY <1>1, <1>2, <1>3
    <2>3. HandOf(t)' \o stream'[t] = Append(HandOf(t) \o stream[t], said[t] + 1)
      BY <1>1, <1>2, <1>3, <1>4
    <2> QED BY <2>1, <2>2, <2>3 DEF Queues
  <1>6. Open' = Open BY <1>1 DEF Open
  <1>7. LL!Write(t) BY <1>1, <1>5, <1>6 DEF LL!Write
  <1> QED BY <1>7 DEF LL!Next

(* A call of Trace that writes nothing comes before the thread's first line. *)
LEMMA LineDropped ==
  ASSUME LogInv, NEW t \in Tracers, NoSocket(t) \/ SendRefused(t)
  PROVE  LL!Next
  <1>1. /\ client[t] \in {"fresh", "half"} /\ Says(t)
        /\ UNCHANGED <<owner, fault, accepted, stream, hand, file>>
    BY DEF NoSocket, SendRefused, ownerVars, linkVars, threadVars
  <1>2. accepted[t] = 0 BY <1>1 DEF LogInv, Clients, ClientOf
  <1>3. Queues' = Queues BY <1>1, QueuesRest
  <1>4. Open' = Open BY <1>1 DEF Open
  <1>5. LL!Drop(t) BY <1>1, <1>2, <1>3, <1>4 DEF LL!Drop, Says
  <1> QED BY <1>5 DEF LL!Next

LEMMA LineStep ==
  ASSUME LogInv, LineInv, [Next]_vars PROVE [LL!Next]_(LL!vars)
  <1>0. Open' => Open BY OverMoves
  <1>1. ASSUME UNCHANGED <<said, accepted, stream, hand, file>> PROVE [LL!Next]_(LL!vars)
    BY <1>0, <1>1, QueuesRest, LinesRest
  <1>2. ASSUME NEW what, Dies(what) PROVE [LL!Next]_(LL!vars)
    BY <1>1, <1>2 DEF Dies, tracerVars, threadVars
  <1>3. CASE UNCHANGED vars BY <1>1, <1>3 DEF vars, tracerVars, linkVars, threadVars
  <1>4. CASE fault = "none" /\ OwnerStep
    <2>1. CASE StopThread /\ ~Dies("sigusr2")
      <3>1. /\ owner = "stop" /\ owner' = "exit" /\ hand' \in {hand, <<>>}
            /\ UNCHANGED <<said, accepted, stream, file>>
        BY <2>1 DEF StopThread, tracerVars, linkVars
      <3>2. Open /\ ~Open' BY <1>4, <3>1 DEF Open
      <3> QED BY <1>0, <1>1, <3>1, <3>2, LinesDropped
    <2>2. CASE ProcessExit
      <3>1. /\ owner = "exit" /\ hand' = <<>> /\ UNCHANGED <<said, accepted, stream, file>>
        BY <2>2 DEF ProcessExit, tracerVars
      <3>2. hand = <<>> BY <3>1 DEF LineInv, LogInv, Numbered
      <3> QED BY <1>1, <3>1, <3>2
    <2>3. CASE StopThread /\ Dies("sigusr2") BY <1>2, <2>3
    <2>4. CASE ~StopThread /\ ~ProcessExit
      BY <1>1, <1>4, <2>4
         DEF OwnerStep, StartFile, StartEpoll, StartServer, StartWatch, StartThread, CloseServer,
             CloseEpoll, tracerVars, linkVars, threadVars
    <2> QED BY <2>1, <2>2, <2>3, <2>4
  <1>5. ASSUME NEW t \in Tracers, TracerStep(t) PROVE [LL!Next]_(LL!vars)
    <2>1. CASE SendLine(t) BY <2>1, LineWritten
    <2>2. CASE NoSocket(t) \/ SendRefused(t) BY <2>2, LineDropped
    <2>3. CASE Connect(t) \/ SendBreaks(t) \/ TracerExit(t)
      BY <1>1, <2>3 DEF Connect, SendBreaks, TracerExit, linkVars, threadVars
    <2> QED BY <1>5, <2>1, <2>2, <2>3 DEF TracerStep
  <1>6. CASE fault = "none" /\ ThreadStep
    <2>1. CASE WriteLog BY <1>6, <2>1, LinesStored
    <2>2. ASSUME NEW t \in Tracers, RecvLines(t) PROVE [LL!Next]_(LL!vars)
      BY <2>2, LinesRead
    <2>3. ASSUME NEW t \in Tracers, Accept(t) PROVE [LL!Next]_(LL!vars)
      BY <1>1, <1>2, <2>3, AcceptIs DEF LogInv, tracerVars
    <2>4. ASSUME NEW t \in Tracers, RecvHangup(t) PROVE [LL!Next]_(LL!vars)
      BY <1>1, <2>4 DEF RecvHangup, tracerVars
    <2>5. CASE WaitEvents BY <1>1, <1>2, <2>5 DEF WaitEvents, tracerVars, linkVars
    <2>6. CASE ScanServer \/ LinkOnNull
      BY <1>1, <1>2, <2>6 DEF ScanServer, LinkOnNull, tracerVars, linkVars
    <2>7. CASE EnterThread \/ LoopEnds \/ Leave \/ ScanEnds
      BY <1>1, <2>7 DEF EnterThread, LoopEnds, Leave, ScanEnds, tracerVars, linkVars
    <2> QED BY <1>6, <2>1, <2>2, <2>3, <2>4, <2>5, <2>6, <2>7 DEF ThreadStep
  <1> QED BY <1>3, <1>4, <1>5, <1>6 DEF Next

(***************************************************************************)
(* Every behaviour of the log server (Logger.h:68-121, 137-200) is, seen   *)
(* from the threads that trace, a behaviour of LineLog: one queue each,    *)
(* stored in order and without a gap, each line once, however the threads  *)
(* and the server's Start and Close interleave.                            *)
(***************************************************************************)
THEOREM LoggerRefinesLineLog == Spec => ImplementsLineLog
  <1>1. Init => LL!Init
    <2> SUFFICES ASSUME Init PROVE LL!Init
      OBVIOUS
    <2>1. \A t \in Tracers : HandOf(t) \o stream[t] = <<>> BY DEF Init, HandOf
    <2>2. Queues = [t \in Tracers |-> <<>>] BY <2>1 DEF Queues
    <2>3. Open = TRUE BY DEF Init, Open
    <2> QED BY <2>2, <2>3 DEF Init, LL!Init
  <1>2. LogInv /\ LineInv /\ [Next]_vars => LineInv' BY LineInvStep
  <1>3. LogInv /\ LineInv /\ [Next]_vars => [LL!Next]_(LL!vars) BY LineStep
  <1> QED BY <1>1, <1>2, <1>3, LineInvInit, LogInvHolds, PTL DEF Spec, ImplementsLineLog, LL!Spec

-----------------------------------------------------------------------------
(* The three lines of Epoll.h and Thread.h as written. *)

Mute == file = <<>> /\ \A t \in Tracers : conn[t] # "live"

MuteInv ==
  /\ Mute
  /\ "epoll_create" \notin Fixes => m_epoll = -1
  /\ pc \notin {"scan", "link", "write"}

LEMMA WaitOverruns ==
  ASSUME "events_resize" \notin Fixes, Ready # {}, NEW E \in WaitResults(Ready)
  PROVE  CopyOverruns(E)
  <1>1. CASE E = {}
    <2>1. Cardinality(E) = 0 BY <1>1, FS_EmptySet
    <2>2. E = Ready \/ Cardinality(E) = EVENT_SIZE BY DEF WaitResults
    <2> QED BY <1>1, <2>1, <2>2 DEF EVENT_SIZE
  <1> QED BY <1>1 DEF CopyOverruns

LEMMA MuteStep ==
  ASSUME ~({"epoll_create", "events_resize"} \subseteq Fixes /\ "thread_valid" \in LogFixes),
         LogInv, MuteInv, [Next]_vars
  PROVE  MuteInv'
  <1> USE DEF MuteInv, Mute, ownerVars, epollVars, tracerVars, linkVars, threadVars
  <1>0. TypeOK BY DEF LogInv
  <1>1. ASSUME NEW what, Dies(what) PROVE MuteInv'
    <2>1. \A t \in Tracers : conn'[t] # "live" BY <1>1 DEF Dies, AllFreed
    <2> QED BY <1>1, <2>1 DEF Dies
  <1>2. CASE UNCHANGED vars BY <1>2 DEF vars
  <1>3. CASE OwnerStep
    <2> USE <1>0 DEF TypeOK
    <2>1. CASE StartFile BY <2>1 DEF StartFile
    <2>2. CASE StartEpoll
      <3>1. "epoll_create" \notin Fixes => \A r \in CreateResults(m_epoll, MayFail) : r[2] = -1
        BY DEF CreateResults, CreateRefused
      <3> QED BY <2>2, <3>1 DEF StartEpoll
    <2>3. CASE StartServer BY <2>3 DEF StartServer
    <2>4. CASE StartWatch BY <2>4 DEF StartWatch
    <2>5. CASE StartThread BY <2>5 DEF StartThread, Reset
    <2>6. CASE CloseServer BY <2>6 DEF CloseServer, Reset
    <2>7. CASE CloseEpoll BY <2>7 DEF CloseEpoll
    <2>8. CASE StopThread BY <1>1, <2>8 DEF StopThread
    <2>9. CASE ProcessExit BY <2>9 DEF ProcessExit, AllFreed
    <2> QED BY <1>3, <2>1, <2>2, <2>3, <2>4, <2>5, <2>6, <2>7, <2>8, <2>9 DEF OwnerStep
  <1>4. ASSUME NEW t \in Tracers, TracerStep(t) PROVE MuteInv'
    <2>1. CASE Connect(t) BY <1>0, <2>1, ConnectIs DEF Connect
    <2> QED BY <1>4, <2>1 DEF TracerStep, NoSocket, SendRefused, SendLine, SendBreaks, TracerExit
  <1>5. CASE ThreadStep
    <2>1. CASE EnterThread \/ Leave BY <2>1 DEF EnterThread, Leave
    <2>2. CASE LoopEnds BY <1>0, <2>2 DEF LoopEnds, TypeOK
    <2>3. CASE WaitEvents
      <3>1. IsValid /\ m_epoll # -1 /\ pc = "loop" BY <2>3 DEF WaitEvents
      <3>2. "thread_valid" \in LogFixes /\ "epoll_create" \in Fixes
        BY <3>1 DEF IsValid, LogInv, Phases
      <3>3. "events_resize" \notin Fixes BY <3>2
      <3>4. Dies("overrun") BY <2>3, <3>3, WaitOverruns DEF WaitEvents
      <3> QED BY <1>1, <3>4
    <2> QED
      BY <1>5, <2>1, <2>2, <2>3
         DEF ThreadStep, ScanEnds, ScanServer, LinkOnNull, WriteLog, Accept, RecvLines, RecvHangup
  <1> QED BY <1>2, <1>3, <1>4, <1>5 DEF Next

(***************************************************************************)
(* As long as one of three lines is as it is written - the guard of Create *)
(* (Epoll.h:64), the resize of the events (Epoll.h:79), isValid            *)
(* (Thread.h:85) - the log server accepts nobody and the log file stays    *)
(* empty, whoever traces and whatever fails.                               *)
(***************************************************************************)
THEOREM AsWrittenNothingLogged ==
  ASSUME ~({"epoll_create", "events_resize"} \subseteq Fixes /\ "thread_valid" \in LogFixes)
  PROVE  Spec => []Mute
  <1>1. Init => MuteInv BY DEF Init, MuteInv, Mute
  <1>2. LogInv /\ MuteInv /\ [Next]_vars => MuteInv' BY MuteStep
  <1>3. MuteInv => Mute BY DEF MuteInv
  <1> QED BY <1>1, <1>2, <1>3, LogInvHolds, PTL DEF Spec
=============================================================================

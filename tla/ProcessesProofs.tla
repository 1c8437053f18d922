-------------------------- MODULE ProcessesProofs ---------------------------
(***************************************************************************)
(* What holds of the three processes for every bound, with and without     *)
(* failures and kills, and for every choice of repairs.                    *)
(***************************************************************************)
EXTENDS Processes, TLAPS

(***************************************************************************)
(* The inductive invariant.  Who holds an end follows from where everybody *)
(* is: in particular the business process holds the written end of the log *)
(* server's pair as long as it lives.                                      *)
(***************************************************************************)
Alive(p) == at[p] \notin {"off", "gone"}

Phases ==
  /\ at["main"] \in {"forkLog", "closeL0", "forkBiz", "closeB0", "setUp", "run", "close", "gone"}
  /\ at["log"] \in {"off", "closeL1", "start", "wait", "close", "gone"}
  /\ at["biz"] \in {"off", "closeB1", "startUp", "recv", "trace", "gone"}
  /\ at["main"] \in {"closeL0", "forkBiz", "closeB0", "setUp", "run", "close"} => at["log"] # "off"
  /\ at["main"] \in {"forkLog", "closeL0", "forkBiz"} => at["biz"] = "off"
  /\ at["main"] \in {"closeB0", "setUp", "run"} => at["biz"] # "off"
  /\ at["main"] = "forkLog" => at["log"] = "off"

Holders ==
  /\ "main" \in holds["L1"] <=> at["main"] \notin {"forkLog", "gone"}
  /\ "biz" \in holds["L1"] <=> Alive("biz")
  /\ "biz" \in holds["B0"] <=> Alive("biz")
  /\ "main" \in holds["B1"] <=> at["biz"] # "off" /\ ~Gone("main")
  /\ at["main"] = "forkLog" => holds = [e \in Ends |-> {}]

(* What a process that is about to end has found out. *)
Signs ==
  /\ at["log"] = "close" /\ HeaderOK => Gone("main") /\ ~Alive("biz")
  /\ at["biz"] = "trace" /\ got = "zero" /\ HeaderOK => Gone("main")
  /\ conn = "open" => reader # "off" \/ Gone("log")
  /\ \A p \in Procs : why[p] # "none" => Gone(p)

ProcInv == TypeOK /\ Phases /\ Holders /\ Signs /\ LogOutlives /\ EndsHaveACause

LEMMA InitInv == Init => ProcInv
  <1> SUFFICES ASSUME Init PROVE ProcInv
    OBVIOUS
  <1> USE BoundsAssumption DEF Init, Procs, Ends
  <1>1. TypeOK BY DEF TypeOK
  <1>2. Phases BY DEF Phases
  <1>3. Holders BY DEF Holders, Alive, Gone
  <1>4. Signs BY DEF Signs, Gone
  <1>5. LogOutlives /\ EndsHaveACause BY DEF LogOutlives, EndsHaveACause, Gone
  <1> QED BY <1>1, <1>2, <1>3, <1>4, <1>5 DEF ProcInv

-----------------------------------------------------------------------------
(***************************************************************************)
(* A process may end at any time, if it has a cause or something has       *)
(* happened before.                                                        *)
(***************************************************************************)
Caused(reason) ==
  \/ reason \in {"kill", "init", "startup"}
  \/ \E p \in Procs : Gone(p)
  \/ ~HeaderOK

LEMMA ExitKeeps ==
  ASSUME ProcInv, NEW p \in Procs, NEW reason \in {"init", "startup", "sigpipe", "eof", "kill"},
         Alive(p), Exits(p, reason), UNCHANGED repairs,
         Caused(reason),
         p = "log" /\ reason = "eof" /\ HeaderOK => Gone("main") /\ ~Alive("biz")
  PROVE  ProcInv'
  <1> USE DEF ProcInv, Procs, Ends, Exits, Goes, Gone, Alive, HeaderOK
  <1>1. TypeOK' BY DEF TypeOK
  <1>2. Phases' BY DEF Phases, TypeOK
  <1>3. Holders' BY DEF Holders, Phases, TypeOK
  <1>4. Signs' BY DEF Signs, TypeOK
  <1>5. LogOutlives' BY DEF LogOutlives, TypeOK, Signs
  <1>6. EndsHaveACause'
    <2>1. why[p] = "none" BY DEF Signs
    <2>2. why'[p] = reason BY DEF TypeOK
    <2>3. \A q \in Procs : why[q] \in {"kill", "init", "startup"} => why'[q] = why[q]
      BY <2>1 DEF TypeOK
    <2> QED BY <2>2, <2>3 DEF EndsHaveACause, Caused
  <1> QED BY <1>1, <1>2, <1>3, <1>4, <1>5, <1>6 DEF ProcInv

-----------------------------------------------------------------------------
(* The steps of the main process. *)

LEMMA MainKeeps ==
  ASSUME ProcInv, MainStep, UNCHANGED repairs PROVE ProcInv'
  <1> USE DEF Procs, Ends, Gone, Alive, HeaderOK
  <1>1. CASE ForkLog
    <2>1. CASE Exits("main", "init")
      BY <1>1, <2>1, ExitKeeps DEF ForkLog, Caused
    <2>2. CASE Forks("log", {"L0", "L1"}, "closeL0", "closeL1")
      <3> USE <1>1, <2>2 DEF ForkLog, Forks, restVars, ProcInv
      <3>1. TypeOK' BY DEF TypeOK
      <3>2. Phases' BY DEF Phases, TypeOK
      <3>3. Holders' BY DEF Holders, Phases, TypeOK
      <3>4. Signs' BY DEF Signs, TypeOK, Phases
      <3>5. LogOutlives' /\ EndsHaveACause'
        BY DEF LogOutlives, EndsHaveACause, TypeOK, Signs, Phases
      <3> QED BY <3>1, <3>2, <3>3, <3>4, <3>5 DEF ProcInv
    <2> QED BY <1>1, <2>1, <2>2 DEF ForkLog
  <1>2. CASE ForkBusiness
    <2>1. CASE Forks("biz", {"B0", "B1"}, "closeB0", "closeB1")
      <3> USE <1>2, <2>1 DEF ForkBusiness, Forks, restVars, ProcInv
      <3>1. TypeOK' BY DEF TypeOK
      <3>2. Phases' BY DEF Phases, TypeOK
      <3>3. Holders' BY DEF Holders, Phases, TypeOK
      <3>4. Signs' BY DEF Signs, TypeOK, Phases
      <3>5. LogOutlives' /\ EndsHaveACause'
        BY DEF LogOutlives, EndsHaveACause, TypeOK, Signs, Phases
      <3> QED BY <3>1, <3>2, <3>3, <3>4, <3>5 DEF ProcInv
    <2>2. CASE Goes("main", "close") /\ UNCHANGED <<why, holds, restVars>>
      <3> USE <1>2, <2>2 DEF ForkBusiness, Goes, restVars, ProcInv
      <3>1. TypeOK' BY DEF TypeOK
      <3>2. Phases' BY DEF Phases, TypeOK
      <3>3. Holders' BY DEF Holders, Phases, TypeOK
      <3>4. Signs' BY DEF Signs, TypeOK
      <3>5. LogOutlives' /\ EndsHaveACause'
        BY DEF LogOutlives, EndsHaveACause, TypeOK, Signs, Phases
      <3> QED BY <3>1, <3>2, <3>3, <3>4, <3>5 DEF ProcInv
    <2> QED BY <1>2, <2>1, <2>2 DEF ForkBusiness
  <1>3. CASE MainCloses \/ SetUp
    <2> USE <1>3 DEF MainCloses, Closes, SetUp, Goes, restVars, ProcInv
    <2>1. TypeOK' BY DEF TypeOK
    <2>2. Phases' BY DEF Phases, TypeOK
    <2>3. Holders' BY DEF Holders, Phases, TypeOK
    <2>4. Signs' BY DEF Signs, TypeOK
    <2>5. LogOutlives' /\ EndsHaveACause'
      BY DEF LogOutlives, EndsHaveACause, TypeOK, Signs, Phases
    <2> QED BY <2>1, <2>2, <2>3, <2>4, <2>5 DEF ProcInv
  <1>4. CASE CloseServer
    BY <1>4, ExitKeeps DEF CloseServer, Caused
  <1> QED BY <1>1, <1>2, <1>3, <1>4 DEF MainStep

LEMMA SendKeeps ==
  ASSUME ProcInv, SendSocket, UNCHANGED repairs PROVE ProcInv'
  <1> USE DEF Procs, Ends, Gone, Alive, HeaderOK
  <1>1. CASE holds["B0"] = {} /\ Exits("main", "sigpipe")
    <2>1. Gone("biz")
      BY <1>1 DEF SendSocket, ProcInv, Holders, Phases
    <2> QED BY <1>1, <2>1, ExitKeeps DEF SendSocket, Caused
  <1>2. CASE ~(holds["B0"] = {} /\ Exits("main", "sigpipe"))
    <2> USE <1>2 DEF SendSocket, ProcInv
    <2>1. TypeOK' BY DEF TypeOK
    <2>2. Phases' /\ Holders' BY DEF Phases, Holders
    <2>3. Signs' BY DEF Signs
    <2>4. LogOutlives' /\ EndsHaveACause' BY DEF LogOutlives, EndsHaveACause
    <2> QED BY <2>1, <2>2, <2>3, <2>4 DEF ProcInv
  <1> QED BY <1>1, <1>2

-----------------------------------------------------------------------------
(* The steps of the business process. *)

LEMMA BusinessKeeps ==
  ASSUME ProcInv, BusinessStep, UNCHANGED repairs PROVE ProcInv'
  <1> USE DEF Procs, Ends, Gone, Alive, HeaderOK
  <1>1. CASE BusinessEntry
    <2> USE <1>1 DEF BusinessEntry, Closes, Goes, restVars, ProcInv
    <2>1. TypeOK' BY DEF TypeOK
    <2>2. Phases' BY DEF Phases, TypeOK
    <2>3. Holders' BY DEF Holders, Phases, TypeOK
    <2>4. Signs' BY DEF Signs, TypeOK
    <2>5. LogOutlives' /\ EndsHaveACause'
      BY DEF LogOutlives, EndsHaveACause, TypeOK, Signs
    <2> QED BY <2>1, <2>2, <2>3, <2>4, <2>5 DEF ProcInv
  <1>2. CASE StartUp
    <2>1. CASE Exits("biz", "startup")
      BY <1>2, <2>1, ExitKeeps DEF StartUp, Caused
    <2>2. CASE Goes("biz", "recv") /\ UNCHANGED <<why, holds, restVars>>
      <3> USE <1>2, <2>2 DEF StartUp, Goes, restVars, ProcInv
      <3>1. TypeOK' BY DEF TypeOK
      <3>2. Phases' BY DEF Phases, TypeOK
      <3>3. Holders' BY DEF Holders, Phases, TypeOK
      <3>4. Signs' BY DEF Signs, TypeOK
      <3>5. LogOutlives' /\ EndsHaveACause'
        BY DEF LogOutlives, EndsHaveACause, TypeOK, Signs
      <3> QED BY <3>1, <3>2, <3>3, <3>4, <3>5 DEF ProcInv
    <2> QED BY <1>2, <2>1, <2>2 DEF StartUp
  <1>3. CASE RecvSocket
    <2> USE <1>3 DEF RecvSocket, Goes, ProcInv
    <2>1. TypeOK' BY DEF TypeOK
    <2>2. Phases' BY DEF Phases, TypeOK
    <2>3. Holders' BY DEF Holders, Phases, TypeOK
    <2>4. Signs'
      <3>1. got' = "zero" => Gone("main")
        BY DEF Holders, Phases
      <3> QED BY <3>1 DEF Signs, TypeOK
    <2>5. LogOutlives' /\ EndsHaveACause'
      BY DEF LogOutlives, EndsHaveACause, TypeOK, Signs
    <2> QED BY <2>1, <2>2, <2>3, <2>4, <2>5 DEF ProcInv
  <1>4. CASE Trace
    <2>1. CASE got = "zero" /\ Exits("biz", "eof")
      <3>1. ~HeaderOK \/ Gone("main") BY <1>4, <2>1 DEF Trace, ProcInv, Signs
      <3> QED BY <1>4, <2>1, <3>1, ExitKeeps DEF Trace, Caused
    <2>2. CASE ~(got = "zero" /\ Exits("biz", "eof"))
      <3> USE <1>4, <2>2 DEF Trace, Goes, ProcInv
      <3>1. TypeOK' BY DEF TypeOK
      <3>2. Phases' BY DEF Phases, TypeOK
      <3>3. Holders' BY DEF Holders, Phases, TypeOK
      <3>4. Signs' BY DEF Signs, TypeOK
      <3>5. LogOutlives' /\ EndsHaveACause'
        BY DEF LogOutlives, EndsHaveACause, TypeOK, Signs
      <3> QED BY <3>1, <3>2, <3>3, <3>4, <3>5 DEF ProcInv
    <2> QED BY <2>1, <2>2
  <1>5. CASE TraceBreaks
    <2>1. Gone("log") BY <1>5 DEF TraceBreaks, ProcInv, Signs
    <2> QED BY <1>5, <2>1, ExitKeeps DEF TraceBreaks, Caused
  <1> QED BY <1>1, <1>2, <1>3, <1>4, <1>5 DEF BusinessStep

-----------------------------------------------------------------------------
(* The steps of the log server. *)

LEMMA LogKeeps ==
  ASSUME ProcInv, LogStep, UNCHANGED repairs PROVE ProcInv'
  <1> USE DEF Procs, Ends, Gone, Alive, HeaderOK
  <1>1. CASE LogEntry \/ StartLogger
    <2> USE <1>1 DEF LogEntry, StartLogger, Closes, Goes, restVars, ProcInv
    <2>1. TypeOK' BY DEF TypeOK
    <2>2. Phases' BY DEF Phases, TypeOK
    <2>3. Holders' BY DEF Holders, Phases, TypeOK
    <2>4. Signs' BY DEF Signs, TypeOK
    <2>5. LogOutlives' /\ EndsHaveACause'
      BY DEF LogOutlives, EndsHaveACause, TypeOK, Signs
    <2> QED BY <2>1, <2>2, <2>3, <2>4, <2>5 DEF ProcInv
  <1>2. CASE RecvFD
    <2> USE <1>2 DEF RecvFD, Goes, restVars, ProcInv
    <2>1. Gone("main") /\ ~Alive("biz") BY DEF Holders, Phases
    <2>2. TypeOK' BY DEF TypeOK
    <2>3. Phases' BY DEF Phases, TypeOK
    <2>4. Holders' BY DEF Holders, Phases, TypeOK
    <2>5. Signs' BY <2>1 DEF Signs, TypeOK
    <2>6. LogOutlives' /\ EndsHaveACause'
      BY DEF LogOutlives, EndsHaveACause, TypeOK, Signs
    <2> QED BY <2>2, <2>3, <2>4, <2>5, <2>6 DEF ProcInv
  <1>3. CASE CloseLogger
    BY <1>3, ExitKeeps DEF CloseLogger, Caused, ProcInv, Signs
  <1> QED BY <1>1, <1>2, <1>3 DEF LogStep

LEMMA OtherKeeps ==
  ASSUME ProcInv, ReadLines \/ RecvFails \/ UNCHANGED vars,
         UNCHANGED repairs
  PROVE  ProcInv'
  <1> USE DEF ProcInv, Procs, Ends, Gone, Alive, HeaderOK, ReadLines, RecvFails, Goes, vars
  <1>1. TypeOK' BY DEF TypeOK
  <1>2. Phases' BY DEF Phases, TypeOK
  <1>3. Holders' BY DEF Holders, Phases, TypeOK
  <1>4. Signs' BY DEF Signs, TypeOK
  <1>5. LogOutlives' /\ EndsHaveACause'
    BY DEF LogOutlives, EndsHaveACause, TypeOK, Signs
  <1> QED BY <1>1, <1>2, <1>3, <1>4, <1>5 DEF ProcInv

(***************************************************************************)
(* The invariant holds in every reachable state.                           *)
(***************************************************************************)
THEOREM ProcInvHolds == Spec => []ProcInv
  <1>1. ProcInv /\ [Next]_vars => ProcInv'
    <2> SUFFICES ASSUME ProcInv, [Next]_vars PROVE ProcInv'
      OBVIOUS
    <2>1. CASE UNCHANGED vars BY <2>1, OtherKeeps DEF vars
    <2>2. ASSUME NEW p \in Procs, Kill(p), UNCHANGED repairs PROVE ProcInv'
      BY <2>2, ExitKeeps DEF Kill, Alive, Caused
    <2> QED BY <2>1, <2>2, MainKeeps, SendKeeps, BusinessKeeps, LogKeeps, OtherKeeps DEF Next
  <1> QED BY <1>1, InitInv, PTL DEF Spec

(***************************************************************************)
(* Every variable keeps its type.                                          *)
(***************************************************************************)
THEOREM ProcTypeCorrect == Spec => []TypeOK
  BY ProcInvHolds, PTL DEF ProcInv

(***************************************************************************)
(* The log server ends last (main.cpp:15-19, Process.h:36-41), because of  *)
(* the end of its pair that the business process has inherited.            *)
(***************************************************************************)
THEOREM LogOutlivesHolds == Spec => []LogOutlives
  BY ProcInvHolds, PTL DEF ProcInv

(***************************************************************************)
(* Nothing ends without a kill, a failed start or a recvmsg that failed    *)
(* (CServer.cpp:53, Process.h:109-126, 183).                               *)
(***************************************************************************)
THEOREM EndsHaveACauseHolds == Spec => []EndsHaveACause
  BY ProcInvHolds, PTL DEF ProcInv
-----------------------------------------------------------------------------
(* The main process of a service that cannot start. *)
Unstarted ==
  {"epoll_create", "ip_socket"} \ repairs # {} =>
    /\ at["main"] # "run" /\ why["main"] \in {"none", "init", "kill"}
    /\ sent = 0 /\ queue = 0 /\ got # "client" /\ conn = "none"

LEMMA UnstartedStep == ProcInv /\ Unstarted /\ [Next]_vars => Unstarted'
  <1> SUFFICES ASSUME ProcInv, Unstarted, [Next]_vars,
                      {"epoll_create", "ip_socket"} \ repairs # {}
               PROVE  Unstarted'
    BY DEF Next, Unstarted, vars
  <1> USE DEF Unstarted, ProcInv, TypeOK, Procs, restVars, Goes
  <1>1. CASE UNCHANGED vars BY <1>1 DEF vars
  <1>2. ASSUME NEW p \in Procs, Kill(p) PROVE Unstarted'
    BY <1>2 DEF Kill, Exits
  <1>3. CASE MainStep
    <2>1. CASE ForkLog BY <2>1 DEF ForkLog, Forks, Exits
    <2>2. CASE ForkBusiness BY <2>2 DEF ForkBusiness, Forks
    <2>3. CASE MainCloses BY <2>3 DEF MainCloses, Closes
    <2>4. CASE SetUp
      <3>1. ~(EpollOK /\ "ip_socket" \in repairs) BY DEF EpollOK
      <3> QED BY <2>4, <3>1 DEF SetUp
    <2>5. CASE CloseServer BY <2>5 DEF CloseServer, Exits
    <2> QED BY <1>3, <2>1, <2>2, <2>3, <2>4, <2>5 DEF MainStep
  <1>4. CASE SendSocket BY <1>4 DEF SendSocket
  <1>5. CASE BusinessStep
    <2>1. CASE BusinessEntry BY <2>1 DEF BusinessEntry, Closes
    <2>2. CASE StartUp BY <2>2 DEF StartUp, Exits
    <2>3. CASE RecvSocket BY <2>3 DEF RecvSocket
    <2>4. CASE Trace BY <2>4 DEF Trace, Exits
    <2>5. CASE TraceBreaks BY <2>5 DEF TraceBreaks
    <2> QED BY <1>5, <2>1, <2>2, <2>3, <2>4, <2>5 DEF BusinessStep
  <1>6. CASE LogStep
    <2>1. CASE LogEntry BY <2>1 DEF LogEntry, Closes
    <2>2. CASE StartLogger BY <2>2 DEF StartLogger
    <2>3. CASE RecvFD BY <2>3 DEF RecvFD
    <2>4. CASE CloseLogger BY <2>4 DEF CloseLogger, Exits
    <2> QED BY <1>6, <2>1, <2>2, <2>3, <2>4 DEF LogStep
  <1>7. CASE ReadLines BY <1>7 DEF ReadLines
  <1>8. CASE RecvFails BY <1>8 DEF RecvFails
  <1> QED BY <1>1, <1>2, <1>3, <1>4, <1>5, <1>6, <1>7, <1>8 DEF Next

(***************************************************************************)
(* With the guard of Epoll.h:64 or the socket of Socket.h:143 as written   *)
(* no client is ever accepted or handed on, whoever fails or is killed:    *)
(* the safety half of what the service as written comes to.                *)
(***************************************************************************)
THEOREM AsWrittenNobodyAccepted ==
  Spec => []({"epoll_create", "ip_socket"} \ repairs # {} =>
               at["main"] # "run" /\ sent = 0 /\ got # "client")
  <1>1. Init => Unstarted BY DEF Init, Unstarted, Procs
  <1>2. Unstarted => ({"epoll_create", "ip_socket"} \ repairs # {} =>
                        at["main"] # "run" /\ sent = 0 /\ got # "client")
    BY DEF Unstarted
  <1> QED BY <1>1, <1>2, UnstartedStep, ProcInvHolds, PTL DEF Spec
=============================================================================

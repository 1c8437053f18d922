------------------------------ MODULE Handover ------------------------------
(***************************************************************************)
(* The way of a client through the server: a front worker of the main      *)
(* process accepts it (CServer::ThreadFunc) and sends its descriptor down  *)
(* the pipe (CProcess::SendSocket); the accept loop of the business        *)
(* process receives the descriptor and watches it (BusinessProcess); the   *)
(* business workers read its requests and answer them (ThreadFunc,         *)
(* Received).  CServer::ThreadFunc is not in the sources: it is modelled   *)
(* from its listing in README.md:979-1000.                                 *)
(*                                                                         *)
(* The initial state is the one both processes are in when CServer::Init   *)
(* and BusinessProcess have set everything up.  The pools are reduced to   *)
(* what their callers make of them: Fronts and Backs are the workers that  *)
(* run the endless ThreadFunc of each process.                             *)
(*                                                                         *)
(* A request is one or more pieces on the wire.  A client is one HTTP      *)
(* client that logs in, waits for the answer and may then log in again.    *)
(*                                                                         *)
(* A definition marked "mutant" is a plausible mistake in the definition   *)
(* that follows it; no specification uses one.                             *)
(***************************************************************************)
EXTENDS Integers, Sequences, FiniteSets

CONSTANTS Clients,   \* the connections clients make, each at most once
          Members,   \* the clients whose sign fits the password of their name
  Accounts,  \* how many users the names may have: functions [Clients -> Nat]
          Fronts,    \* the workers of the main process
          Backs,     \* the workers of the business process
          Nobody,    \* no client
          Segments,  \* bound: the pieces a request arrives in
          MaxFds,    \* bound: the descriptors the business process has for clients
          PipeCap,   \* bound: the messages the pipe holds
          MaxAsks,   \* bound: the requests of each client
          MayFail,   \* may epoll_ctl fail?
          MayErr,    \* may a query fail?
          MayLeave,  \* may a client close its connection?
          MayReset,  \* may a client reset its connection?
          MayKill,   \* may the main process be killed?
          Repairs    \* the repairs of the code assumed

ASSUME ClientsAssumption == IsFiniteSet(Clients) /\ Members \subseteq Clients /\ Nobody \notin Clients
ASSUME AccountsAssumption == Accounts \subseteq [Clients -> Nat]
ASSUME WorkersAssumption == IsFiniteSet(Fronts) /\ IsFiniteSet(Backs)
ASSUME SizesAssumption   == {Segments, MaxFds, PipeCap, MaxAsks} \subseteq Nat \ {0}
ASSUME MayAssumption     == {MayFail, MayErr, MayLeave, MayReset, MayKill} \subseteq BOOLEAN

(* msghdr: the message headers are zeroed before use (Process.h:79, 136).  *)
(* recv_buffer: Recv is given a buffer of some length (EPlayerServer.h:278).*)
(* uri: the path is compared with "/login" (EPlayerServer.h:194).          *)
ASSUME RepairsAssumption == Repairs \subseteq {"msghdr", "recv_buffer", "uri"}

VARIABLES
  main,     \* is the main process up?
  biz,      \* is the business process up?
  why,      \* "none", or what ended the business process
  peer,     \* [Clients -> ...], the client's side of the connection
  place,    \* [Clients -> ...], where the server's side of it is
  fpc,      \* [Fronts -> ...], where each front worker is
  inHand,   \* [Fronts -> Clients \cup {Nobody}], the client it has accepted
  pipe,     \* the descriptors in the pipe
  received, \* the client the accept loop has received and not yet watched
  watched,  \* what the business process's epoll watches
  bpc,      \* [Backs -> ...], where each business worker is
  events,   \* [Backs -> ...], its events still to scan, <<client, kind>>
  cur,      \* [Backs -> Clients \cup {Nobody}], the client it works for
  code,     \* [Backs -> Int], the result it will answer with
  mixed,    \* the workers whose query met another one on the connection
  asked,    \* [Clients -> Nat], how many requests the client has begun
  arrived,  \* [Clients -> Nat], how many pieces of the last have arrived
  taken,    \* [Clients -> Nat], how many of these have been read
  answers,  \* [Clients -> Seq(Int)], the answers the client received
  rows,     \* [Clients -> Nat], how many users have the client's name
  pieces,   \* [Clients -> Nat], the pieces each request of the client is
  fds       \* how many descriptors the business process has for clients

procVars   == <<main, biz, why>>
frontVars  == <<fpc, inHand>>
loopVars   == <<received, watched>>
backVars   == <<bpc, events, cur, code, mixed>>
clientVars == <<asked, arrived, answers>>
vars == <<procVars, peer, place, frontVars, pipe, loopVars, backVars, clientVars, taken>>

(* What the surroundings are like, chosen once. *)
world == <<rows, pieces, fds>>

Init ==
  /\ main = "up" /\ biz = "up" /\ why = "none"
  /\ peer = [c \in Clients |-> "away"]
  /\ place = [c \in Clients |-> "none"]
  /\ fpc = [f \in Fronts |-> "loop"] /\ inHand = [f \in Fronts |-> Nobody]
  /\ pipe = <<>> /\ received = Nobody /\ watched = {}
  /\ bpc = [b \in Backs |-> "loop"] /\ events = [b \in Backs |-> {}]
  /\ cur = [b \in Backs |-> Nobody] /\ code = [b \in Backs |-> 0] /\ mixed = {}
  /\ asked = [c \in Clients |-> 0] /\ arrived = asked /\ taken = asked
  /\ answers = [c \in Clients |-> <<>>]
  /\ rows \in Accounts /\ pieces \in [Clients -> 1..Segments] /\ fds \in 1..MaxFds

At(p) == {c \in Clients : place[c] = p}

(* The end of a process closes the descriptors it holds. *)
Closed(places) == [c \in Clients |-> IF place[c] \in places THEN "closed" ELSE place[c]]

MainDies ==
  /\ main' = "down" /\ place' = Closed({"backlog", "front"})
  /\ UNCHANGED <<biz, why, peer, frontVars, pipe, loopVars, backVars, clientVars, taken>>

(* What is in the pipe goes with its only reader. *)
BusinessDies(reason) ==
  /\ biz' = "down" /\ why' = reason /\ place' = Closed({"pipe", "back"})
  /\ UNCHANGED <<main, peer, frontVars, pipe, loopVars, backVars, clientVars, taken>>

-----------------------------------------------------------------------------
(* The clients. *)

Arrive(c) ==
  /\ peer[c] = "away" /\ main = "up"
  /\ peer' = [peer EXCEPT ![c] = "here"]
  /\ place' = [place EXCEPT ![c] = "backlog"]
  /\ UNCHANGED <<procVars, frontVars, pipe, loopVars, backVars, clientVars, taken>>

(* The first piece of a request, when the last one has been answered. *)
Ask(c) ==
  /\ peer[c] = "here" /\ place[c] # "closed"
  /\ asked[c] < MaxAsks
  /\ asked[c] > 0 => arrived[c] = pieces[c] /\ Len(answers[c]) >= asked[c]
  /\ asked' = [asked EXCEPT ![c] = @ + 1]
  /\ arrived' = [arrived EXCEPT ![c] = 1]
  /\ taken' = [taken EXCEPT ![c] = 0]
  /\ UNCHANGED <<procVars, peer, place, frontVars, pipe, loopVars, backVars, answers>>

PieceArrives(c) ==
  /\ peer[c] = "here" /\ place[c] # "closed"
  /\ arrived[c] \in 1..(pieces[c] - 1)
  /\ arrived' = [arrived EXCEPT ![c] = @ + 1]
  /\ UNCHANGED <<procVars, peer, place, frontVars, pipe, loopVars, backVars, asked, answers, taken>>

Leave(c) ==
  /\ peer[c] = "here"
  /\ \/ MayLeave /\ peer' = [peer EXCEPT ![c] = "left"]
     \/ MayReset /\ peer' = [peer EXCEPT ![c] = "reset"]
  /\ UNCHANGED <<procVars, place, frontVars, pipe, loopVars, backVars, clientVars, taken>>

-----------------------------------------------------------------------------
(***************************************************************************)
(* The main process.  Every front worker is woken for a new connection;    *)
(* accept gives it to one and leaves the others waiting for the next.      *)
(***************************************************************************)
WaitFront(f) ==
  /\ fpc[f] = "loop" /\ At("backlog") # {}
  /\ fpc' = [fpc EXCEPT ![f] = "accept"]
  /\ UNCHANGED <<procVars, peer, place, inHand, pipe, loopVars, backVars, clientVars, taken>>

Accept(f, c) ==
  /\ fpc[f] = "accept" /\ place[c] = "backlog"
  /\ fpc' = [fpc EXCEPT ![f] = "send"]
  /\ inHand' = [inHand EXCEPT ![f] = c]
  /\ place' = [place EXCEPT ![c] = "front"]
  /\ UNCHANGED <<procVars, peer, pipe, loopVars, backVars, clientVars, taken>>

(***************************************************************************)
(* sendmsg, and the deletion of the worker's own copy of the descriptor.   *)
(* The header's name and flags are whatever was on the stack, so that the  *)
(* call may fail.  Without a reader it raises SIGPIPE.                     *)
(***************************************************************************)
HeaderOK == "msghdr" \in Repairs

(* mutant: the worker keeps the client it has sent *)
SendSocketKeeps(f) ==
  /\ fpc[f] = "send" /\ biz = "up" /\ Len(pipe) < PipeCap
  /\ pipe' = Append(pipe, inHand[f])
  /\ place' = [place EXCEPT ![inHand[f]] = "pipe"]
  /\ fpc' = [fpc EXCEPT ![f] = "loop"]
  /\ UNCHANGED <<procVars, peer, inHand, loopVars, backVars, clientVars, taken>>

SendSocket(f) ==
  /\ fpc[f] = "send" /\ biz = "up"
  /\ \/ /\ Len(pipe) < PipeCap
        /\ pipe' = Append(pipe, inHand[f])
        /\ place' = [place EXCEPT ![inHand[f]] = "pipe"]
     \/ /\ ~HeaderOK
        /\ UNCHANGED pipe
        /\ place' = [place EXCEPT ![inHand[f]] = "closed"]
  /\ fpc' = [fpc EXCEPT ![f] = "loop"] /\ inHand' = [inHand EXCEPT ![f] = Nobody]
  /\ UNCHANGED <<procVars, peer, loopVars, backVars, clientVars, taken>>

(* mutant: SIGPIPE is ignored *)
SendBreaksIgnored(f) ==
  /\ fpc[f] = "send" /\ biz = "down"
  /\ place' = [place EXCEPT ![inHand[f]] = "closed"]
  /\ fpc' = [fpc EXCEPT ![f] = "loop"] /\ inHand' = [inHand EXCEPT ![f] = Nobody]
  /\ UNCHANGED <<procVars, peer, pipe, loopVars, backVars, clientVars, taken>>

SendBreaks(f) == fpc[f] = "send" /\ biz = "down" /\ MainDies

FrontStep(f) ==
  \/ WaitFront(f) \/ SendSocket(f) \/ SendBreaks(f)
  \/ \E c \in Clients : Accept(f, c)

-----------------------------------------------------------------------------
(***************************************************************************)
(* The accept loop of the business process.  A process with no descriptor  *)
(* left receives the message without one, and the loop takes the 0 it then *)
(* finds in place of the descriptor for the end.  The end of the pipe      *)
(* looks the same.  Either way BusinessProcess returns and the process     *)
(* exits.                                                                  *)
(***************************************************************************)
FullEarly == Cardinality(At("back")) + 1 >= fds   \* mutant: one too early
Full      == Cardinality(At("back")) = fds

RecvSocket ==
  /\ received = Nobody /\ pipe # <<>>
  /\ \/ /\ ~Full
        /\ received' = Head(pipe) /\ pipe' = Tail(pipe)
        /\ place' = [place EXCEPT ![Head(pipe)] = "back"]
        /\ UNCHANGED <<procVars, peer, frontVars, watched, backVars, clientVars, taken>>
     \/ Full /\ BusinessDies("full")
     \/ ~HeaderOK /\ BusinessDies("recvmsg")

EndOfPipe ==
  /\ received = Nobody /\ pipe = <<>> /\ main = "down"
  /\ BusinessDies("eof")

(* Add; the connected callback is called whatever it returned, and the     *)
(* descriptor of a client that is not watched stays open.                  *)
Watch ==
  /\ received # Nobody
  /\ received' = Nobody
  /\ \/ watched' = watched \cup {received}
     \/ MayFail /\ UNCHANGED watched
  /\ UNCHANGED <<procVars, peer, place, frontVars, pipe, backVars, clientVars, taken>>

LoopStep == RecvSocket \/ EndOfPipe \/ Watch

-----------------------------------------------------------------------------
(* The business workers. *)

Move(b, to) == bpc' = [bpc EXCEPT ![b] = to]
Unread(c)   == arrived[c] > taken[c]

(***************************************************************************)
(* A reset is an error of the socket until a read or a write has reported  *)
(* it, unless the client had closed before: then no read does, and a write *)
(* has raised SIGPIPE.  A connection whose error is gone is at its end.    *)
(***************************************************************************)
Kind(c)  == IF peer[c] \in {"reset", "broken"} THEN "err" ELSE "in"
Ready    == {<<c, Kind(c)>> : c \in {d \in watched : Unread(d) \/ peer[d] # "here"}}

WaitEvents(b) ==
  /\ bpc[b] = "loop" /\ Ready # {}
  /\ Move(b, "scan")
  /\ events' = [events EXCEPT ![b] = Ready]
  /\ UNCHANGED <<procVars, peer, place, frontVars, pipe, loopVars, cur, code, mixed, clientVars, taken>>

ScanEnds(b) ==
  /\ bpc[b] = "scan" /\ events[b] = {}
  /\ Move(b, "loop")
  /\ UNCHANGED <<procVars, peer, place, frontVars, pipe, loopVars, events, cur, code, mixed, clientVars, taken>>

(* An error event ends the scan; nothing is done about the connection. *)
ScanError(b, c) ==
  /\ bpc[b] = "scan" /\ <<c, "err">> \in events[b]
  /\ Move(b, "loop")
  /\ events' = [events EXCEPT ![b] = {}]
  /\ UNCHANGED <<procVars, peer, place, frontVars, pipe, loopVars, cur, code, mixed, clientVars, taken>>

ScanClient(b, c) ==
  /\ bpc[b] = "scan" /\ <<c, "in">> \in events[b]
  /\ Move(b, "recv")
  /\ events' = [events EXCEPT ![b] = @ \ {<<c, "in">>}]
  /\ cur' = [cur EXCEPT ![b] = c]
  /\ UNCHANGED <<procVars, peer, place, frontVars, pipe, loopVars, code, mixed, clientVars, taken>>

(***************************************************************************)
(* Recv.  A read into a buffer of length 0 returns 0 at once; another one  *)
(* waits for data, the end of the connection or its reset.  HttpParser     *)
(* parses what one Recv brought, nothing else: a request that is not all   *)
(* there yet is refused with -1, and so is the rest of it.                 *)
(***************************************************************************)
ReadsNothing == "recv_buffer" \notin Repairs
Told(c)      == [peer EXCEPT ![c] = IF @ = "reset" THEN "dead" ELSE @]

RecvFailed(b) ==
  /\ bpc[b] = "recv"
  /\ ReadsNothing \/ (~Unread(cur[b]) /\ peer[cur[b]] # "here")
  /\ Move(b, "scan")
  /\ watched' = watched \ {cur[b]}
  /\ peer' = IF ReadsNothing THEN peer ELSE Told(cur[b])
  /\ cur' = [cur EXCEPT ![b] = Nobody]
  /\ UNCHANGED <<procVars, place, frontVars, pipe, received, events, code, mixed, clientVars, taken>>

Complete(c) == taken[c] = 0 /\ arrived[c] = pieces[c]
Querying    == {b \in Backs : bpc[b] = "query"}

RecvData(b) ==
  LET c == cur[b] IN
  /\ bpc[b] = "recv" /\ ~ReadsNothing /\ Unread(c)
  /\ taken' = [taken EXCEPT ![c] = arrived[c]]
  /\ IF Complete(c) /\ "uri" \in Repairs
     THEN /\ Move(b, "query") /\ UNCHANGED code
          /\ mixed' = mixed \cup IF Querying = {} THEN {} ELSE Querying \cup {b}
     ELSE /\ Move(b, "send") /\ UNCHANGED mixed
          /\ code' = [code EXCEPT ![b] = IF Complete(c) THEN -7 ELSE -1]
  /\ UNCHANGED <<procVars, peer, place, frontVars, pipe, loopVars, events, cur, clientVars>>

(***************************************************************************)
(* Exec on m_db, which all workers share without a lock: those that are    *)
(* there at once get each other's rows or an error, or the process dies.   *)
(* A query that fails prints its error number as a string                  *)
(* (MysqlClient.cpp:40), which ends the process too, or returns.  The      *)
(* name of a client has no user, several, or one, whose password tells     *)
(* whether the sign fits.                                                  *)
(***************************************************************************)
(* mutant: the comparison's own result *)
VerdictRaw(c) ==
  IF rows[c] = 0 THEN -4 ELSE IF rows[c] # 1 THEN -5 ELSE IF c \in Members THEN 0 ELSE 1

(* mutant: the first of several users is taken *)
VerdictFirst(c) == IF rows[c] = 0 THEN -4 ELSE IF c \in Members THEN 0 ELSE -6

Verdict(c) ==
  CASE rows[c] = 0                     -> -4
    [] rows[c] > 1                     -> -5
    [] rows[c] = 1 /\ c \in Members    -> 0
    [] rows[c] = 1 /\ c \notin Members -> -6

Codes == {0, -3, -4, -5, -6}

Query(b) ==
  /\ bpc[b] = "query"
  /\ \/ /\ \/ code' = [code EXCEPT ![b] = Verdict(cur[b])]
           \/ MayErr /\ code' = [code EXCEPT ![b] = -3]
           \/ b \in mixed /\ \E r \in Codes : code' = [code EXCEPT ![b] = r]
        /\ Move(b, "send")
        /\ UNCHANGED <<procVars, peer, place, frontVars, pipe, loopVars, events, cur, mixed, clientVars, taken>>
     \/ (MayErr \/ b \in mixed) /\ BusinessDies("db")

(***************************************************************************)
(* Send.  The first write to a client that has left is answered with a     *)
(* reset.  A write to a client that was reset fails and takes the error;   *)
(* one after that, or after a reset of a client that had left, raises      *)
(* SIGPIPE.                                                                *)
(***************************************************************************)
Sent(b) ==
  /\ Move(b, "scan")
  /\ cur' = [cur EXCEPT ![b] = Nobody] /\ code' = [code EXCEPT ![b] = 0] /\ mixed' = mixed \ {b}
  /\ UNCHANGED <<procVars, place, frontVars, pipe, loopVars, events, asked, arrived, taken>>

(* mutant: the answer is written twice *)
SendAnswerTwice(b) ==
  /\ bpc[b] = "send"
  /\ answers' = [answers EXCEPT ![cur[b]] = @ \o <<code[b], code[b]>>]
  /\ UNCHANGED peer /\ Sent(b)

(* mutant: a client is no longer watched once it has been answered *)
SendAnswerLast(b) ==
  /\ bpc[b] = "send"
  /\ answers' = [answers EXCEPT ![cur[b]] = Append(@, code[b])]
  /\ watched' = watched \ {cur[b]}
  /\ Move(b, "scan")
  /\ cur' = [cur EXCEPT ![b] = Nobody] /\ code' = [code EXCEPT ![b] = 0] /\ mixed' = mixed \ {b}
  /\ UNCHANGED <<procVars, peer, place, frontVars, pipe, received, events, asked, arrived, taken>>

SendAnswer(b) ==
  LET c == cur[b] IN
  /\ bpc[b] = "send"
  /\ \/ peer[c] = "here"
        /\ answers' = [answers EXCEPT ![c] = Append(@, code[b])]
        /\ UNCHANGED peer /\ Sent(b)
     \/ peer[c] = "left"
        /\ peer' = [peer EXCEPT ![c] = "broken"]
        /\ UNCHANGED answers /\ Sent(b)
     \/ peer[c] = "reset" /\ peer' = Told(c) /\ UNCHANGED answers /\ Sent(b)
     \/ peer[c] \in {"broken", "dead"} /\ BusinessDies("sigpipe")

BackStep(b) ==
  \/ WaitEvents(b) \/ ScanEnds(b) \/ RecvFailed(b) \/ RecvData(b) \/ Query(b) \/ SendAnswer(b)
  \/ \E c \in Clients : ScanError(b, c) \/ ScanClient(b, c)

-----------------------------------------------------------------------------
KillMain == MayKill /\ MainDies

ClientStep(c) == Arrive(c) \/ Ask(c) \/ PieceArrives(c) \/ Leave(c)

Next ==
  \/ \E c \in Clients : ClientStep(c)
  \/ main = "up" /\ (KillMain \/ \E f \in Fronts : FrontStep(f))
  \/ biz = "up" /\ (LoopStep \/ \E b \in Backs : BackStep(b))

Spec == Init /\ [][Next /\ UNCHANGED world]_<<vars, world>>

(* The kernel runs every thread that can run; the clients do as they like, *)
(* but the pieces of a request that was begun arrive.                      *)
FairSpec ==
  /\ Spec
  /\ \A f \in Fronts : WF_vars(main = "up" /\ FrontStep(f))
  /\ WF_vars(biz = "up" /\ LoopStep)
  /\ \A b \in Backs : WF_vars(biz = "up" /\ BackStep(b))
  /\ \A c \in Clients : WF_vars(PieceArrives(c))

-----------------------------------------------------------------------------
(***************************************************************************)
(* Type correctness.                                                       *)
(***************************************************************************)
TypeOK ==
  /\ main \in {"up", "down"} /\ biz \in {"up", "down"}
  /\ why \in {"none", "eof", "full", "recvmsg", "db", "sigpipe"}
  /\ peer \in [Clients -> {"away", "here", "left", "reset", "broken", "dead"}]
  /\ place \in [Clients -> {"none", "backlog", "front", "pipe", "back", "closed"}]
  /\ fpc \in [Fronts -> {"loop", "accept", "send"}]
  /\ inHand \in [Fronts -> Clients \cup {Nobody}]
  /\ pipe \in Seq(Clients)
  /\ received \in Clients \cup {Nobody}
  /\ watched \subseteq Clients
  /\ bpc \in [Backs -> {"loop", "scan", "recv", "query", "send"}]
  /\ events \in [Backs -> SUBSET (Clients \X {"in", "err"})]
  /\ cur \in [Backs -> Clients \cup {Nobody}]
  /\ code \in [Backs -> {0, -1, -3, -4, -5, -6, -7}] /\ mixed \subseteq Backs
  /\ asked \in [Clients -> Nat] /\ arrived \in [Clients -> Nat] /\ taken \in [Clients -> Nat]
  /\ answers \in [Clients -> Seq({0, -1, -3, -4, -5, -6, -7})]
  /\ rows \in Accounts /\ pieces \in [Clients -> 1..Segments] /\ fds \in 1..MaxFds

(***************************************************************************)
(* A descriptor on its way is in one hand: every client a front worker     *)
(* holds or the pipe carries is there once, and the accept loop watches    *)
(* only what the business process holds (README.md:990-993, Process.h:156, *)
(* EPlayerServer.h:132-139).                                               *)
(***************************************************************************)
OneHolder ==
  /\ main = "up" =>
       \A f \in Fronts : inHand[f] # Nobody =>
         place[inHand[f]] = "front" /\ \A g \in Fronts : inHand[g] = inHand[f] => f = g
  /\ biz = "up" =>
       /\ \A i, j \in 1..Len(pipe) : pipe[i] = pipe[j] => i = j
       /\ {pipe[i] : i \in 1..Len(pipe)} = At("pipe")
       /\ watched \cup ({received} \ {Nobody}) \subseteq At("back")

(***************************************************************************)
(* What ends the service.  The business process outlives the main one only *)
(* to read what is left in the pipe; it ends before it when recvmsg fails, *)
(* when more clients came than it has descriptors (none is ever given      *)
(* back, EPlayerServer.h:283), when a query fails or two workers use m_db  *)
(* at once, or when an answer is written to a client that has been told    *)
(* of a reset already, or was answered once after it had left, which takes *)
(* a request in pieces.                                                    *)
(***************************************************************************)
EndCause ==
  /\ why = "eof"     => main = "down"
  /\ why = "recvmsg" => ~HeaderOK
  /\ why = "full"    => Cardinality({c \in Clients : place[c] # "none"}) > fds
  /\ why = "db"      => "uri" \in Repairs /\ (MayErr \/ Cardinality(Backs) > 1)
  /\ why = "sigpipe" => \E c \in Clients : \/ MayReset /\ peer[c] = "dead"
                                           \/ MayLeave /\ peer[c] = "broken" /\ pieces[c] > 1
  /\ main = "down"   => MayKill \/ biz = "down"

(***************************************************************************)
(* A client whose requests arrive in one piece gets one answer to each,    *)
(* however many workers its events woke (EPlayerServer.h:155-176,          *)
(* 276-289).                                                               *)
(***************************************************************************)
OneAnswerEach ==
  \A c \in Clients : pieces[c] = 1 => Len(answers[c]) <= asked[c]

(***************************************************************************)
(* Every answer a client gets is what the database says of its own name    *)
(* and sign, -3 when its query failed, -1 when its request did not come in *)
(* one read, or, as long as the whole URI is compared, -7                  *)
(* (EPlayerServer.h:183-230): whatever the other workers do, as long as no *)
(* two of them are at the connection at once (EPlayerServer.h:205).  Only  *)
(* a query that met another one there may be answered otherwise.           *)
(***************************************************************************)
Verified(c, r) ==
  /\ r = 0  => rows[c] = 1 /\ c \in Members
  /\ r = -4 => rows[c] = 0
  /\ r = -5 => rows[c] > 1
  /\ r = -6 => rows[c] = 1 /\ c \notin Members
  /\ r = -3 => MayErr
  /\ r = -1 => pieces[c] > 1
  /\ r = -7 => "uri" \notin Repairs

Answers(b, c) == bpc[b] = "send" /\ bpc'[b] # "send" /\ cur[b] = c

LoginsVerified ==
  [][\A c \in Clients : answers'[c] # answers[c] =>
       \E b \in Backs : /\ Answers(b, c)
                        /\ (b \in mixed \/ Verified(c, answers'[c][Len(answers'[c])]))]_vars

(***************************************************************************)
(* When the business process has ended, the next client ends the main one. *)
(***************************************************************************)
OutageSpreads ==
  \A c \in Clients : (biz = "down" /\ place[c] \in {"backlog", "front"}) ~> (main = "down")

(***************************************************************************)
(* Every connection reaches the business process, whichever front workers  *)
(* are left waiting in accept (README.md:984-995); and whoever is there    *)
(* and asks is answered (EPlayerServer.h:263-295), as long as no watched   *)
(* connection is in error.                                                 *)
(***************************************************************************)
Waiting(c, n) ==
  /\ place[c] = "back" /\ peer[c] = "here"
  /\ asked[c] = n /\ arrived[c] = pieces[c] /\ Len(answers[c]) < n

RequestsHandled ==
  \A c \in Clients :
    /\ (place[c] = "backlog") ~> (place[c] = "back" \/ main = "down" \/ biz = "down")
    /\ \A n \in 1..MaxAsks :
         Waiting(c, n) ~> (\/ Len(answers[c]) >= n \/ peer[c] # "here" \/ biz = "down"
                           \/ \E d \in watched : Kind(d) = "err")

-----------------------------------------------------------------------------
(* A claim of the repository that the code does not keep. *)

(* EPlayerServer.h:28: the readable events are handled, all of them.       *)
EventsHandled ==
  \A c \in Clients : \A n \in 1..MaxAsks :
    Waiting(c, n) ~> (Len(answers[c]) >= n \/ peer[c] # "here" \/ biz = "down")
=============================================================================

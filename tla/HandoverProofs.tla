--------------------------- MODULE HandoverProofs ---------------------------
(***************************************************************************)
(* What holds on the way of a client through the server for any number of  *)
(* clients and workers, any bounds and any choice of failures and repairs. *)
(***************************************************************************)
EXTENDS Handover, FiniteSetTheorems, TLAPS

-----------------------------------------------------------------------------
(* The inductive invariant. *)

(* The two ends of a connection. *)
Peers ==
  \A c \in Clients :
    /\ peer[c] = "away" <=> place[c] = "none"
    /\ peer[c] \in {"left", "broken"} => MayLeave
    /\ peer[c] \in {"reset", "dead"} => MayReset

(* Whom the workers work for. *)
Works ==
  /\ \A f \in Fronts : fpc[f] = "send" => inHand[f] # Nobody
  /\ \A b \in Backs :
       /\ bpc[b] \in {"recv", "query", "send"} => cur[b] # Nobody
       /\ bpc[b] = "query" => "uri" \in Repairs
       /\ bpc[b] \in {"query", "send"} => asked[cur[b]] > 0

Requests ==
  \A c \in Clients :
    /\ arrived[c] <= pieces[c]
    /\ asked[c] = 0 => arrived[c] = 0 /\ taken[c] = 0

(* A request in one piece is waiting to be read, or with one worker, or    *)
(* answered.                                                               *)
Busy(b, c) == bpc[b] \in {"query", "send"} /\ cur[b] = c

InTurn ==
  \A c \in Clients : pieces[c] = 1 =>
    /\ Len(answers[c]) <= asked[c]
    /\ Unread(c) => Len(answers[c]) < asked[c] /\ \A b \in Backs : ~Busy(b, c)
    /\ \A b \in Backs : Busy(b, c) =>
         Len(answers[c]) < asked[c] /\ \A d \in Backs : Busy(d, c) => d = b
    /\ peer[c] = "broken" => ~Unread(c) /\ \A b \in Backs : ~Busy(b, c)

Replies ==
  \A b \in Backs : bpc[b] = "send" /\ b \notin mixed => Verified(cur[b], code[b])

(* Queries meet only where there are two workers. *)
Meetings == mixed # {} => Cardinality(Backs) > 1

(* OneHolder, client by client. *)
Hands ==
  main = "up" =>
    \A f \in Fronts : inHand[f] # Nobody =>
      place[inHand[f]] = "front" /\ \A g \in Fronts : inHand[g] = inHand[f] => f = g

Carried ==
  biz = "up" =>
    /\ \A i, j \in 1..Len(pipe) : pipe[i] = pipe[j] => i = j
    /\ \A i \in 1..Len(pipe) : place[pipe[i]] = "pipe"
    /\ \A c \in Clients : place[c] = "pipe" => \E i \in 1..Len(pipe) : pipe[i] = c

Held ==
  biz = "up" => /\ \A c \in watched : place[c] = "back"
                /\ received # Nobody => place[received] = "back"

HandInv == TypeOK /\ Peers /\ Works /\ Requests /\ Hands /\ Carried /\ Held
LoginInv == InTurn /\ Replies /\ Meetings

-----------------------------------------------------------------------------
Step ==
  \/ \E c \in Clients : Arrive(c) \/ Ask(c) \/ PieceArrives(c) \/ Leave(c)
  \/ MainDies /\ (MayKill \/ biz = "down")
  \/ main = "up" /\ \E f \in Fronts :
       WaitFront(f) \/ SendSocket(f) \/ \E c \in Clients : Accept(f, c)
  \/ biz = "up" /\ (RecvSocket \/ EndOfPipe \/ Watch)
  \/ biz = "up" /\ \E b \in Backs :
       \/ WaitEvents(b) \/ ScanEnds(b) \/ RecvFailed(b) \/ RecvData(b) \/ Query(b) \/ SendAnswer(b)
       \/ \E c \in Clients : ScanError(b, c) \/ ScanClient(b, c)

LEMMA NextIsStep == Next => Step
  BY DEF Next, Step, ClientStep, FrontStep, LoopStep, BackStep, KillMain, SendBreaks

LEMMA Counts ==
  ASSUME TypeOK
  PROVE  \A c \in Clients : /\ pieces[c] \in Nat /\ pieces[c] >= 1
                            /\ asked[c] \in Nat /\ arrived[c] \in Nat /\ taken[c] \in Nat
                            /\ Len(answers[c]) \in Nat
  <1>1. Segments \in Nat BY SizesAssumption
  <1> QED BY <1>1 DEF TypeOK

LEMMA PipeFacts ==
  ASSUME TypeOK, pipe # <<>>
  PROVE  /\ Head(pipe) \in Clients /\ Head(pipe) = pipe[1] /\ Len(pipe) \in Nat /\ Len(pipe) >= 1
         /\ Tail(pipe) \in Seq(Clients) /\ Len(Tail(pipe)) = Len(pipe) - 1
         /\ \A i \in 1..(Len(pipe) - 1) : Tail(pipe)[i] = pipe[i + 1]
  BY DEF TypeOK

LEMMA AppendFacts ==
  ASSUME NEW T, NEW s \in Seq(T), NEW x \in T
  PROVE  /\ Append(s, x) \in Seq(T) /\ Len(s) \in Nat /\ Len(Append(s, x)) = Len(s) + 1
         /\ \A i \in 1..Len(s) : Append(s, x)[i] = s[i]
         /\ Append(s, x)[Len(s) + 1] = x
  OBVIOUS

LEMMA HolderParts == ASSUME TypeOK PROVE OneHolder <=> Hands /\ Carried /\ Held
  <1>1. pipe \in Seq(Clients) /\ watched \subseteq Clients BY DEF TypeOK
  <1>2. {pipe[i] : i \in 1..Len(pipe)} = At("pipe") <=>
          /\ \A i \in 1..Len(pipe) : place[pipe[i]] = "pipe"
          /\ \A c \in Clients : place[c] = "pipe" => \E i \in 1..Len(pipe) : pipe[i] = c
    <2>1. \A i \in 1..Len(pipe) : pipe[i] \in Clients BY <1>1
    <2> QED BY <2>1 DEF At
  <1>3. watched \cup ({received} \ {Nobody}) \subseteq At("back") <=>
          /\ \A c \in watched : place[c] = "back"
          /\ received # Nobody => place[received] = "back"
    BY <1>1, ClientsAssumption DEF At, TypeOK
  <1> QED BY <1>2, <1>3 DEF OneHolder, Hands, Carried, Held

LEMMA PlaceTypes ==
  ASSUME TypeOK
  PROVE  /\ place \in [Clients -> {"none", "backlog", "front", "pipe", "back", "closed"}]
         /\ inHand \in [Fronts -> Clients \cup {Nobody}]
         /\ pipe \in Seq(Clients) /\ Len(pipe) \in Nat /\ \A i \in 1..Len(pipe) : pipe[i] \in Clients
         /\ received \in Clients \cup {Nobody} /\ watched \subseteq Clients
         /\ biz \in {"up", "down"} /\ main \in {"up", "down"}
  BY DEF TypeOK

LEMMA CallTypes ==
  ASSUME TypeOK
  PROVE  /\ bpc \in [Backs -> {"loop", "scan", "recv", "query", "send"}]
         /\ cur \in [Backs -> Clients \cup {Nobody}]
         /\ code \in [Backs -> {0, -1, -3, -4, -5, -6, -7}] /\ mixed \subseteq Backs
         /\ peer \in [Clients -> {"away", "here", "left", "reset", "broken", "dead"}]
         /\ asked \in [Clients -> Nat] /\ arrived \in [Clients -> Nat] /\ taken \in [Clients -> Nat]
         /\ answers \in [Clients -> Seq({0, -1, -3, -4, -5, -6, -7})]
  BY DEF TypeOK

LEMMA VerdictIs ==
  ASSUME TypeOK, NEW c \in Clients
  PROVE  /\ Verdict(c) \in {0, -4, -5, -6}
         /\ Verified(c, Verdict(c))
  <1>1. rows[c] \in Nat BY AccountsAssumption DEF TypeOK
  <1>2. \/ rows[c] = 0 /\ Verdict(c) = -4
        \/ rows[c] > 1 /\ Verdict(c) = -5
        \/ rows[c] = 1 /\ c \in Members /\ Verdict(c) = 0
        \/ rows[c] = 1 /\ c \notin Members /\ Verdict(c) = -6
    BY <1>1 DEF Verdict
  <1> QED BY <1>1, <1>2 DEF Verified

(* What an answer that is sent does to the answers of its client. *)
LEMMA AnswerFacts ==
  ASSUME TypeOK, NEW b \in Backs, cur[b] \in Clients,
         answers' = [answers EXCEPT ![cur[b]] = Append(@, code[b])]
  PROVE  /\ Len(answers'[cur[b]]) = Len(answers[cur[b]]) + 1
         /\ \A i \in 1..Len(answers[cur[b]]) : answers'[cur[b]][i] = answers[cur[b]][i]
         /\ answers'[cur[b]][Len(answers[cur[b]]) + 1] = code[b]
         /\ \A c \in Clients \ {cur[b]} : answers'[c] = answers[c]
  <1>1. answers'[cur[b]] = Append(answers[cur[b]], code[b]) BY CallTypes
  <1> QED BY <1>1, CallTypes, AppendFacts

LEMMA TwoInSet ==
  ASSUME NEW b \in Backs, NEW d \in Backs, d # b
  PROVE  Cardinality(Backs) > 1
  <1>1. IsFiniteSet(Backs \ {d}) /\ Cardinality(Backs \ {d}) = Cardinality(Backs) - 1
    BY WorkersAssumption, FS_RemoveElement
  <1>2. Cardinality(Backs \ {d}) # 0 BY <1>1, FS_EmptySet
  <1>3. Cardinality(Backs) \in Nat /\ Cardinality(Backs \ {d}) \in Nat
    BY <1>1, WorkersAssumption, FS_CardinalityType
  <1> QED BY <1>1, <1>2, <1>3

LEMMA TypeStep ==
  ASSUME HandInv, Step, UNCHANGED world PROVE  TypeOK'
  <1> USE ClientsAssumption, SizesAssumption, WorkersAssumption DEF world, procVars, frontVars,
        loopVars, backVars, clientVars, HandInv, TypeOK, Works
  <1>1. ASSUME NEW c \in Clients, Arrive(c) PROVE TypeOK'
    BY <1>1 DEF Arrive
  <1>2. ASSUME NEW c \in Clients, Ask(c) PROVE TypeOK'
    <2>1. asked' \in [Clients -> Nat] /\ arrived' \in [Clients -> Nat] /\ taken' \in [Clients -> Nat]
      BY <1>2 DEF Ask
    <2> QED BY <1>2, <2>1 DEF Ask
  <1>3. ASSUME NEW c \in Clients, PieceArrives(c) PROVE TypeOK'
    <2>1. arrived' \in [Clients -> Nat] BY SMTT(60), <1>3 DEF PieceArrives
    <2> QED BY <1>3, <2>1 DEF PieceArrives
  <1>4. ASSUME NEW c \in Clients, Leave(c) PROVE TypeOK'
    BY <1>4 DEF Leave
  <1>5. ASSUME MainDies PROVE TypeOK'
    BY <1>5 DEF MainDies, Closed
  <1>6. ASSUME NEW f \in Fronts, main = "up", WaitFront(f) PROVE TypeOK'
    BY <1>6 DEF WaitFront
  <1>7. ASSUME NEW f \in Fronts, NEW c \in Clients, main = "up", Accept(f, c) PROVE TypeOK'
    BY <1>7 DEF Accept
  <1>8. ASSUME NEW f \in Fronts, main = "up", SendSocket(f) PROVE TypeOK'
    <2>1. inHand[f] \in Clients BY <1>8 DEF SendSocket
    <2>2. pipe' \in Seq(Clients)
      <3>1. Append(pipe, inHand[f]) \in Seq(Clients) BY <2>1, AppendFacts
      <3> QED BY <1>8, <3>1 DEF SendSocket
    <2>3. place' \in [Clients -> {"none", "backlog", "front", "pipe", "back", "closed"}]
      BY <1>8, <2>1 DEF SendSocket
    <2> QED BY <1>8, <2>2, <2>3 DEF SendSocket
  <1>9. ASSUME biz = "up", RecvSocket PROVE TypeOK'
    <2>1. Head(pipe) \in Clients /\ Tail(pipe) \in Seq(Clients) BY <1>9, PipeFacts DEF RecvSocket
    <2>2. place' \in [Clients -> {"none", "backlog", "front", "pipe", "back", "closed"}]
      BY <1>9, <2>1 DEF RecvSocket, BusinessDies, Closed
    <2> QED BY <1>9, <2>1, <2>2 DEF RecvSocket, BusinessDies
  <1>10. ASSUME biz = "up", EndOfPipe PROVE TypeOK'
    BY <1>10 DEF EndOfPipe, BusinessDies, Closed
  <1>11. ASSUME biz = "up", Watch PROVE TypeOK'
    BY <1>11 DEF Watch
  <1>12. ASSUME NEW b \in Backs, biz = "up", WaitEvents(b) PROVE TypeOK'
    <2>1. Ready \in SUBSET (Clients \X {"in", "err"}) BY DEF Ready, Kind
    <2> HIDE DEF Ready
    <2> QED BY <1>12, <2>1 DEF WaitEvents, Move
  <1>13. ASSUME NEW b \in Backs, biz = "up", ScanEnds(b) PROVE TypeOK'
    BY <1>13 DEF ScanEnds, Move
  <1>14. ASSUME NEW b \in Backs, NEW c \in Clients, biz = "up", ScanError(b, c) PROVE TypeOK'
    BY <1>14 DEF ScanError, Move
  <1>15. ASSUME NEW b \in Backs, NEW c \in Clients, biz = "up", ScanClient(b, c) PROVE TypeOK'
    BY <1>15 DEF ScanClient, Move
  <1>16. ASSUME NEW b \in Backs, biz = "up", RecvFailed(b) PROVE TypeOK'
    BY <1>16 DEF RecvFailed, Move, Told
  <1>17. ASSUME NEW b \in Backs, biz = "up", RecvData(b) PROVE TypeOK'
    <2>1. mixed' \subseteq Backs BY <1>17 DEF RecvData, Querying
    <2> QED BY <1>17, <2>1 DEF RecvData, Move
  <1>18. ASSUME NEW b \in Backs, biz = "up", Query(b) PROVE TypeOK'
    <2>1. code' \in [Backs -> {0, -1, -3, -4, -5, -6, -7}]
      <3>1. Verdict(cur[b]) \in {0, -4, -5, -6} BY <1>18, VerdictIs DEF Query
      <3> QED BY <1>18, <3>1 DEF Query, BusinessDies, Codes
    <2>2. place' \in [Clients -> {"none", "backlog", "front", "pipe", "back", "closed"}]
      BY <1>18 DEF Query, BusinessDies, Closed
    <2>3. bpc' \in [Backs -> {"loop", "scan", "recv", "query", "send"}]
      <3>1. CASE UNCHANGED bpc BY <3>1
      <3>2. CASE bpc' = [bpc EXCEPT ![b] = "send"] BY <3>2
      <3> QED BY <1>18, <3>1, <3>2 DEF Query, BusinessDies, Move
    <2> QED BY <1>18, <2>1, <2>2, <2>3 DEF Query, BusinessDies
  <1>19. ASSUME NEW b \in Backs, biz = "up", SendAnswer(b) PROVE TypeOK'
    <2>1. cur[b] \in Clients BY <1>19 DEF SendAnswer
    <2>2. CASE Sent(b)
      <3>1. answers' \in [Clients -> Seq({0, -1, -3, -4, -5, -6, -7})]
        <4>1. CASE UNCHANGED answers BY <4>1
        <4>2. CASE answers' = [answers EXCEPT ![cur[b]] = Append(@, code[b])]
          <5>1. Append(answers[cur[b]], code[b]) \in Seq({0, -1, -3, -4, -5, -6, -7})
            BY <2>1, AppendFacts
          <5> QED BY <4>2, <5>1
        <4> QED BY <1>19, <4>1, <4>2 DEF SendAnswer, BusinessDies
      <3>2. peer' \in [Clients -> {"away", "here", "left", "reset", "broken", "dead"}]
        <4>1. CASE UNCHANGED peer BY <4>1
        <4>2. CASE peer' = [peer EXCEPT ![cur[b]] = "broken"] BY <4>2
        <4>3. CASE peer' = Told(cur[b]) BY <4>3 DEF Told
        <4> QED BY <1>19, <4>1, <4>2, <4>3 DEF SendAnswer, BusinessDies
      <3> QED BY <2>2, <3>1, <3>2 DEF Sent, Move
    <2>3. CASE BusinessDies("sigpipe") BY <1>19, <2>3 DEF BusinessDies, Closed
    <2> QED BY <1>19, <2>2, <2>3 DEF SendAnswer
  <1> QED BY <1>1, <1>2, <1>3, <1>4, <1>5, <1>6, <1>7, <1>8, <1>9, <1>10,
             <1>11, <1>12, <1>13, <1>14, <1>15, <1>16, <1>17, <1>18, <1>19
          DEF Step

LEMMA PeersStep ==
  ASSUME HandInv, Step, UNCHANGED world PROVE  Peers'
  <1> USE ClientsAssumption, SizesAssumption, WorkersAssumption DEF world, procVars, frontVars,
        loopVars, backVars, clientVars, HandInv, TypeOK, Peers
  <1>1. ASSUME NEW c \in Clients, Arrive(c) PROVE Peers'
    BY <1>1 DEF Arrive
  <1>2. ASSUME NEW c \in Clients, Ask(c) PROVE Peers'
    BY <1>2 DEF Ask
  <1>3. ASSUME NEW c \in Clients, PieceArrives(c) PROVE Peers'
    BY <1>3 DEF PieceArrives
  <1>4. ASSUME NEW c \in Clients, Leave(c) PROVE Peers'
    BY <1>4 DEF Leave
  <1>5. ASSUME MainDies PROVE Peers'
    BY <1>5 DEF MainDies, Closed
  <1>6. ASSUME NEW f \in Fronts, main = "up", WaitFront(f) PROVE Peers'
    BY <1>6 DEF WaitFront
  <1>7. ASSUME NEW f \in Fronts, NEW c \in Clients, main = "up", Accept(f, c) PROVE Peers'
    BY <1>7 DEF Accept
  <1>8. ASSUME NEW f \in Fronts, main = "up", SendSocket(f) PROVE Peers'
    <2>1. inHand[f] \in Clients /\ place[inHand[f]] = "front" BY <1>8 DEF SendSocket, Works, Hands
    <2> QED BY <1>8, <2>1 DEF SendSocket
  <1>9. ASSUME biz = "up", RecvSocket PROVE Peers'
    <2>1. Head(pipe) \in Clients /\ place[Head(pipe)] = "pipe"
      BY SMTT(60), <1>9, PipeFacts DEF RecvSocket, Carried
    <2> QED BY <1>9, <2>1 DEF RecvSocket, BusinessDies, Closed
  <1>10. ASSUME biz = "up", EndOfPipe PROVE Peers'
    BY <1>10 DEF EndOfPipe, BusinessDies, Closed
  <1>11. ASSUME biz = "up", Watch PROVE Peers'
    BY <1>11 DEF Watch
  <1>12. ASSUME NEW b \in Backs, biz = "up", WaitEvents(b) PROVE Peers'
    BY <1>12 DEF WaitEvents, Move, Ready, Kind
  <1>13. ASSUME NEW b \in Backs, biz = "up", ScanEnds(b) PROVE Peers'
    BY <1>13 DEF ScanEnds, Move
  <1>14. ASSUME NEW b \in Backs, NEW c \in Clients, biz = "up", ScanError(b, c) PROVE Peers'
    BY <1>14 DEF ScanError, Move
  <1>15. ASSUME NEW b \in Backs, NEW c \in Clients, biz = "up", ScanClient(b, c) PROVE Peers'
    BY <1>15 DEF ScanClient, Move
  <1>16. ASSUME NEW b \in Backs, biz = "up", RecvFailed(b) PROVE Peers'
    <2>1. UNCHANGED place /\ (UNCHANGED peer \/ peer' = Told(cur[b])) BY <1>16 DEF RecvFailed
    <2>2. CASE UNCHANGED peer BY <2>1, <2>2
    <2>3. CASE peer' = Told(cur[b])
      <3>1. \A c \in Clients : peer'[c] = peer[c] \/ (peer[c] = "reset" /\ peer'[c] = "dead")
        BY <2>3, PlaceTypes DEF Told
      <3> QED BY <2>1, <3>1
    <2> QED BY <2>1, <2>2, <2>3
  <1>17. ASSUME NEW b \in Backs, biz = "up", RecvData(b) PROVE Peers'
    BY <1>17 DEF RecvData, Move
  <1>18. ASSUME NEW b \in Backs, biz = "up", Query(b) PROVE Peers'
    BY <1>18 DEF Query, Move, BusinessDies, Closed, Codes, Verdict
  <1>19. ASSUME NEW b \in Backs, biz = "up", SendAnswer(b) PROVE Peers'
    <2>1. cur[b] \in Clients BY <1>19 DEF SendAnswer, Works
    <2>2. CASE BusinessDies("sigpipe") BY <1>19, <2>2 DEF BusinessDies, Closed
    <2>3. CASE UNCHANGED <<peer, place>> BY <1>19, <2>3
    <2>4. CASE peer[cur[b]] = "left" /\ peer' = [peer EXCEPT ![cur[b]] = "broken"] /\ UNCHANGED place
      BY <2>1, <2>4
    <2>5. CASE peer' = Told(cur[b]) /\ UNCHANGED place BY <2>5 DEF Told
    <2> QED BY <1>19, <2>2, <2>3, <2>4, <2>5 DEF SendAnswer, Sent
  <1> QED BY <1>1, <1>2, <1>3, <1>4, <1>5, <1>6, <1>7, <1>8, <1>9, <1>10,
             <1>11, <1>12, <1>13, <1>14, <1>15, <1>16, <1>17, <1>18, <1>19
          DEF Step

LEMMA WorksStep ==
  ASSUME HandInv, Step, UNCHANGED world PROVE  Works'
  <1> USE ClientsAssumption, SizesAssumption, WorkersAssumption DEF world, procVars, frontVars,
        loopVars, backVars, clientVars, HandInv, TypeOK, Works, Unread, Requests
  <1>1. ASSUME NEW c \in Clients, Arrive(c) PROVE Works'
    BY <1>1 DEF Arrive
  <1>2. ASSUME NEW c \in Clients, Ask(c) PROVE Works'
    BY <1>2 DEF Ask
  <1>3. ASSUME NEW c \in Clients, PieceArrives(c) PROVE Works'
    BY <1>3 DEF PieceArrives
  <1>4. ASSUME NEW c \in Clients, Leave(c) PROVE Works'
    BY <1>4 DEF Leave
  <1>5. ASSUME MainDies PROVE Works'
    BY <1>5 DEF MainDies, Closed
  <1>6. ASSUME NEW f \in Fronts, main = "up", WaitFront(f) PROVE Works'
    BY <1>6 DEF WaitFront
  <1>7. ASSUME NEW f \in Fronts, NEW c \in Clients, main = "up", Accept(f, c) PROVE Works'
    BY <1>7 DEF Accept
  <1>8. ASSUME NEW f \in Fronts, main = "up", SendSocket(f) PROVE Works'
    BY <1>8 DEF SendSocket
  <1>9. ASSUME biz = "up", RecvSocket PROVE Works'
    BY <1>9 DEF RecvSocket, BusinessDies, Closed
  <1>10. ASSUME biz = "up", EndOfPipe PROVE Works'
    BY <1>10 DEF EndOfPipe, BusinessDies, Closed
  <1>11. ASSUME biz = "up", Watch PROVE Works'
    BY <1>11 DEF Watch
  <1>12. ASSUME NEW b \in Backs, biz = "up", WaitEvents(b) PROVE Works'
    BY <1>12 DEF WaitEvents, Move, Ready, Kind
  <1>13. ASSUME NEW b \in Backs, biz = "up", ScanEnds(b) PROVE Works'
    BY <1>13 DEF ScanEnds, Move
  <1>14. ASSUME NEW b \in Backs, NEW c \in Clients, biz = "up", ScanError(b, c) PROVE Works'
    BY <1>14 DEF ScanError, Move
  <1>15. ASSUME NEW b \in Backs, NEW c \in Clients, biz = "up", ScanClient(b, c) PROVE Works'
    BY <1>15 DEF ScanClient, Move
  <1>16. ASSUME NEW b \in Backs, biz = "up", RecvFailed(b) PROVE Works'
    BY <1>16 DEF RecvFailed, Move
  <1>17. ASSUME NEW b \in Backs, biz = "up", RecvData(b) PROVE Works'
    <2>1. cur[b] \in Clients BY <1>17 DEF RecvData
    <2>2. asked[cur[b]] > 0 BY <1>17, <2>1, Counts DEF RecvData
    <2> QED BY <1>17, <2>1, <2>2 DEF RecvData, Move
  <1>18. ASSUME NEW b \in Backs, biz = "up", Query(b) PROVE Works'
    BY <1>18 DEF Query, Move, BusinessDies, Closed, Codes, Verdict
  <1>19. ASSUME NEW b \in Backs, biz = "up", SendAnswer(b) PROVE Works'
    <2>1. CASE Sent(b) BY <1>19, <2>1 DEF Sent, Move
    <2>2. CASE BusinessDies("sigpipe") BY <1>19, <2>2 DEF BusinessDies
    <2> QED BY <1>19, <2>1, <2>2 DEF SendAnswer
  <1> QED BY <1>1, <1>2, <1>3, <1>4, <1>5, <1>6, <1>7, <1>8, <1>9, <1>10,
             <1>11, <1>12, <1>13, <1>14, <1>15, <1>16, <1>17, <1>18, <1>19
          DEF Step

LEMMA RequestsStep ==
  ASSUME HandInv, Step, UNCHANGED world PROVE  Requests'
  <1> USE ClientsAssumption, SizesAssumption, WorkersAssumption DEF world, procVars, frontVars,
        loopVars, backVars, clientVars, HandInv, TypeOK, Requests
  <1>1. ASSUME NEW c \in Clients, Arrive(c) PROVE Requests'
    BY <1>1 DEF Arrive
  <1>2. ASSUME NEW c \in Clients, Ask(c) PROVE Requests'
    <2> QED BY <1>2, Counts DEF Ask
  <1>3. ASSUME NEW c \in Clients, PieceArrives(c) PROVE Requests'
    <2>1. arrived[c] + 1 <= pieces[c] /\ arrived[c] # 0 BY <1>3, Counts DEF PieceArrives
    <2> QED BY <1>3, <2>1, Counts DEF PieceArrives
  <1>4. ASSUME NEW c \in Clients, Leave(c) PROVE Requests'
    BY <1>4 DEF Leave
  <1>5. ASSUME MainDies PROVE Requests'
    BY <1>5 DEF MainDies, Closed
  <1>6. ASSUME NEW f \in Fronts, main = "up", WaitFront(f) PROVE Requests'
    BY <1>6 DEF WaitFront
  <1>7. ASSUME NEW f \in Fronts, NEW c \in Clients, main = "up", Accept(f, c) PROVE Requests'
    BY <1>7 DEF Accept
  <1>8. ASSUME NEW f \in Fronts, main = "up", SendSocket(f) PROVE Requests'
    BY <1>8 DEF SendSocket
  <1>9. ASSUME biz = "up", RecvSocket PROVE Requests'
    BY <1>9 DEF RecvSocket, BusinessDies, Closed
  <1>10. ASSUME biz = "up", EndOfPipe PROVE Requests'
    BY <1>10 DEF EndOfPipe, BusinessDies, Closed
  <1>11. ASSUME biz = "up", Watch PROVE Requests'
    BY <1>11 DEF Watch
  <1>12. ASSUME NEW b \in Backs, biz = "up", WaitEvents(b) PROVE Requests'
    BY <1>12 DEF WaitEvents, Move, Ready, Kind
  <1>13. ASSUME NEW b \in Backs, biz = "up", ScanEnds(b) PROVE Requests'
    BY <1>13 DEF ScanEnds, Move
  <1>14. ASSUME NEW b \in Backs, NEW c \in Clients, biz = "up", ScanError(b, c) PROVE Requests'
    BY <1>14 DEF ScanError, Move
  <1>15. ASSUME NEW b \in Backs, NEW c \in Clients, biz = "up", ScanClient(b, c) PROVE Requests'
    BY <1>15 DEF ScanClient, Move
  <1>16. ASSUME NEW b \in Backs, biz = "up", RecvFailed(b) PROVE Requests'
    BY <1>16 DEF RecvFailed, Move
  <1>17. ASSUME NEW b \in Backs, biz = "up", RecvData(b) PROVE Requests'
    <2>1. cur[b] \in Clients BY <1>17 DEF RecvData, Works
    <2>2. taken' = [taken EXCEPT ![cur[b]] = arrived[cur[b]]] /\ UNCHANGED <<arrived, asked>>
      BY <1>17 DEF RecvData
    <2> QED BY <2>1, <2>2
  <1>18. ASSUME NEW b \in Backs, biz = "up", Query(b) PROVE Requests'
    BY <1>18 DEF Query, Move, BusinessDies, Closed, Codes, Verdict
  <1>19. ASSUME NEW b \in Backs, biz = "up", SendAnswer(b) PROVE Requests'
    BY <1>19 DEF SendAnswer, Sent, Move, BusinessDies, Closed
  <1> QED BY <1>1, <1>2, <1>3, <1>4, <1>5, <1>6, <1>7, <1>8, <1>9, <1>10,
             <1>11, <1>12, <1>13, <1>14, <1>15, <1>16, <1>17, <1>18, <1>19
          DEF Step

LEMMA HandsStep ==
  ASSUME HandInv, Step, UNCHANGED world PROVE  Hands'
  <1> USE ClientsAssumption, SizesAssumption, WorkersAssumption DEF world, procVars, frontVars,
        loopVars, backVars, clientVars, HandInv, Hands, Works, Peers
  <1>1. ASSUME NEW c \in Clients, Arrive(c) PROVE Hands'
    BY <1>1, PlaceTypes DEF Arrive
  <1>2. ASSUME NEW c \in Clients, Ask(c) PROVE Hands'
    BY <1>2, PlaceTypes DEF Ask
  <1>3. ASSUME NEW c \in Clients, PieceArrives(c) PROVE Hands'
    BY <1>3, PlaceTypes DEF PieceArrives
  <1>4. ASSUME NEW c \in Clients, Leave(c) PROVE Hands'
    BY <1>4, PlaceTypes DEF Leave
  <1>5. ASSUME MainDies PROVE Hands'
    BY <1>5, PlaceTypes DEF MainDies, Closed
  <1>6. ASSUME NEW f \in Fronts, main = "up", WaitFront(f) PROVE Hands'
    BY <1>6, PlaceTypes DEF WaitFront
  <1>7. ASSUME NEW f \in Fronts, NEW c \in Clients, main = "up", Accept(f, c) PROVE Hands'
    <2>1. c # Nobody /\ inHand' = [inHand EXCEPT ![f] = c] /\ place' = [place EXCEPT ![c] = "front"]
      BY <1>7 DEF Accept
    <2>2. place[c] = "backlog" /\ main' = main BY <1>7 DEF Accept
    <2>3. \A g \in Fronts : inHand[g] # Nobody => place[inHand[g]] = "front" /\ inHand[g] # c
      BY <1>7, <2>2
    <2> QED BY <1>7, <2>1, <2>2, <2>3, PlaceTypes
  <1>8. ASSUME NEW f \in Fronts, main = "up", SendSocket(f) PROVE Hands'
    BY <1>8, PlaceTypes DEF SendSocket
  <1>9. ASSUME biz = "up", RecvSocket PROVE Hands'
    <2>1. CASE \E reason : BusinessDies(reason)
      BY <2>1, PlaceTypes DEF BusinessDies, Closed
    <2>2. CASE ~\E reason : BusinessDies(reason)
      <3>1. Head(pipe) \in Clients /\ place[Head(pipe)] = "pipe"
        BY <1>9, PipeFacts DEF RecvSocket, Carried
      <3> QED BY <1>9, <2>2, <3>1, PlaceTypes DEF RecvSocket
    <2> QED BY <2>1, <2>2
  <1>10. ASSUME biz = "up", EndOfPipe PROVE Hands'
    BY <1>10, PlaceTypes DEF EndOfPipe, BusinessDies, Closed
  <1>11. ASSUME biz = "up", Watch PROVE Hands'
    BY <1>11, PlaceTypes DEF Watch
  <1>12. ASSUME NEW b \in Backs, biz = "up", WaitEvents(b) PROVE Hands'
    BY <1>12, PlaceTypes DEF WaitEvents, Move, Ready, Kind
  <1>13. ASSUME NEW b \in Backs, biz = "up", ScanEnds(b) PROVE Hands'
    BY <1>13, PlaceTypes DEF ScanEnds, Move
  <1>14. ASSUME NEW b \in Backs, NEW c \in Clients, biz = "up", ScanError(b, c) PROVE Hands'
    BY <1>14, PlaceTypes DEF ScanError, Move
  <1>15. ASSUME NEW b \in Backs, NEW c \in Clients, biz = "up", ScanClient(b, c) PROVE Hands'
    BY <1>15, PlaceTypes DEF ScanClient, Move
  <1>16. ASSUME NEW b \in Backs, biz = "up", RecvFailed(b) PROVE Hands'
    BY <1>16, PlaceTypes DEF RecvFailed, Move
  <1>17. ASSUME NEW b \in Backs, biz = "up", RecvData(b) PROVE Hands'
    BY <1>17, PlaceTypes DEF RecvData, Move
  <1>18. ASSUME NEW b \in Backs, biz = "up", Query(b) PROVE Hands'
    <2>1. CASE \E reason : BusinessDies(reason)
      BY <2>1, PlaceTypes DEF BusinessDies, Closed
    <2>2. CASE UNCHANGED <<procVars, frontVars, pipe, loopVars, place>> BY <2>2
    <2> QED BY <1>18, <2>1, <2>2 DEF Query
  <1>19. ASSUME NEW b \in Backs, biz = "up", SendAnswer(b) PROVE Hands'
    <2>1. CASE \E reason : BusinessDies(reason)
      BY <2>1, PlaceTypes DEF BusinessDies, Closed
    <2>2. CASE UNCHANGED <<procVars, frontVars, pipe, loopVars, place>> BY <2>2
    <2> QED BY <1>19, <2>1, <2>2 DEF SendAnswer, Sent
  <1> QED BY <1>1, <1>2, <1>3, <1>4, <1>5, <1>6, <1>7, <1>8, <1>9, <1>10,
             <1>11, <1>12, <1>13, <1>14, <1>15, <1>16, <1>17, <1>18, <1>19
          DEF Step

LEMMA CarriedStep ==
  ASSUME HandInv, Step, UNCHANGED world PROVE  Carried'
  <1> USE ClientsAssumption, SizesAssumption, WorkersAssumption DEF world, procVars, frontVars,
        loopVars, backVars, clientVars, HandInv, Carried, Peers
  <1>1. ASSUME NEW c \in Clients, Arrive(c) PROVE Carried'
    <2>1. place[c] = "none" /\ place' = [place EXCEPT ![c] = "backlog"] /\ UNCHANGED <<biz, pipe>>
      BY <1>1 DEF Arrive
    <2> QED BY <2>1, PlaceTypes
  <1>2. ASSUME NEW c \in Clients, Ask(c) PROVE Carried'
    BY <1>2, PlaceTypes DEF Ask
  <1>3. ASSUME NEW c \in Clients, PieceArrives(c) PROVE Carried'
    BY <1>3, PlaceTypes DEF PieceArrives
  <1>4. ASSUME NEW c \in Clients, Leave(c) PROVE Carried'
    BY <1>4, PlaceTypes DEF Leave
  <1>5. ASSUME MainDies PROVE Carried'
    <2>1. \A c \in Clients : place'[c] = "pipe" <=> place[c] = "pipe"
      BY <1>5, PlaceTypes DEF MainDies, Closed
    <2>2. UNCHANGED <<biz, pipe>> BY <1>5 DEF MainDies
    <2> QED BY <2>1, <2>2, PlaceTypes
  <1>6. ASSUME NEW f \in Fronts, main = "up", WaitFront(f) PROVE Carried'
    BY <1>6, PlaceTypes DEF WaitFront
  <1>7. ASSUME NEW f \in Fronts, NEW c \in Clients, main = "up", Accept(f, c) PROVE Carried'
    <2>1. place[c] = "backlog" /\ place' = [place EXCEPT ![c] = "front"] /\ UNCHANGED <<biz, pipe>>
      BY <1>7 DEF Accept
    <2> QED BY <2>1, PlaceTypes
  <1>8. ASSUME NEW f \in Fronts, main = "up", SendSocket(f) PROVE Carried'
    <2>1. inHand[f] \in Clients /\ place[inHand[f]] = "front" /\ biz = "up"
      BY <1>8, PlaceTypes DEF SendSocket, Works, Hands
    <2>2. CASE UNCHANGED pipe /\ place' = [place EXCEPT ![inHand[f]] = "closed"]
      BY <2>1, <2>2, PlaceTypes
    <2>3. CASE pipe' = Append(pipe, inHand[f]) /\ place' = [place EXCEPT ![inHand[f]] = "pipe"]
      <3> DEFINE n == Len(pipe)
      <3>1. n \in Nat /\ Len(pipe') = n + 1 /\ pipe'[n + 1] = inHand[f]
            /\ \A i \in 1..n : pipe'[i] = pipe[i]
        BY <2>1, <2>3, PlaceTypes, AppendFacts
      <3>2. \A i \in 1..n : pipe[i] \in Clients /\ place[pipe[i]] = "pipe" /\ pipe[i] # inHand[f]
        BY <2>1, PlaceTypes
      <3>3. /\ \A i, j \in 1..n : pipe[i] = pipe[j] => i = j
            /\ \A c \in Clients : place[c] = "pipe" => \E i \in 1..n : pipe[i] = c
        BY <2>1
      <3>4. \A c \in Clients : place'[c] = IF c = inHand[f] THEN "pipe" ELSE place[c]
        BY <2>3, PlaceTypes
      <3> HIDE DEF n
      <3>5. \A i, j \in 1..(n + 1) : pipe'[i] = pipe'[j] => i = j
        BY <3>1, <3>2, <3>3
      <3>6. \A i \in 1..(n + 1) : place'[pipe'[i]] = "pipe"
        BY <2>1, <3>1, <3>2, <3>4
      <3>7. ASSUME NEW c \in Clients, place'[c] = "pipe" PROVE \E i \in 1..(n + 1) : pipe'[i] = c
        <4>1. CASE c = inHand[f] BY <3>1, <4>1
        <4>2. CASE c # inHand[f] BY <3>1, <3>3, <3>4, <3>7, <4>2
        <4> QED BY <4>1, <4>2
      <3> QED BY <3>1, <3>5, <3>6, <3>7
    <2> QED BY <1>8, <2>2, <2>3 DEF SendSocket
  <1>9. ASSUME biz = "up", RecvSocket PROVE Carried'
    <2>1. CASE biz' = "down" BY <2>1
    <2>2. CASE pipe' = Tail(pipe) /\ place' = [place EXCEPT ![Head(pipe)] = "back"]
      <3>1. pipe # <<>> BY <1>9 DEF RecvSocket
      <3> DEFINE n == Len(pipe) - 1
      <3>2. /\ n \in Nat /\ Len(pipe') = n /\ Head(pipe) = pipe[1] /\ pipe[1] \in Clients
            /\ n + 1 = Len(pipe) /\ \A i \in 1..n : pipe'[i] = pipe[i + 1]
        BY <2>2, <3>1, PipeFacts
      <3>3. /\ \A i, j \in 1..(n + 1) : pipe[i] = pipe[j] => i = j
            /\ \A i \in 1..(n + 1) : pipe[i] \in Clients /\ place[pipe[i]] = "pipe"
            /\ \A c \in Clients : place[c] = "pipe" => \E i \in 1..(n + 1) : pipe[i] = c
        BY <1>9, <3>2, PlaceTypes
      <3>4. \A c \in Clients : place'[c] = IF c = pipe[1] THEN "back" ELSE place[c]
        BY <2>2, <3>2, PlaceTypes
      <3> HIDE DEF n
      <3>5. ASSUME NEW c \in Clients, place'[c] = "pipe" PROVE \E i \in 1..n : pipe'[i] = c
        <4>1. c # pipe[1] /\ place[c] = "pipe" BY <3>4, <3>5
        <4>2. PICK j \in 1..(n + 1) : pipe[j] = c BY <3>3, <4>1
        <4>3. j - 1 \in 1..n /\ (j - 1) + 1 = j BY <3>2, <4>1, <4>2
        <4>4. pipe'[j - 1] = pipe[(j - 1) + 1] BY <3>2, <4>3
        <4> QED BY <4>2, <4>3, <4>4
      <3>6. \A i \in 1..n : i + 1 \in 1..(n + 1) /\ i + 1 # 1 /\ 1 \in 1..(n + 1) BY <3>2
      <3>7. \A i \in 1..n : place'[pipe'[i]] = "pipe" BY <3>2, <3>3, <3>4, <3>6
      <3>8. \A i, j \in 1..n : pipe'[i] = pipe'[j] => i = j
        <4> TAKE i, j \in 1..n
        <4> HAVE pipe'[i] = pipe'[j]
        <4>1. i + 1 = j + 1 BY <3>2, <3>3, <3>6
        <4> QED BY <4>1
      <3> QED BY <3>2, <3>5, <3>7, <3>8
    <2> QED BY <1>9, <2>1, <2>2 DEF RecvSocket, BusinessDies
  <1>10. ASSUME biz = "up", EndOfPipe PROVE Carried'
    BY <1>10, PlaceTypes DEF EndOfPipe, BusinessDies, Closed
  <1>11. ASSUME biz = "up", Watch PROVE Carried'
    BY <1>11, PlaceTypes DEF Watch
  <1>12. ASSUME NEW b \in Backs, biz = "up", WaitEvents(b) PROVE Carried'
    BY <1>12, PlaceTypes DEF WaitEvents, Move, Ready, Kind
  <1>13. ASSUME NEW b \in Backs, biz = "up", ScanEnds(b) PROVE Carried'
    BY <1>13, PlaceTypes DEF ScanEnds, Move
  <1>14. ASSUME NEW b \in Backs, NEW c \in Clients, biz = "up", ScanError(b, c) PROVE Carried'
    BY <1>14, PlaceTypes DEF ScanError, Move
  <1>15. ASSUME NEW b \in Backs, NEW c \in Clients, biz = "up", ScanClient(b, c) PROVE Carried'
    BY <1>15, PlaceTypes DEF ScanClient, Move
  <1>16. ASSUME NEW b \in Backs, biz = "up", RecvFailed(b) PROVE Carried'
    BY <1>16, PlaceTypes DEF RecvFailed, Move
  <1>17. ASSUME NEW b \in Backs, biz = "up", RecvData(b) PROVE Carried'
    BY <1>17, PlaceTypes DEF RecvData, Move
  <1>18. ASSUME NEW b \in Backs, biz = "up", Query(b) PROVE Carried'
    <2>1. CASE \E reason : BusinessDies(reason)
      BY <2>1, PlaceTypes DEF BusinessDies, Closed
    <2>2. CASE UNCHANGED <<procVars, frontVars, pipe, loopVars, place>> BY <2>2
    <2> QED BY <1>18, <2>1, <2>2 DEF Query
  <1>19. ASSUME NEW b \in Backs, biz = "up", SendAnswer(b) PROVE Carried'
    <2>1. CASE \E reason : BusinessDies(reason)
      BY <2>1, PlaceTypes DEF BusinessDies, Closed
    <2>2. CASE UNCHANGED <<procVars, frontVars, pipe, loopVars, place>> BY <2>2
    <2> QED BY <1>19, <2>1, <2>2 DEF SendAnswer, Sent
  <1> QED BY <1>1, <1>2, <1>3, <1>4, <1>5, <1>6, <1>7, <1>8, <1>9, <1>10,
             <1>11, <1>12, <1>13, <1>14, <1>15, <1>16, <1>17, <1>18, <1>19
          DEF Step

LEMMA HeldStep ==
  ASSUME HandInv, Step, UNCHANGED world PROVE  Held'
  <1> USE ClientsAssumption, SizesAssumption, WorkersAssumption DEF world, procVars, frontVars,
        loopVars, backVars, clientVars, HandInv, Held, Peers, Hands, Works
  <1>1. ASSUME NEW c \in Clients, Arrive(c) PROVE Held'
    BY <1>1, PlaceTypes DEF Arrive
  <1>2. ASSUME NEW c \in Clients, Ask(c) PROVE Held'
    BY <1>2, PlaceTypes DEF Ask
  <1>3. ASSUME NEW c \in Clients, PieceArrives(c) PROVE Held'
    BY <1>3, PlaceTypes DEF PieceArrives
  <1>4. ASSUME NEW c \in Clients, Leave(c) PROVE Held'
    BY <1>4, PlaceTypes DEF Leave
  <1>5. ASSUME MainDies PROVE Held'
    BY <1>5, PlaceTypes DEF MainDies, Closed
  <1>6. ASSUME NEW f \in Fronts, main = "up", WaitFront(f) PROVE Held'
    BY <1>6, PlaceTypes DEF WaitFront
  <1>7. ASSUME NEW f \in Fronts, NEW c \in Clients, main = "up", Accept(f, c) PROVE Held'
    BY <1>7, PlaceTypes DEF Accept
  <1>8. ASSUME NEW f \in Fronts, main = "up", SendSocket(f) PROVE Held'
    BY <1>8, PlaceTypes DEF SendSocket
  <1>9. ASSUME biz = "up", RecvSocket PROVE Held'
    <2>1. CASE \E reason : BusinessDies(reason)
      BY <2>1, PlaceTypes DEF BusinessDies, Closed
    <2>2. CASE ~\E reason : BusinessDies(reason)
      <3>1. Head(pipe) \in Clients /\ place[Head(pipe)] = "pipe"
        BY <1>9, PipeFacts DEF RecvSocket, Carried
      <3> QED BY <1>9, <2>2, <3>1, PlaceTypes DEF RecvSocket
    <2> QED BY <2>1, <2>2
  <1>10. ASSUME biz = "up", EndOfPipe PROVE Held'
    BY <1>10, PlaceTypes DEF EndOfPipe, BusinessDies, Closed
  <1>11. ASSUME biz = "up", Watch PROVE Held'
    BY <1>11, PlaceTypes DEF Watch
  <1>12. ASSUME NEW b \in Backs, biz = "up", WaitEvents(b) PROVE Held'
    BY <1>12, PlaceTypes DEF WaitEvents, Move, Ready, Kind
  <1>13. ASSUME NEW b \in Backs, biz = "up", ScanEnds(b) PROVE Held'
    BY <1>13, PlaceTypes DEF ScanEnds, Move
  <1>14. ASSUME NEW b \in Backs, NEW c \in Clients, biz = "up", ScanError(b, c) PROVE Held'
    BY <1>14, PlaceTypes DEF ScanError, Move
  <1>15. ASSUME NEW b \in Backs, NEW c \in Clients, biz = "up", ScanClient(b, c) PROVE Held'
    BY <1>15, PlaceTypes DEF ScanClient, Move
  <1>16. ASSUME NEW b \in Backs, biz = "up", RecvFailed(b) PROVE Held'
    BY <1>16, PlaceTypes DEF RecvFailed, Move
  <1>17. ASSUME NEW b \in Backs, biz = "up", RecvData(b) PROVE Held'
    BY <1>17, PlaceTypes DEF RecvData, Move
  <1>18. ASSUME NEW b \in Backs, biz = "up", Query(b) PROVE Held'
    <2>1. CASE \E reason : BusinessDies(reason)
      BY <2>1, PlaceTypes DEF BusinessDies, Closed
    <2>2. CASE UNCHANGED <<procVars, frontVars, pipe, loopVars, place>> BY <2>2
    <2> QED BY <1>18, <2>1, <2>2 DEF Query
  <1>19. ASSUME NEW b \in Backs, biz = "up", SendAnswer(b) PROVE Held'
    <2>1. CASE \E reason : BusinessDies(reason)
      BY <2>1, PlaceTypes DEF BusinessDies, Closed
    <2>2. CASE UNCHANGED <<procVars, frontVars, pipe, loopVars, place>> BY <2>2
    <2> QED BY <1>19, <2>1, <2>2 DEF SendAnswer, Sent
  <1> QED BY <1>1, <1>2, <1>3, <1>4, <1>5, <1>6, <1>7, <1>8, <1>9, <1>10,
             <1>11, <1>12, <1>13, <1>14, <1>15, <1>16, <1>17, <1>18, <1>19
          DEF Step

LEMMA InTurnStep ==
  ASSUME HandInv, LoginInv, Step, UNCHANGED world PROVE  InTurn'
  <1> USE ClientsAssumption, SizesAssumption, WorkersAssumption DEF world, procVars, frontVars,
        loopVars, backVars, clientVars, HandInv, LoginInv, InTurn, Busy, Unread
  <1>1. ASSUME NEW c \in Clients, Arrive(c) PROVE InTurn'
    BY <1>1, CallTypes DEF Arrive
  <1>2. ASSUME NEW c \in Clients, Ask(c) PROVE InTurn'
    <2>1. asked' = [asked EXCEPT ![c] = @ + 1] /\ arrived' = [arrived EXCEPT ![c] = 1]
          /\ taken' = [taken EXCEPT ![c] = 0] /\ UNCHANGED <<answers, peer, bpc, cur>>
      BY <1>2 DEF Ask
    <2>2. \A b \in Backs, e \in Clients : Busy(b, e)' <=> Busy(b, e) BY <2>1
    <2>3. \A e \in Clients \ {c} : Unread(e)' <=> Unread(e) BY <2>1
    <2>4. ASSUME pieces[c] = 1 PROVE Len(answers[c]) <= asked[c] /\ \A b \in Backs : ~Busy(b, c)
      <3>1. CASE asked[c] = 0 BY <2>4, <3>1, Counts
      <3>2. CASE asked[c] > 0 BY <1>2, <2>4, <3>2, Counts DEF Ask
      <3> QED BY <3>1, <3>2, Counts
    <2>5. peer[c] = "here" BY <1>2 DEF Ask
    <2> HIDE DEF Busy, Unread
    <2> QED BY <2>1, <2>2, <2>3, <2>4, <2>5, Counts, CallTypes
  <1>3. ASSUME NEW c \in Clients, PieceArrives(c) PROVE InTurn'
    <2>1. pieces[c] # 1 BY <1>3 DEF PieceArrives
    <2>2. arrived' = [arrived EXCEPT ![c] = @ + 1] /\ UNCHANGED <<asked, taken, answers, peer, bpc, cur>>
      BY <1>3 DEF PieceArrives
    <2>3. \A e \in Clients \ {c} : Unread(e)' <=> Unread(e) BY <2>2
    <2> QED BY <2>1, <2>2, <2>3
  <1>4. ASSUME NEW c \in Clients, Leave(c) PROVE InTurn'
    BY <1>4, CallTypes DEF Leave
  <1>5. ASSUME MainDies PROVE InTurn'
    BY <1>5, CallTypes DEF MainDies, Closed
  <1>6. ASSUME NEW f \in Fronts, main = "up", WaitFront(f) PROVE InTurn'
    BY <1>6, CallTypes DEF WaitFront
  <1>7. ASSUME NEW f \in Fronts, NEW c \in Clients, main = "up", Accept(f, c) PROVE InTurn'
    BY <1>7, CallTypes DEF Accept
  <1>8. ASSUME NEW f \in Fronts, main = "up", SendSocket(f) PROVE InTurn'
    BY <1>8, CallTypes DEF SendSocket
  <1>9. ASSUME biz = "up", RecvSocket PROVE InTurn'
    BY <1>9, CallTypes DEF RecvSocket, BusinessDies, Closed
  <1>10. ASSUME biz = "up", EndOfPipe PROVE InTurn'
    BY <1>10, CallTypes DEF EndOfPipe, BusinessDies, Closed
  <1>11. ASSUME biz = "up", Watch PROVE InTurn'
    BY <1>11, CallTypes DEF Watch
  <1>12. ASSUME NEW b \in Backs, biz = "up", WaitEvents(b) PROVE InTurn'
    <2>1. \A d \in Backs, e \in Clients : Busy(d, e)' <=> Busy(d, e)
      BY <1>12, CallTypes DEF WaitEvents, Move
    <2> HIDE DEF Busy
    <2> QED BY <1>12, <2>1 DEF WaitEvents
  <1>13. ASSUME NEW b \in Backs, biz = "up", ScanEnds(b) PROVE InTurn'
    <2>1. \A d \in Backs, e \in Clients : Busy(d, e)' <=> Busy(d, e)
      BY <1>13, CallTypes DEF ScanEnds, Move
    <2> HIDE DEF Busy
    <2> QED BY <1>13, <2>1 DEF ScanEnds
  <1>14. ASSUME NEW b \in Backs, NEW c \in Clients, biz = "up", ScanError(b, c) PROVE InTurn'
    <2>1. \A d \in Backs, e \in Clients : Busy(d, e)' <=> Busy(d, e)
      BY <1>14, CallTypes DEF ScanError, Move
    <2> HIDE DEF Busy
    <2> QED BY <1>14, <2>1 DEF ScanError
  <1>15. ASSUME NEW b \in Backs, NEW c \in Clients, biz = "up", ScanClient(b, c) PROVE InTurn'
    <2>1. \A d \in Backs, e \in Clients : Busy(d, e)' <=> Busy(d, e)
      BY <1>15, CallTypes DEF ScanClient, Move
    <2> HIDE DEF Busy
    <2> QED BY <1>15, <2>1 DEF ScanClient
  <1>16. ASSUME NEW b \in Backs, biz = "up", RecvFailed(b) PROVE InTurn'
    <2>1. \A d \in Backs, e \in Clients : Busy(d, e)' <=> Busy(d, e)
      BY <1>16, CallTypes DEF RecvFailed, Move
    <2>2. \A e \in Clients : peer'[e] = "broken" <=> peer[e] = "broken"
      BY <1>16, CallTypes DEF RecvFailed, Told
    <2> HIDE DEF Busy
    <2> QED BY <1>16, <2>1, <2>2 DEF RecvFailed
  <1>17. ASSUME NEW b \in Backs, biz = "up", RecvData(b) PROVE InTurn'
    <2>1. PICK c \in Clients : c = cur[b] /\ Unread(c) /\ taken' = [taken EXCEPT ![c] = arrived[c]]
      BY <1>17, CallTypes DEF RecvData, Works
    <2>2. UNCHANGED <<asked, arrived, answers, peer, cur>> BY <1>17 DEF RecvData
    <2>3. bpc[b] = "recv" /\ bpc' \in {[bpc EXCEPT ![b] = "query"], [bpc EXCEPT ![b] = "send"]}
      BY <1>17 DEF RecvData, Move
    <2>4. ~Unread(c)' /\ \A e \in Clients \ {c} : Unread(e)' <=> Unread(e)
      BY <2>1, <2>2, Counts, CallTypes DEF Unread
    <2>5. \A d \in Backs, e \in Clients : Busy(d, e)' <=> Busy(d, e) \/ (d = b /\ e = c)
      BY <2>1, <2>2, <2>3, CallTypes
    <2> HIDE DEF Busy, Unread
    <2> QED BY <2>1, <2>2, <2>4, <2>5, CallTypes
  <1>18. ASSUME NEW b \in Backs, biz = "up", Query(b) PROVE InTurn'
    <2>1. CASE \E reason : BusinessDies(reason) BY <2>1 DEF BusinessDies
    <2>2. CASE Move(b, "send") /\ UNCHANGED <<asked, arrived, taken, answers, peer, cur>>
      <3>1. \A d \in Backs, e \in Clients : Busy(d, e)' <=> Busy(d, e)
        BY <1>18, <2>2, CallTypes DEF Query, Move
      <3> HIDE DEF Busy
      <3> QED BY <2>2, <3>1
    <2> QED BY <1>18, <2>1, <2>2 DEF Query
  <1>19. ASSUME NEW b \in Backs, biz = "up", SendAnswer(b) PROVE InTurn'
    <2>1. CASE \E reason : BusinessDies(reason) BY <2>1 DEF BusinessDies
    <2>2. CASE Sent(b)
      <3>1. PICK c \in Clients : c = cur[b] /\ Busy(b, c) BY <1>19, CallTypes DEF SendAnswer, Works
      <3>2. bpc' = [bpc EXCEPT ![b] = "scan"] /\ cur' = [cur EXCEPT ![b] = Nobody]
            /\ UNCHANGED <<asked, arrived, taken>>
        BY <2>2 DEF Sent, Move
      <3>3. \A d \in Backs, e \in Clients : Busy(d, e)' <=> Busy(d, e) /\ d # b
        BY <3>2, CallTypes
      <3>4. \A e \in Clients \ {c} : peer'[e] = peer[e] /\ answers'[e] = answers[e]
        BY <1>19, <3>1, CallTypes, AnswerFacts DEF SendAnswer, BusinessDies, Told
      <3>5. Len(answers'[c]) = Len(answers[c]) \/ Len(answers'[c]) = Len(answers[c]) + 1
        BY <1>19, <3>1, AnswerFacts DEF SendAnswer, BusinessDies
      <3>6. \A e \in Clients \ {c} : Unread(e)' <=> Unread(e) BY <3>2
      <3> HIDE DEF Busy
      <3>7. \A e \in Clients : Unread(e)' <=> Unread(e) BY <3>2
      <3>8. ASSUME pieces[c] = 1
            PROVE  /\ ~Unread(c) /\ Len(answers'[c]) <= asked[c] /\ \A d \in Backs : ~Busy(d, c)'
        <4>1. Len(answers[c]) < asked[c] /\ \A d \in Backs : Busy(d, c) => d = b
          BY <3>1, <3>8
        <4> QED BY <3>1, <3>3, <3>5, <3>8, <4>1, Counts
      <3>9. pieces' = pieces OBVIOUS
      <3>10. ASSUME NEW e \in Clients, pieces[e] = 1
             PROVE /\ Len(answers'[e]) <= asked'[e]
                   /\ Unread(e)' => Len(answers'[e]) < asked'[e] /\ \A d \in Backs : ~Busy(d, e)'
                   /\ \A d \in Backs : Busy(d, e)' =>
                        Len(answers'[e]) < asked'[e] /\ \A h \in Backs : Busy(h, e)' => h = d
                   /\ peer'[e] = "broken" => ~Unread(e)' /\ \A d \in Backs : ~Busy(d, e)'
        <4>1. CASE e = c BY <3>2, <3>7, <3>8, <3>10, <4>1
        <4>2. CASE e # c BY <3>2, <3>3, <3>4, <3>7, <3>10, <4>2
        <4> QED BY <4>1, <4>2
      <3> QED BY <3>9, <3>10
    <2> QED BY <1>19, <2>1, <2>2 DEF SendAnswer
  <1> QED BY <1>1, <1>2, <1>3, <1>4, <1>5, <1>6, <1>7, <1>8, <1>9, <1>10,
             <1>11, <1>12, <1>13, <1>14, <1>15, <1>16, <1>17, <1>18, <1>19
          DEF Step

(* Whom the workers answer with what, and which of their queries met.      *)
LEMMA RepliesStep ==
  ASSUME HandInv, LoginInv, Step, UNCHANGED world PROVE  Replies' /\ Meetings'
  <1> USE CallTypes DEF HandInv, LoginInv, backVars
  <1>1. \A d, r : Verified(d, r)' <=> Verified(d, r) BY DEF world, Verified
  <1>2. ASSUME UNCHANGED <<code, mixed>>,
               \A d \in Backs : bpc'[d] = "send" => bpc[d] = "send" /\ cur'[d] = cur[d]
        PROVE  Replies' /\ Meetings'
    <2> HIDE DEF Verified
    <2> QED BY <1>1, <1>2 DEF Replies, Meetings
  <1>3. ASSUME NEW c \in Clients, Arrive(c) \/ Ask(c) \/ PieceArrives(c) \/ Leave(c)
        PROVE  Replies' /\ Meetings'
    BY <1>2, <1>3 DEF Arrive, Ask, PieceArrives, Leave
  <1>4. CASE MainDies BY <1>2, <1>4 DEF MainDies
  <1>5. ASSUME NEW f \in Fronts, WaitFront(f) \/ SendSocket(f) \/ \E c \in Clients : Accept(f, c)
        PROVE  Replies' /\ Meetings'
    BY <1>2, <1>5 DEF WaitFront, SendSocket, Accept
  <1>6. CASE RecvSocket \/ EndOfPipe \/ Watch
    BY <1>2, <1>6 DEF RecvSocket, EndOfPipe, Watch, BusinessDies
  <1>7. ASSUME NEW b \in Backs,
               \/ WaitEvents(b) \/ ScanEnds(b) \/ RecvFailed(b)
               \/ \E c \in Clients : ScanError(b, c) \/ ScanClient(b, c)
        PROVE  Replies' /\ Meetings'
    BY <1>2, <1>7 DEF WaitEvents, ScanEnds, RecvFailed, ScanError, ScanClient, Move
  <1>8. ASSUME NEW b \in Backs, RecvData(b) PROVE Replies' /\ Meetings'
    <2>1. PICK c \in Clients : c = cur[b] /\ Unread(c) BY <1>8 DEF RecvData, Works
    <2>2. UNCHANGED cur /\ bpc[b] = "recv" BY <1>8 DEF RecvData
    <2>3. CASE /\ bpc' = [bpc EXCEPT ![b] = "query"] /\ UNCHANGED code
               /\ mixed' = mixed \cup IF Querying = {} THEN {} ELSE Querying \cup {b}
      <3>1. Querying # {} => Cardinality(Backs) > 1
        <4>1. \A d \in Querying : d \in Backs /\ d # b BY <2>2 DEF Querying
        <4> QED BY <4>1, TwoInSet
      <3>2. \A d \in Backs : bpc'[d] = "send" => bpc[d] = "send" BY <2>3
      <3> HIDE DEF Verified
      <3> QED BY <1>1, <2>2, <2>3, <3>1, <3>2 DEF Replies, Meetings
    <2>4. CASE /\ bpc' = [bpc EXCEPT ![b] = "send"] /\ ~(Complete(c) /\ "uri" \in Repairs)
               /\ UNCHANGED mixed /\ code' = [code EXCEPT ![b] = IF Complete(c) THEN -7 ELSE -1]
      <3>1. Verified(c, IF Complete(c) THEN -7 ELSE -1)
        <4>1. CASE Complete(c) BY <2>4, <4>1 DEF Verified
        <4>2. CASE ~Complete(c)
          <5>1. pieces[c] = 1 => taken[c] = 0 /\ arrived[c] = 1
            BY <2>1, Counts DEF Unread, Requests
          <5>2. pieces[c] > 1 BY <4>2, <5>1, Counts DEF Complete
          <5> QED BY <4>2, <5>2 DEF Verified
        <4> QED BY <4>1, <4>2
      <3>2. code'[b] = (IF Complete(c) THEN -7 ELSE -1) /\ \A d \in Backs \ {b} : code'[d] = code[d]
        BY <2>4
      <3>3. \A d \in Backs \ {b} : bpc'[d] = bpc[d] BY <2>4
      <3> HIDE DEF Complete, Verified
      <3> QED BY <1>1, <2>1, <2>2, <2>4, <3>1, <3>2, <3>3 DEF Replies, Meetings
    <2> QED BY <1>8, <2>1, <2>3, <2>4 DEF RecvData, Move
  <1>9. ASSUME NEW b \in Backs, Query(b) PROVE Replies' /\ Meetings'
    <2>1. CASE \E reason : BusinessDies(reason) BY <1>2, <2>1 DEF BusinessDies
    <2>2. ASSUME NEW r, code' = [code EXCEPT ![b] = r], Move(b, "send"), UNCHANGED <<cur, mixed>>,
                 \/ r = Verdict(cur[b])
                 \/ MayErr /\ r = -3
                 \/ b \in mixed
          PROVE  Replies' /\ Meetings'
      <3>1. cur[b] \in Clients BY <1>9 DEF Query, Works
      <3>2. MayErr => Verified(cur[b], -3) BY DEF Verified
      <3>3. b \in mixed \/ Verified(cur[b], r) BY <2>2, <3>1, <3>2, VerdictIs
      <3>4. code'[b] = r /\ \A d \in Backs \ {b} : code'[d] = code[d] /\ bpc'[d] = bpc[d]
        BY <2>2 DEF Move
      <3> HIDE DEF Verified
      <3> QED BY <1>1, <2>2, <3>3, <3>4 DEF Replies, Meetings
    <2> QED BY <1>9, <2>1, <2>2 DEF Query
  <1>10. ASSUME NEW b \in Backs, SendAnswer(b) PROVE Replies' /\ Meetings'
    <2>1. CASE \E reason : BusinessDies(reason) BY <1>2, <2>1 DEF BusinessDies
    <2>2. CASE Sent(b)
      <3>1. /\ bpc'[b] = "scan" /\ mixed' = mixed \ {b}
            /\ \A d \in Backs \ {b} : bpc'[d] = bpc[d] /\ cur'[d] = cur[d] /\ code'[d] = code[d]
        BY <2>2 DEF Sent, Move
      <3> HIDE DEF Verified
      <3> QED BY <1>1, <3>1 DEF Replies, Meetings
    <2> QED BY <1>10, <2>1, <2>2 DEF SendAnswer
  <1> QED BY <1>3, <1>4, <1>5, <1>6, <1>7, <1>8, <1>9, <1>10 DEF Step

(* Only a worker that sends adds to the answers of a client, and what.     *)
LEMMA AnswersGrow ==
  ASSUME HandInv, Replies, Step, NEW c \in Clients, answers'[c] # answers[c]
  PROVE  \E b \in Backs : /\ Answers(b, c)
                          /\ (b \in mixed \/ Verified(c, answers'[c][Len(answers'[c])]))
  <1> USE CallTypes DEF HandInv, clientVars
  <1>1. PICK b \in Backs : SendAnswer(b)
    BY DEF Step, Arrive, Ask, PieceArrives, Leave, MainDies, WaitFront, SendSocket, Accept,
           RecvSocket, EndOfPipe, Watch, BusinessDies, WaitEvents, ScanEnds, RecvFailed,
           RecvData, Query, ScanError, ScanClient
  <1>2. /\ answers' = [answers EXCEPT ![cur[b]] = Append(@, code[b])]
        /\ bpc[b] = "send" /\ bpc' = [bpc EXCEPT ![b] = "scan"]
    BY <1>1 DEF SendAnswer, Sent, Move, BusinessDies
  <1>3. cur[b] = c BY <1>2
  <1>4. Len(answers'[c]) = Len(answers[c]) + 1 /\ answers'[c][Len(answers[c]) + 1] = code[b]
    BY <1>2, <1>3, AnswerFacts
  <1>5. b \in mixed \/ Verified(c, code[b]) BY <1>2, <1>3 DEF Replies
  <1>6. Answers(b, c) BY <1>2, <1>3 DEF Answers
  <1> HIDE DEF Verified, Answers
  <1> QED BY <1>4, <1>5, <1>6

-----------------------------------------------------------------------------
(* What ends the processes. *)

LEMMA OneWay ==
  ASSUME HandInv, Step
  PROVE  /\ \A c \in Clients : /\ peer'[c] = "away" => peer[c] = "away"
                               /\ peer[c] \in {"broken", "dead"} => peer'[c] = peer[c]
         /\ main' = main \/ (main' = "down" /\ (MayKill \/ biz = "down"))
         /\ biz' = biz \/ biz' = "down"
         /\ why' = why \/ RecvSocket \/ EndOfPipe \/ \E b \in Backs : Query(b) \/ SendAnswer(b)
  <1> USE CallTypes DEF HandInv, procVars
  <1>1. ASSUME NEW c \in Clients, Arrive(c) \/ Ask(c) \/ PieceArrives(c) \/ Leave(c)
        PROVE  /\ \A d \in Clients : /\ peer'[d] = "away" => peer[d] = "away"
                                     /\ peer[d] \in {"broken", "dead"} => peer'[d] = peer[d]
               /\ UNCHANGED procVars
    BY <1>1 DEF Arrive, Ask, PieceArrives, Leave
  <1>2. CASE MainDies /\ (MayKill \/ biz = "down") BY <1>2 DEF MainDies
  <1>3. ASSUME NEW f \in Fronts, WaitFront(f) \/ SendSocket(f) \/ \E c \in Clients : Accept(f, c)
        PROVE  UNCHANGED <<procVars, peer>>
    BY <1>3 DEF WaitFront, SendSocket, Accept
  <1>4. CASE RecvSocket \/ EndOfPipe BY <1>4 DEF RecvSocket, EndOfPipe, BusinessDies
  <1>5. CASE Watch BY <1>5 DEF Watch
  <1>6. ASSUME NEW b \in Backs,
               \/ WaitEvents(b) \/ ScanEnds(b) \/ RecvFailed(b) \/ RecvData(b)
               \/ \E c \in Clients : ScanError(b, c) \/ ScanClient(b, c)
        PROVE  UNCHANGED procVars /\ (UNCHANGED peer \/ peer' = Told(cur[b]))
    BY <1>6 DEF WaitEvents, ScanEnds, RecvFailed, RecvData, ScanError, ScanClient
  <1>7. ASSUME NEW b \in Backs, Query(b)
        PROVE  UNCHANGED <<main, peer>> /\ (biz' = biz \/ biz' = "down")
    BY <1>7 DEF Query, BusinessDies
  <1>8. ASSUME NEW b \in Backs, SendAnswer(b)
        PROVE  /\ \A d \in Clients : /\ peer'[d] = "away" => peer[d] = "away"
                                     /\ peer[d] \in {"broken", "dead"} => peer'[d] = peer[d]
               /\ UNCHANGED main /\ (biz' = biz \/ biz' = "down")
    <2>1. CASE UNCHANGED peer BY <1>8, <2>1 DEF SendAnswer, Sent, BusinessDies
    <2>2. CASE peer[cur[b]] = "left" /\ peer' = [peer EXCEPT ![cur[b]] = "broken"]
      BY <1>8, <2>2 DEF SendAnswer, Sent, BusinessDies
    <2>3. CASE peer' = Told(cur[b]) BY <1>8, <2>3 DEF SendAnswer, Sent, BusinessDies, Told
    <2> QED BY <1>8, <2>1, <2>2, <2>3 DEF SendAnswer, Sent, BusinessDies
  <1>9. ASSUME NEW b \in Backs, peer' = Told(cur[b])
        PROVE  \A d \in Clients : /\ peer'[d] = "away" => peer[d] = "away"
                                  /\ peer[d] \in {"broken", "dead"} => peer'[d] = peer[d]
    BY <1>9 DEF Told
  <1> QED BY <1>9, <1>1, <1>2, <1>3, <1>4, <1>5, <1>6, <1>7, <1>8 DEF Step

Connected == {c \in Clients : place[c] # "none"}

LEMMA ConnectedGrows ==
  ASSUME HandInv, Peers', Step
  PROVE  /\ IsFiniteSet(Connected) /\ Cardinality(Connected) \in Nat /\ Cardinality(Connected') \in Nat
         /\ Cardinality(Connected) <= Cardinality(Connected')
  <1>1. Connected \subseteq Connected' BY OneWay DEF HandInv, Peers, Connected
  <1>2. Connected' \subseteq Clients BY DEF Connected
  <1> QED BY <1>1, <1>2, ClientsAssumption, FS_Subset, FS_CardinalityType

LEMMA FullCause ==
  ASSUME HandInv, biz = "up", pipe # <<>>, Full
  PROVE  Cardinality(Connected) > fds
  <1>1. Head(pipe) \in Clients /\ place[Head(pipe)] = "pipe"
    BY PipeFacts DEF HandInv, Carried
  <1>2. At("back") \cup {Head(pipe)} \subseteq Connected /\ Head(pipe) \notin At("back")
    BY <1>1 DEF At, Connected
  <1>3. IsFiniteSet(Connected) /\ IsFiniteSet(At("back"))
    BY ClientsAssumption, FS_Subset DEF Connected, At
  <1>4. Cardinality(At("back") \cup {Head(pipe)}) = fds + 1
    BY <1>2, <1>3, FS_AddElement DEF Full
  <1>5. Cardinality(At("back") \cup {Head(pipe)}) <= Cardinality(Connected)
    BY <1>2, <1>3, FS_Subset
  <1>6. MaxFds \in Nat /\ fds \in 1..MaxFds BY SizesAssumption DEF HandInv, TypeOK
  <1>7. Cardinality(Connected) \in Nat BY <1>3, FS_CardinalityType
  <1> QED BY <1>4, <1>5, <1>6, <1>7

(* The clients whose connection raises SIGPIPE. *)
Dead   == {c \in Clients : peer[c] = "dead"}
Broken == {c \in Clients : peer[c] = "broken" /\ pieces[c] > 1}

LEMMA BrokenPipeCause ==
  ASSUME HandInv, InTurn, NEW b \in Backs, bpc[b] = "send", peer[cur[b]] \in {"broken", "dead"}
  PROVE  (MayReset /\ Dead # {}) \/ (MayLeave /\ Broken # {})
  <1>1. PICK c \in Clients : c = cur[b] BY CallTypes DEF HandInv, Works
  <1>2. /\ peer[c] = "dead" => MayReset
        /\ peer[c] = "broken" => MayLeave
    BY <1>1 DEF HandInv, Peers
  <1>3. peer[c] = "broken" => pieces[c] # 1 BY <1>1 DEF InTurn, Busy
  <1>4. pieces[c] \in Nat /\ pieces[c] >= 1 BY Counts DEF HandInv
  <1>5. pieces[c] # 1 => pieces[c] > 1 BY <1>4
  <1> QED BY <1>1, <1>2, <1>3, <1>5 DEF Dead, Broken

LEMMA CauseStep ==
  ASSUME HandInv, LoginInv, EndCause, Peers', Step, UNCHANGED world PROVE EndCause'
  <1> USE DEF HandInv
  <1>0. why = "sigpipe" => (MayReset /\ Dead # {}) \/ (MayLeave /\ Broken # {})
    BY DEF EndCause, Dead, Broken
  <1>1. main' = "down" => MayKill \/ biz' = "down"
    BY OneWay DEF EndCause, TypeOK
  <1>2. UNCHANGED <<pieces, fds>> BY DEF world
  <1>3. fds \in Nat
    <2>1. MaxFds \in Nat /\ fds \in 1..MaxFds BY SizesAssumption DEF TypeOK
    <2> QED BY <2>1
  <1>4. CASE why' = why
    <2>1. why = "full" => Cardinality(Connected)' > fds'
      BY <1>2, <1>3, ConnectedGrows DEF EndCause, Connected
    <2>2. Dead \subseteq Dead' /\ Broken \subseteq Broken'
      BY <1>2, OneWay DEF Dead, Broken
    <2> DEFINE Cause == \E c \in Clients : \/ MayReset /\ peer'[c] = "dead"
                                           \/ MayLeave /\ peer'[c] = "broken" /\ pieces'[c] > 1
    <2>3. ASSUME MayReset, Dead # {} PROVE Cause
      <3>1. PICK c \in Clients : peer'[c] = "dead" BY <2>2, <2>3 DEF Dead
      <3> QED BY <2>3, <3>1
    <2>4. ASSUME MayLeave, Broken # {} PROVE Cause
      <3>1. PICK c \in Clients : peer'[c] = "broken" /\ pieces'[c] > 1 BY <2>2, <2>4 DEF Broken
      <3> QED BY <2>4, <3>1
    <2> HIDE DEF Cause
    <2>5. why' = "sigpipe" => Cause BY <1>0, <1>4, <2>3, <2>4
    <2> USE DEF Cause
    <2> QED BY <1>1, <1>2, <1>4, <2>1, <2>5, OneWay DEF EndCause, Connected, TypeOK
  <1>5. ASSUME biz = "up", RecvSocket, why' # why PROVE EndCause'
    <2>1. CASE Full /\ BusinessDies("full")
      <3>1. Cardinality(Connected) > fds BY <1>5, <2>1, FullCause DEF RecvSocket
      <3>2. Cardinality(Connected)' > fds' BY <1>2, <1>3, <3>1, ConnectedGrows
      <3> QED BY <1>1, <2>1, <3>2 DEF EndCause, BusinessDies, Connected
    <2>2. CASE ~HeaderOK /\ BusinessDies("recvmsg")
      BY <1>1, <2>2 DEF EndCause, BusinessDies
    <2> QED BY <1>5, <2>1, <2>2 DEF RecvSocket, procVars
  <1>6. ASSUME biz = "up", EndOfPipe, why' # why PROVE EndCause'
    BY <1>1, <1>6 DEF EndOfPipe, EndCause, BusinessDies
  <1>7. ASSUME biz = "up", NEW b \in Backs, Query(b), why' # why PROVE EndCause'
    <2>1. BusinessDies("db") /\ (MayErr \/ b \in mixed) /\ "uri" \in Repairs
      BY <1>7 DEF Query, procVars, Works
    <2>2. b \in mixed => Cardinality(Backs) > 1 BY DEF LoginInv, Meetings
    <2> QED BY <1>1, <2>1, <2>2 DEF EndCause, BusinessDies
  <1>8. ASSUME biz = "up", NEW b \in Backs, SendAnswer(b), why' # why PROVE EndCause'
    <2>1. BusinessDies("sigpipe") /\ bpc[b] = "send" /\ peer[cur[b]] \in {"broken", "dead"}
      BY <1>8 DEF SendAnswer, Sent, procVars
    <2>2. (MayReset /\ Dead # {}) \/ (MayLeave /\ Broken # {})
      BY <2>1, BrokenPipeCause DEF LoginInv
    <2>3. why' = "sigpipe" /\ UNCHANGED <<peer, pieces>> BY <1>2, <2>1 DEF BusinessDies
    <2> QED BY <1>1, <2>2, <2>3 DEF EndCause, Dead, Broken
  <1>9. why' # why => biz = "up"
    BY DEF Step, Arrive, Ask, PieceArrives, Leave, MainDies, WaitFront, SendSocket, Accept, procVars
  <1> QED BY <1>4, <1>5, <1>6, <1>7, <1>8, <1>9, OneWay

-----------------------------------------------------------------------------
LEMMA InitInv == Init => HandInv /\ LoginInv /\ EndCause
  <1> SUFFICES ASSUME Init PROVE HandInv /\ LoginInv /\ EndCause
    OBVIOUS
  <1> USE ClientsAssumption, SizesAssumption DEF Init
  <1>1. TypeOK BY DEF TypeOK
  <1>2. Peers /\ Works /\ Requests
    BY <1>1, Counts DEF Peers, Works, Requests
  <1>3. Hands /\ Carried /\ Held BY DEF Hands, Carried, Held
  <1>4. InTurn /\ Replies /\ Meetings BY DEF InTurn, Replies, Meetings, Busy, Unread
  <1>5. EndCause BY DEF EndCause
  <1> QED BY <1>1, <1>2, <1>3, <1>4, <1>5 DEF HandInv, LoginInv

(***************************************************************************)
(* The inductive invariant (EPlayerServer.h:113-295, Process.h:76-170).    *)
(***************************************************************************)
THEOREM HandInvHolds == Spec => [](HandInv /\ LoginInv /\ EndCause)
  <1>1. HandInv /\ LoginInv /\ EndCause /\ [Next /\ UNCHANGED world]_<<vars, world>>
          => (HandInv /\ LoginInv /\ EndCause)'
    <2> SUFFICES ASSUME HandInv, LoginInv, EndCause, [Next /\ UNCHANGED world]_<<vars, world>>
                 PROVE  HandInv' /\ LoginInv' /\ EndCause'
      OBVIOUS
    <2>1. CASE UNCHANGED <<vars, world>>
      <3> USE <2>1 DEF vars, world, procVars, frontVars, loopVars, backVars, clientVars
      <3>1. TypeOK' BY DEF HandInv, TypeOK
      <3>2. Peers' /\ Works' /\ Requests' BY DEF HandInv, Peers, Works, Requests
      <3>3. Hands' /\ Carried' /\ Held' BY DEF HandInv, Hands, Carried, Held
      <3>4. InTurn' BY DEF LoginInv, InTurn, Busy, Unread
      <3>5. Replies' /\ Meetings' BY DEF LoginInv, Replies, Meetings, Verified
      <3>6. EndCause' BY DEF EndCause
      <3> QED BY <3>1, <3>2, <3>3, <3>4, <3>5, <3>6 DEF HandInv, LoginInv
    <2>2. CASE Next /\ UNCHANGED world
      <3>1. Step /\ UNCHANGED world BY <2>2, NextIsStep
      <3>2. HandInv'
        BY <3>1, TypeStep, PeersStep, WorksStep, RequestsStep, HandsStep, CarriedStep, HeldStep
           DEF HandInv
      <3>3. LoginInv' BY <3>1, InTurnStep, RepliesStep DEF LoginInv
      <3>4. EndCause' BY <3>1, <3>2, CauseStep DEF HandInv
      <3> QED BY <3>2, <3>3, <3>4
    <2> QED BY <2>1, <2>2
  <1> QED BY <1>1, InitInv, PTL DEF Spec

(***************************************************************************)
(* Type correctness (EPlayerServer.h, Process.h).                          *)
(***************************************************************************)
THEOREM HandTypeCorrect == Spec => []TypeOK
  <1>1. HandInv => TypeOK BY DEF HandInv
  <1> QED BY <1>1, HandInvHolds, PTL

(***************************************************************************)
(* A descriptor on its way is in one hand, for any workers and any pipe    *)
(* (README.md:990-993, Process.h:156, EPlayerServer.h:132-139).            *)
(***************************************************************************)
THEOREM OneHolderHolds == Spec => []OneHolder
  <1>1. HandInv => OneHolder BY HolderParts DEF HandInv
  <1> QED BY <1>1, HandInvHolds, PTL

(***************************************************************************)
(* What ends the service, for any clients, workers and failures            *)
(* (EPlayerServer.h:124-142, 263-295).                                     *)
(***************************************************************************)
THEOREM EndCauseHolds == Spec => []EndCause
  <1> QED BY HandInvHolds, PTL

(***************************************************************************)
(* A client whose requests arrive in one piece gets no answer it did not   *)
(* ask for, however often it asks (EPlayerServer.h:155-176, 276-289).      *)
(***************************************************************************)
THEOREM OneAnswerEachHolds == Spec => []OneAnswerEach
  <1>1. LoginInv => OneAnswerEach BY DEF LoginInv, InTurn, OneAnswerEach
  <1> QED BY <1>1, HandInvHolds, PTL

(***************************************************************************)
(* Whatever the other workers do, a query that met no other one on the     *)
(* connection is answered with what the database says of the client that   *)
(* asked (EPlayerServer.h:183-230): for any users, whether their names are *)
(* unknown, known once or doubled, any workers and any number of requests. *)
(***************************************************************************)
THEOREM LoginsVerifiedHolds == Spec => LoginsVerified
  <1> DEFINE Right == \A c \in Clients : answers'[c] # answers[c] =>
                        \E b \in Backs : /\ Answers(b, c)
                                         /\ (b \in mixed \/ Verified(c, answers'[c][Len(answers'[c])]))
  <1>1. HandInv /\ LoginInv /\ EndCause /\ [Next /\ UNCHANGED world]_<<vars, world>> => [Right]_vars
    <2> SUFFICES ASSUME HandInv, LoginInv, Next PROVE Right
      OBVIOUS
    <2> QED BY NextIsStep, AnswersGrow DEF LoginInv
  <1> QED BY <1>1, HandInvHolds, PTL DEF Spec, LoginsVerified

-----------------------------------------------------------------------------
(* The service as it is written. *)

(* With a buffer of no length, no worker gets as far as an answer. *)
Deaf ==
  /\ \A b \in Backs : bpc[b] \notin {"query", "send"}
  /\ \A c \in Clients : answers[c] = <<>>

LEMMA DeafStep ==
  ASSUME "recv_buffer" \notin Repairs, HandInv, Deaf, Step PROVE Deaf'
  <1> USE CallTypes DEF Deaf, HandInv, clientVars, backVars
  <1>1. ASSUME UNCHANGED <<bpc, answers>> PROVE Deaf' BY <1>1
  <1>2. ASSUME NEW c \in Clients, Arrive(c) \/ Ask(c) \/ PieceArrives(c) \/ Leave(c) PROVE Deaf'
    BY <1>1, <1>2 DEF Arrive, Ask, PieceArrives, Leave
  <1>3. CASE MainDies BY <1>1, <1>3 DEF MainDies
  <1>4. ASSUME NEW f \in Fronts, WaitFront(f) \/ SendSocket(f) \/ \E c \in Clients : Accept(f, c)
        PROVE  Deaf'
    BY <1>1, <1>4 DEF WaitFront, SendSocket, Accept
  <1>5. CASE RecvSocket \/ EndOfPipe \/ Watch
    BY <1>1, <1>5 DEF RecvSocket, EndOfPipe, Watch, BusinessDies
  <1>6. ASSUME NEW b \in Backs,
               \/ WaitEvents(b) \/ ScanEnds(b) \/ RecvFailed(b)
               \/ \E c \in Clients : ScanError(b, c) \/ ScanClient(b, c)
        PROVE  Deaf'
    BY <1>6 DEF WaitEvents, ScanEnds, RecvFailed, ScanError, ScanClient, Move
  <1>7. ASSUME NEW b \in Backs PROVE ~RecvData(b) /\ ~Query(b) /\ ~SendAnswer(b)
    BY DEF RecvData, ReadsNothing, Query, SendAnswer
  <1> QED BY <1>2, <1>3, <1>4, <1>5, <1>6, <1>7 DEF Step

(***************************************************************************)
(* As written, Recv is given a string of length 0 (EPlayerServer.h:278):   *)
(* no client ever gets an answer, whatever else is repaired.               *)
(***************************************************************************)
THEOREM AsWrittenNobodyAnswered ==
  ASSUME "recv_buffer" \notin Repairs
  PROVE  Spec => [](\A c \in Clients : answers[c] = <<>>)
  <1>1. Init => Deaf BY DEF Init, Deaf
  <1>2. HandInv /\ Deaf /\ [Next /\ UNCHANGED world]_<<vars, world>> => Deaf'
    <2> SUFFICES ASSUME HandInv, Deaf, [Next /\ UNCHANGED world]_<<vars, world>> PROVE Deaf'
      OBVIOUS
    <2>1. CASE UNCHANGED <<vars, world>> BY <2>1 DEF vars, backVars, clientVars, Deaf
    <2>2. CASE Next BY <2>2, NextIsStep, DeafStep
    <2> QED BY <2>1, <2>2
  <1>3. Deaf => \A c \in Clients : answers[c] = <<>> BY DEF Deaf
  <1> QED BY <1>1, <1>2, <1>3, HandInvHolds, PTL DEF Spec

(* Without the slash, no request gets as far as the database. *)
Strict ==
  /\ \A b \in Backs : bpc[b] = "send" => code[b] \in {-1, -7}
  /\ \A c \in Clients : \A i \in 1..Len(answers[c]) : answers[c][i] \in {-1, -7}

LEMMA StrictStep ==
  ASSUME "uri" \notin Repairs, HandInv, Strict, Step PROVE Strict'
  <1> USE DEF HandInv
  <1>1. ASSUME UNCHANGED <<bpc, code, answers>> PROVE Strict' BY <1>1 DEF Strict
  <1>2. ASSUME NEW c \in Clients, Arrive(c) \/ Ask(c) \/ PieceArrives(c) \/ Leave(c) PROVE Strict'
    BY <1>1, <1>2 DEF Arrive, Ask, PieceArrives, Leave, clientVars, backVars
  <1>3. CASE MainDies BY <1>1, <1>3 DEF MainDies, clientVars, backVars
  <1>4. ASSUME NEW f \in Fronts, WaitFront(f) \/ SendSocket(f) \/ \E c \in Clients : Accept(f, c)
        PROVE  Strict'
    BY <1>1, <1>4 DEF WaitFront, SendSocket, Accept, clientVars, backVars
  <1>5. CASE RecvSocket \/ EndOfPipe \/ Watch
    BY <1>1, <1>5 DEF RecvSocket, EndOfPipe, Watch, BusinessDies, clientVars, backVars
  <1>6. ASSUME NEW b \in Backs,
               \/ WaitEvents(b) \/ ScanEnds(b) \/ RecvFailed(b)
               \/ \E c \in Clients : ScanError(b, c) \/ ScanClient(b, c)
        PROVE  Strict'
    <2>1. UNCHANGED <<code, answers>> /\ \A d \in Backs : bpc'[d] = "send" => bpc[d] = "send"
      BY <1>6, CallTypes
         DEF WaitEvents, ScanEnds, RecvFailed, ScanError, ScanClient, Move, clientVars
    <2> QED BY <2>1 DEF Strict
  <1>7. ASSUME NEW b \in Backs, RecvData(b) PROVE Strict'
    <2>1. UNCHANGED answers /\ code'[b] \in {-1, -7}
          /\ \A d \in Backs \ {b} : bpc'[d] = bpc[d] /\ code'[d] = code[d]
      BY <1>7, CallTypes DEF RecvData, Move, clientVars
    <2> QED BY <2>1 DEF Strict
  <1>8. ASSUME NEW b \in Backs, Query(b) PROVE FALSE
    BY <1>8 DEF Query, Works
  <1>9. ASSUME NEW b \in Backs, SendAnswer(b) PROVE Strict'
    <2>1. \A d \in Backs : bpc'[d] = "send" => bpc[d] = "send" /\ code'[d] = code[d]
      BY <1>9, CallTypes DEF SendAnswer, Sent, Move, BusinessDies, backVars
    <2>2. CASE UNCHANGED answers BY <2>1, <2>2 DEF Strict
    <2>3. CASE answers' = [answers EXCEPT ![cur[b]] = Append(@, code[b])]
      <3>1. PICK c \in Clients : c = cur[b] BY <1>9, CallTypes DEF SendAnswer, Works
      <3> DEFINE n == Len(answers[c])
      <3>2. /\ n \in Nat /\ Len(answers'[c]) = n + 1 /\ answers'[c][n + 1] = code[b]
            /\ \A i \in 1..n : answers'[c][i] = answers[c][i]
        BY <2>3, <3>1, Counts, AnswerFacts
      <3>3. \A d \in Clients \ {c} : answers'[d] = answers[d] BY <2>3, <3>1, AnswerFacts
      <3>4. code[b] \in {-1, -7} /\ \A i \in 1..n : answers[c][i] \in {-1, -7}
        BY <1>9 DEF Strict, SendAnswer
      <3> HIDE DEF n
      <3>5. \A i \in 1..(n + 1) : answers'[c][i] \in {-1, -7} BY <3>2, <3>4
      <3> QED BY <2>1, <3>2, <3>3, <3>5 DEF Strict
    <2> QED BY <1>9, <2>2, <2>3 DEF SendAnswer, BusinessDies, clientVars
  <1> QED BY <1>2, <1>3, <1>4, <1>5, <1>6, <1>7, <1>8, <1>9 DEF Step

(***************************************************************************)
(* As written, the path is compared with "login" (EPlayerServer.h:194):    *)
(* whoever asks, member or not, is refused with -1 or -7.                  *)
(***************************************************************************)
THEOREM AsWrittenNobodyLetIn ==
  ASSUME "uri" \notin Repairs
  PROVE  Spec => [](\A c \in Clients : \A i \in 1..Len(answers[c]) : answers[c][i] \in {-1, -7})
  <1>1. Init => Strict BY DEF Init, Strict
  <1>2. HandInv /\ Strict /\ [Next /\ UNCHANGED world]_<<vars, world>> => Strict'
    <2> SUFFICES ASSUME HandInv, Strict, [Next /\ UNCHANGED world]_<<vars, world>> PROVE Strict'
      OBVIOUS
    <2>1. CASE UNCHANGED <<vars, world>> BY <2>1 DEF vars, backVars, clientVars, Strict
    <2>2. CASE Next BY <2>2, NextIsStep, StrictStep
    <2> QED BY <2>1, <2>2
  <1>3. Strict => \A c \in Clients : \A i \in 1..Len(answers[c]) : answers[c][i] \in {-1, -7}
    BY DEF Strict
  <1> QED BY <1>1, <1>2, <1>3, HandInvHolds, PTL DEF Spec

-----------------------------------------------------------------------------
(* A connection in error that no worker works for or has an event of.      *)
Ignored(c) ==
  /\ Kind(c) = "err" /\ c \in watched
  /\ \A b \in Backs : cur[b] # c /\ <<c, "in">> \notin events[b]

LEMMA IgnoredStep ==
  ASSUME HandInv, Step, NEW c \in Clients, Ignored(c) PROVE Ignored(c)'
  <1> USE CallTypes DEF HandInv
  <1> DEFINE InError == peer[c] \in {"reset", "broken"}
  <1>0. InError BY DEF Ignored, Kind
  <1>1. \A b \in Backs : cur[b] # c /\ <<c, "in">> \notin events[b] BY DEF Ignored
  <1>2. ASSUME peer'[c] = peer[c], watched \subseteq watched',
               \A b \in Backs : cur'[b] = cur[b] /\ events'[b] \subseteq events[b]
        PROVE  Ignored(c)'
    BY <1>2 DEF Ignored, Kind
  <1>3. ASSUME NEW d \in Clients, Arrive(d) \/ Ask(d) \/ PieceArrives(d) \/ Leave(d)
        PROVE  Ignored(c)'
    BY <1>0, <1>2, <1>3 DEF Arrive, Ask, PieceArrives, Leave, loopVars, backVars
  <1>4. CASE MainDies BY <1>2, <1>4 DEF MainDies, loopVars, backVars
  <1>5. ASSUME NEW f \in Fronts, WaitFront(f) \/ SendSocket(f) \/ \E d \in Clients : Accept(f, d)
        PROVE  Ignored(c)'
    BY <1>2, <1>5 DEF WaitFront, SendSocket, Accept, loopVars, backVars
  <1>6. CASE RecvSocket \/ EndOfPipe \/ Watch
    BY <1>2, <1>6 DEF RecvSocket, EndOfPipe, Watch, BusinessDies, loopVars, backVars
  <1>7. ASSUME NEW b \in Backs, WaitEvents(b) PROVE Ignored(c)'
    <2>1. <<c, "in">> \notin Ready BY DEF Ready, Kind, Ignored
    <2>2. UNCHANGED <<watched, cur>> /\ events' = [events EXCEPT ![b] = Ready]
      BY <1>7 DEF WaitEvents, loopVars
    <2>3. events \in [Backs -> SUBSET (Clients \X {"in", "err"})] BY DEF TypeOK
    <2>4. \A d \in Backs : <<c, "in">> \notin events'[d]
      BY <2>1, <2>2, <2>3 DEF Ignored
    <2>5. peer' = peer BY <1>7 DEF WaitEvents
    <2> QED BY <2>2, <2>4, <2>5 DEF Ignored, Kind
  <1>8. ASSUME NEW b \in Backs, ScanEnds(b) \/ RecvData(b) \/ Query(b) PROVE Ignored(c)'
    BY <1>2, <1>8 DEF ScanEnds, RecvData, Query, BusinessDies, loopVars, backVars
  <1>9. ASSUME NEW b \in Backs, NEW d \in Clients, ScanError(b, d) \/ ScanClient(b, d)
        PROVE  Ignored(c)'
    <2>1. events \in [Backs -> SUBSET (Clients \X {"in", "err"})] BY DEF TypeOK
    <2>2. CASE ScanError(b, d)
      <3>1. UNCHANGED <<peer, watched, cur>> /\ events' = [events EXCEPT ![b] = {}]
        BY <2>2 DEF ScanError, loopVars
      <3> QED BY <1>2, <2>1, <3>1
    <2>3. CASE ScanClient(b, d)
      <3>1. d # c BY <2>3 DEF ScanClient, Ignored
      <3>2. /\ UNCHANGED <<peer, watched>>
            /\ events' = [events EXCEPT ![b] = @ \ {<<d, "in">>}] /\ cur' = [cur EXCEPT ![b] = d]
        BY <2>3 DEF ScanClient, loopVars
      <3>3. \A e \in Backs : cur'[e] # c /\ <<c, "in">> \notin events'[e]
        BY <1>1, <2>1, <3>1, <3>2
      <3> QED BY <3>2, <3>3 DEF Ignored, Kind
    <2> QED BY <1>9, <2>2, <2>3
  <1>10. ASSUME NEW b \in Backs, RecvFailed(b) \/ SendAnswer(b) PROVE Ignored(c)'
    <2>1. cur[b] # c BY <1>1
    <2>2. /\ c \in watched' /\ UNCHANGED events
          /\ cur' = cur \/ cur' = [cur EXCEPT ![b] = Nobody]
      BY <1>10, <2>1 DEF RecvFailed, SendAnswer, Sent, BusinessDies, loopVars, backVars, Ignored
    <2>3. peer'[c] = peer[c]
      BY <1>10, <2>1 DEF RecvFailed, SendAnswer, Sent, BusinessDies, Told
    <2>4. \A d \in Backs : cur'[d] # c BY <1>1, <2>2, ClientsAssumption
    <2> QED BY <1>1, <2>2, <2>3, <2>4 DEF Ignored, Kind
  <1> QED BY <1>3, <1>4, <1>5, <1>6, <1>7, <1>8, <1>9, <1>10 DEF Step

Unheard(c) == taken'[c] = taken[c] /\ answers'[c] = answers[c]

LEMMA IgnoredIsUnheard ==
  ASSUME HandInv, Step, NEW c \in Clients, Ignored(c) PROVE Unheard(c)
  <1> USE DEF HandInv, Unheard
  <1>1. peer[c] \in {"reset", "broken"} /\ \A b \in Backs : cur[b] # c BY DEF Ignored, Kind
  <1>2. ASSUME NEW d \in Clients, Arrive(d) \/ Ask(d) \/ PieceArrives(d) \/ Leave(d)
        PROVE  Unheard(c)
    BY <1>1, <1>2 DEF Arrive, Ask, PieceArrives, Leave, clientVars, TypeOK
  <1>3. CASE MainDies BY <1>3 DEF MainDies, clientVars
  <1>4. ASSUME NEW f \in Fronts, WaitFront(f) \/ SendSocket(f) \/ \E d \in Clients : Accept(f, d)
        PROVE  Unheard(c)
    BY <1>4 DEF WaitFront, SendSocket, Accept, clientVars
  <1>5. CASE RecvSocket \/ EndOfPipe \/ Watch
    BY <1>5 DEF RecvSocket, EndOfPipe, Watch, BusinessDies, clientVars
  <1>6. ASSUME NEW b \in Backs,
               \/ WaitEvents(b) \/ ScanEnds(b) \/ RecvFailed(b)
               \/ \E d \in Clients : ScanError(b, d) \/ ScanClient(b, d)
        PROVE  Unheard(c)
    BY <1>6 DEF WaitEvents, ScanEnds, RecvFailed, ScanError, ScanClient, clientVars
  <1>7. ASSUME NEW b \in Backs, Query(b) PROVE Unheard(c)
    BY <1>7 DEF Query, BusinessDies, clientVars
  <1>8. ASSUME NEW b \in Backs, RecvData(b) PROVE Unheard(c)
    BY <1>1, <1>8, Counts DEF RecvData, clientVars
  <1>9. ASSUME NEW b \in Backs, SendAnswer(b) PROVE Unheard(c)
    BY <1>1, <1>9 DEF SendAnswer, Sent, BusinessDies, clientVars, TypeOK
  <1> QED BY <1>2, <1>3, <1>4, <1>5, <1>6, <1>7, <1>8, <1>9 DEF Step

(***************************************************************************)
(* An error event ends the scan and nothing is done about its connection   *)
(* (EPlayerServer.h:272-275): once a watched connection is in error while  *)
(* no worker is working for it or about to read from it, the error is      *)
(* never taken, so that every later wait reports it again; what it still   *)
(* carried is never read, it gets no answer and it is never taken from the *)
(* epoll.                                                                  *)
(***************************************************************************)
THEOREM ResetIsNeverCleared ==
  Spec => [][\A c \in Clients : Ignored(c) => Ignored(c)' /\ Unheard(c)]_vars
  <1>1. HandInv /\ [Next /\ UNCHANGED world]_<<vars, world>>
          => [\A c \in Clients : Ignored(c) => Ignored(c)' /\ Unheard(c)]_vars
    BY NextIsStep, IgnoredStep, IgnoredIsUnheard
  <1>2. HandInv /\ LoginInv /\ EndCause => HandInv OBVIOUS
  <1> QED BY <1>1, <1>2, HandInvHolds, PTL DEF Spec

-----------------------------------------------------------------------------
(* The ways a descriptor can go. *)
Onward ==
  {<<"none", "backlog">>, <<"backlog", "front">>, <<"front", "pipe">>, <<"pipe", "back">>}
    \cup ({"backlog", "front", "pipe", "back"} \X {"closed"})

Moves(c) ==
  place'[c] # place[c] =>
    <<place[c], place'[c]>> \in Onward /\ (place[c] = "back" => biz' = "down")

LEMMA PlaceMoves ==
  ASSUME HandInv, Step, NEW c \in Clients PROVE Moves(c)
  <1> USE PlaceTypes DEF HandInv, Moves, Onward
  <1>1. ASSUME NEW d \in Clients, Arrive(d) \/ Ask(d) \/ PieceArrives(d) \/ Leave(d) PROVE Moves(c)
    BY <1>1 DEF Arrive, Ask, PieceArrives, Leave, Peers
  <1>2. CASE MainDies BY <1>2 DEF MainDies, Closed
  <1>3. ASSUME NEW f \in Fronts, main = "up", SendSocket(f) PROVE Moves(c)
    <2>1. inHand[f] \in Clients /\ place[inHand[f]] = "front" BY <1>3 DEF SendSocket, Works, Hands
    <2> QED BY <1>3, <2>1 DEF SendSocket
  <1>4. ASSUME NEW f \in Fronts, WaitFront(f) \/ \E d \in Clients : Accept(f, d) PROVE Moves(c)
    BY <1>4 DEF WaitFront, Accept
  <1>5. ASSUME NEW what, BusinessDies(what) PROVE Moves(c) BY <1>5 DEF BusinessDies, Closed
  <1>6. CASE biz = "up" /\ RecvSocket
    <2>1. Head(pipe) \in Clients /\ place[Head(pipe)] = "pipe"
      BY <1>6, PipeFacts DEF RecvSocket, Carried
    <2>2. CASE \E what : BusinessDies(what) BY <1>5, <2>2
    <2>3. CASE place' = [place EXCEPT ![Head(pipe)] = "back"] BY <2>1, <2>3
    <2> QED BY <1>6, <2>2, <2>3 DEF RecvSocket
  <1>7. CASE EndOfPipe \/ Watch BY <1>5, <1>7 DEF EndOfPipe, Watch
  <1>8. ASSUME NEW b \in Backs,
               \/ WaitEvents(b) \/ ScanEnds(b) \/ RecvFailed(b) \/ RecvData(b)
               \/ \E d \in Clients : ScanError(b, d) \/ ScanClient(b, d)
        PROVE  Moves(c)
    BY <1>8 DEF WaitEvents, ScanEnds, RecvFailed, RecvData, ScanError, ScanClient
  <1>9. ASSUME NEW b \in Backs, Query(b) \/ SendAnswer(b) PROVE Moves(c)
    BY <1>5, <1>9 DEF Query, SendAnswer, Sent
  <1> QED BY <1>1, <1>2, <1>3, <1>4, <1>6, <1>7, <1>8, <1>9 DEF Step

(***************************************************************************)
(* A descriptor goes one way, from the backlog to the business process,    *)
(* and one that process has received is never given back while it runs:    *)
(* a client whose read failed is only taken from the epoll                 *)
(* (EPlayerServer.h:281-284), so that with enough clients, one after the   *)
(* other, the table gets full.                                             *)
(***************************************************************************)
THEOREM NothingIsGivenBack == Spec => [][\A c \in Clients : Moves(c)]_vars
  <1>1. HandInv /\ [Next /\ UNCHANGED world]_<<vars, world>> => [\A c \in Clients : Moves(c)]_vars
    BY NextIsStep, PlaceMoves
  <1>2. HandInv /\ LoginInv /\ EndCause => HandInv OBVIOUS
  <1> QED BY <1>1, <1>2, HandInvHolds, PTL DEF Spec
=============================================================================

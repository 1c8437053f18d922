---------------------------- MODULE ThreadProofs ----------------------------
(***************************************************************************)
(* What holds of the thread objects for any number of objects and thread   *)
(* numbers, with and without the inverted guard of Pause.                  *)
(***************************************************************************)
EXTENDS Thread, TLAPS

(***************************************************************************)
(* The inductive invariant: who a number belongs to, whom an object thinks *)
(* it runs, where the owner is, and whom a signal may still reach.         *)
(***************************************************************************)
Active == {"new", "run", "handle", "paused"}

Numbers ==
  \A t \in Ids :
    /\ thread[t] = "free" <=> runs[t] = None
    /\ runs[t] = None => signals[t] = {}
    /\ runs[t] # None => runs[t] \in started
    /\ \A u \in Ids : runs[u] = runs[t] /\ runs[t] # None => u = t

Owned ==
  \A o \in Objects : m_thread[o] # 0 =>
    /\ runs[m_thread[o]] = o /\ thread[m_thread[o]] \in Active
    /\ 2 \notin signals[m_thread[o]]

Calling ==
  /\ call # "idle" => object \in Objects
  /\ call \in {"store", "add"} =>
       \A t \in Ids : runs[t] = object /\ thread[t] \in Active =>
         m_thread[object] = t /\ (call = "add" => id = t)
  /\ call \in {"add", "join", "kill"} /\ id # 0 => runs[id] \in {object, None}
  /\ call \in {"join", "kill"} => id # 0 /\ m_thread[object] = 0 /\ object \in started
  /\ call = "signal" /\ "pause_guard" \in repairs => object \in started

(* A thread that is paused, or is to be, has an entry in the map. *)
Marked ==
  \A t \in Ids :
    /\ 1 \in signals[t] => ~Starting(t) /\ entry[t] \in {runs[t], None}
    /\ thread[t] \in {"handle", "paused"} => ~Starting(t)

Installed == ~handlers => \A t \in Ids : thread[t] \in {"free", "new"}

ThreadInv == TypeOK /\ Numbers /\ Owned /\ Calling /\ Marked /\ Installed /\ EntryIsOwn

Step == OwnerCall \/ OwnerStep \/ \E t \in Ids : ThreadStep(t) \/ FunctionEnds(t)

LEMMA InitInv == Init => ThreadInv
  <1> SUFFICES ASSUME Init PROVE ThreadInv
    OBVIOUS
  <1> USE ObjectsAssumption, IdsAssumption DEF Init
  <1>1. TypeOK BY DEF TypeOK
  <1>2. Numbers /\ Owned /\ Calling BY DEF Numbers, Owned, Calling
  <1>3. Marked /\ Installed /\ EntryIsOwn BY DEF Marked, Installed, EntryIsOwn
  <1> QED BY <1>1, <1>2, <1>3 DEF ThreadInv

(* PauseTaken, without what it looks at. *)
Spent(t)  == [signals EXCEPT ![t] = @ \ {1}]
Taken(t)  == Goes(t, "handle") /\ signals' = Spent(t) /\ UNCHANGED <<runs, handlers>>
Spends(t) == signals' = Spent(t) /\ UNCHANGED <<thread, runs, handlers>>

LEMMA PauseTakenIs ==
  ASSUME TypeOK, NEW t \in Ids, PauseTaken(t)
  PROVE  /\ 1 \in signals[t] /\ handlers
         /\ \/ thread[t] \in {"new", "run"} /\ Taken(t) /\ fault' = fault
            \/ thread[t] \in {"look", "leave"} /\ (Ends(t) \/ Spends(t)) /\ fault' = fault
            \/ /\ thread[t] \in {"look", "leave"} /\ entry[t] \in deleted
               /\ fault' = "object" /\ UNCHANGED threadVars
         /\ UNCHANGED <<objectVars, callVars, mapVars>>
  BY DEF PauseTaken, Taken, Spends, Spent, Faults, Found, objectVars, callVars, threadVars, mapVars

LEMMA SpentIs ==
  ASSUME TypeOK, NEW t \in Ids
  PROVE  /\ Spent(t) \in [Ids -> SUBSET {1, 2}]
         /\ 1 \notin Spent(t)[t] /\ Spent(t)[t] \subseteq signals[t]
         /\ \A u \in Ids \ {t} : Spent(t)[u] = signals[u]
  BY DEF TypeOK, Spent

LEMMA EndsIs ==
  ASSUME TypeOK, NEW t \in Ids, Ends(t)
  PROVE  /\ signals' \in [Ids -> SUBSET {1, 2}] /\ signals'[t] = {}
         /\ runs' \in [Ids -> Objects \cup {None}] /\ runs'[t] = None
         /\ thread' \in [Ids -> {"free", "new", "run", "look", "leave", "handle", "paused"}]
         /\ thread'[t] = "free"
         /\ \A u \in Ids \ {t} :
              signals'[u] = signals[u] /\ thread'[u] = thread[u] /\ runs'[u] = runs[u]
         /\ handlers' = handlers
  BY DEF TypeOK, Ends, Goes

LEMMA TypeStep ==
  ASSUME ThreadInv, Step, UNCHANGED repairs PROVE  TypeOK'
  <1> USE ObjectsAssumption, IdsAssumption DEF objectVars, callVars, threadVars, mapVars, Faults,
        ThreadInv, TypeOK, Calling
  <1>1. ASSUME NEW o \in Objects, Pause(o) PROVE TypeOK'
    BY <1>1 DEF Pause, PauseRefused, Calls, callVars
  <1>2. ASSUME NEW o \in Objects, Stop(o) PROVE TypeOK'
    BY <1>2 DEF Stop, Calls
  <1>3. ASSUME NEW o \in Objects, Delete(o) PROVE TypeOK'
    BY <1>3 DEF Delete
  <1>4. ASSUME NEW o \in Objects, NEW t \in Ids, StartCreate(o, t) PROVE TypeOK'
    BY <1>4 DEF StartCreate, Calls, Goes
  <1>5. CASE StartStore BY <1>5 DEF StartStore, Calls, Returns
  <1>6. CASE StartAdd BY <1>6 DEF StartAdd, Calls, Returns
  <1>7. CASE PauseSignal
    <2>1. object \in Objects BY <1>7 DEF PauseSignal
    <2>2. signals' \in [Ids -> SUBSET {1, 2}] BY <1>7, <2>1 DEF PauseSignal
    <2>3. m_bpaused' \in [Objects -> BOOLEAN] BY <1>7, <2>1 DEF PauseSignal
    <2> QED BY <1>7, <2>2, <2>3 DEF PauseSignal, Calls, Returns
  <1>8. CASE StopJoin BY <1>8 DEF StopJoin, Calls, Returns, Faults
  <1>9. CASE StopKill BY <1>9 DEF StopKill, Calls, Returns
  <1>10. ASSUME NEW t \in Ids, Install(t) PROVE TypeOK'
    BY <1>10 DEF Install, Goes
  <1>11. ASSUME NEW t \in Ids, FunctionEnds(t) PROVE TypeOK'
    BY <1>11 DEF FunctionEnds, Goes
  <1>12. ASSUME NEW t \in Ids, Forget(t) PROVE TypeOK'
    BY <1>12 DEF Forget, Goes
  <1>13. ASSUME NEW t \in Ids, Leave(t) PROVE TypeOK'
    BY <1>13 DEF Leave, Ends, Goes
  <1>14. ASSUME NEW t \in Ids, SignalKills(t) PROVE TypeOK'
    BY <1>14 DEF SignalKills
  <1>15. ASSUME NEW t \in Ids, Stopped(t) PROVE TypeOK'
    BY <1>15 DEF Stopped, Ends, Goes
  <1>16. ASSUME NEW t \in Ids, PauseTaken(t) PROVE TypeOK'
    <2> USE <1>16, PauseTakenIs, SpentIs, EndsIs
    <2>1. CASE thread[t] \in {"new", "run"}
      <3>1. Taken(t) BY <2>1
      <3>2. thread' \in [Ids -> {"free", "new", "run", "look", "leave", "handle", "paused"}]
        BY <3>1 DEF Taken, Goes
      <3>3. thread'[t] = "handle" /\ \A u \in Ids \ {t} : thread'[u] = thread[u]
        BY <3>1 DEF Taken, Goes
      <3> QED BY <2>1, <3>1, <3>2, <3>3 DEF Taken
    <2>2. CASE thread[t] \in {"look", "leave"} /\ Ends(t) BY <2>2
    <2>3. CASE Spends(t) BY <2>3 DEF Spends
    <2>4. CASE UNCHANGED threadVars BY <2>4
    <2> QED BY <2>1, <2>2, <2>3, <2>4
  <1>17. ASSUME NEW t \in Ids, Handle(t) PROVE TypeOK'
    BY <1>17 DEF Handle, Goes
  <1>18. ASSUME NEW t \in Ids, PauseEnds(t) PROVE TypeOK'
    BY <1>18 DEF PauseEnds, Ends, Goes
  <1> QED BY <1>1, <1>2, <1>3, <1>4, <1>5, <1>6, <1>7, <1>8, <1>9,
            <1>10, <1>11, <1>12, <1>13, <1>14, <1>15, <1>16, <1>17, <1>18
          DEF Step, OwnerCall, OwnerStep, ThreadStep

LEMMA NumbersStep ==
  ASSUME ThreadInv, Step, UNCHANGED repairs PROVE  Numbers'
  <1> USE ObjectsAssumption, IdsAssumption DEF objectVars, callVars, threadVars, mapVars, Faults,
        ThreadInv, TypeOK, Numbers
  <1>1. ASSUME NEW o \in Objects, Pause(o) PROVE Numbers'
    BY <1>1 DEF Pause, PauseRefused, Calls, callVars
  <1>2. ASSUME NEW o \in Objects, Stop(o) PROVE Numbers'
    BY <1>2 DEF Stop, Calls
  <1>3. ASSUME NEW o \in Objects, Delete(o) PROVE Numbers'
    BY <1>3 DEF Delete
  <1>4. ASSUME NEW o \in Objects, NEW t \in Ids, StartCreate(o, t) PROVE Numbers'
    BY <1>4 DEF StartCreate, Calls, Goes
  <1>5. CASE StartStore BY <1>5 DEF StartStore, Calls, Returns
  <1>6. CASE StartAdd BY <1>6 DEF StartAdd, Calls, Returns
  <1>7. CASE PauseSignal BY <1>7 DEF PauseSignal, Calls, Returns
  <1>8. CASE StopJoin BY <1>8 DEF StopJoin, Calls, Returns, Faults
  <1>9. CASE StopKill BY <1>9 DEF StopKill, Calls, Returns
  <1>10. ASSUME NEW t \in Ids, Install(t) PROVE Numbers'
    BY <1>10 DEF Install, Goes
  <1>11. ASSUME NEW t \in Ids, FunctionEnds(t) PROVE Numbers'
    BY <1>11 DEF FunctionEnds, Goes
  <1>12. ASSUME NEW t \in Ids, Forget(t) PROVE Numbers'
    BY <1>12 DEF Forget, Goes
  <1>13. ASSUME NEW t \in Ids, Leave(t) PROVE Numbers'
    BY <1>13 DEF Leave, Ends, Goes
  <1>14. ASSUME NEW t \in Ids, SignalKills(t) PROVE Numbers'
    BY <1>14 DEF SignalKills
  <1>15. ASSUME NEW t \in Ids, Stopped(t) PROVE Numbers'
    BY <1>15 DEF Stopped, Ends, Goes
  <1>16. ASSUME NEW t \in Ids, PauseTaken(t) PROVE Numbers'
    <2> USE <1>16, PauseTakenIs, SpentIs, EndsIs
    <2>1. CASE thread[t] \in {"new", "run"}
      <3>1. Taken(t) BY <2>1
      <3>2. thread' \in [Ids -> {"free", "new", "run", "look", "leave", "handle", "paused"}]
        BY <3>1 DEF Taken, Goes
      <3>3. thread'[t] = "handle" /\ \A u \in Ids \ {t} : thread'[u] = thread[u]
        BY <3>1 DEF Taken, Goes
      <3> QED BY <2>1, <3>1, <3>2, <3>3 DEF Taken
    <2>2. CASE thread[t] \in {"look", "leave"} /\ Ends(t) BY <2>2
    <2>3. CASE Spends(t) BY <2>3 DEF Spends
    <2>4. CASE UNCHANGED threadVars BY <2>4
    <2> QED BY <2>1, <2>2, <2>3, <2>4
  <1>17. ASSUME NEW t \in Ids, Handle(t) PROVE Numbers'
    BY <1>17 DEF Handle, Goes
  <1>18. ASSUME NEW t \in Ids, PauseEnds(t) PROVE Numbers'
    BY <1>18 DEF PauseEnds, Ends, Goes
  <1> QED BY <1>1, <1>2, <1>3, <1>4, <1>5, <1>6, <1>7, <1>8, <1>9,
            <1>10, <1>11, <1>12, <1>13, <1>14, <1>15, <1>16, <1>17, <1>18
          DEF Step, OwnerCall, OwnerStep, ThreadStep

LEMMA OwnedStep ==
  ASSUME ThreadInv, Step, UNCHANGED repairs PROVE  Owned'
  <1> USE ObjectsAssumption, IdsAssumption DEF objectVars, callVars, threadVars, mapVars, Faults,
        ThreadInv, TypeOK, Numbers, Owned, Calling, Active
  <1>1. ASSUME NEW o \in Objects, Pause(o) PROVE Owned'
    BY <1>1 DEF Pause, PauseRefused, Calls, callVars
  <1>2. ASSUME NEW o \in Objects, Stop(o) PROVE Owned'
    BY <1>2 DEF Stop, Calls
  <1>3. ASSUME NEW o \in Objects, Delete(o) PROVE Owned'
    BY <1>3 DEF Delete
  <1>4. ASSUME NEW o \in Objects, NEW t \in Ids, StartCreate(o, t) PROVE Owned'
    BY <1>4 DEF StartCreate, Calls, Goes
  <1>5. CASE StartStore BY <1>5 DEF StartStore, Calls, Returns
  <1>6. CASE StartAdd BY <1>6 DEF StartAdd, Calls, Returns
  <1>7. CASE PauseSignal BY <1>7 DEF PauseSignal, Calls, Returns
  <1>8. CASE StopJoin BY <1>8 DEF StopJoin, Calls, Returns, Faults
  <1>9. CASE StopKill BY <1>9 DEF StopKill, Calls, Returns
  <1>10. ASSUME NEW t \in Ids, Install(t) PROVE Owned'
    BY <1>10 DEF Install, Goes
  <1>11. ASSUME NEW t \in Ids, FunctionEnds(t) PROVE Owned'
    BY <1>11 DEF FunctionEnds, Goes
  <1>12. ASSUME NEW t \in Ids, Forget(t) PROVE Owned'
    BY <1>12 DEF Forget, Goes
  <1>13. ASSUME NEW t \in Ids, Leave(t) PROVE Owned'
    BY <1>13 DEF Leave, Ends, Goes
  <1>14. ASSUME NEW t \in Ids, SignalKills(t) PROVE Owned'
    BY <1>14 DEF SignalKills
  <1>15. ASSUME NEW t \in Ids, Stopped(t) PROVE Owned'
    BY <1>15 DEF Stopped, Ends, Goes
  <1>16. ASSUME NEW t \in Ids, PauseTaken(t) PROVE Owned'
    <2> USE <1>16, PauseTakenIs, SpentIs, EndsIs
    <2>1. CASE thread[t] \in {"new", "run"}
      <3>1. Taken(t) BY <2>1
      <3>2. thread' \in [Ids -> {"free", "new", "run", "look", "leave", "handle", "paused"}]
        BY <3>1 DEF Taken, Goes
      <3>3. thread'[t] = "handle" /\ \A u \in Ids \ {t} : thread'[u] = thread[u]
        BY <3>1 DEF Taken, Goes
      <3> QED BY <2>1, <3>1, <3>2, <3>3 DEF Taken
    <2>2. CASE thread[t] \in {"look", "leave"} /\ Ends(t) BY <2>2
    <2>3. CASE Spends(t) BY <2>3 DEF Spends
    <2>4. CASE UNCHANGED threadVars BY <2>4
    <2> QED BY <2>1, <2>2, <2>3, <2>4
  <1>17. ASSUME NEW t \in Ids, Handle(t) PROVE Owned'
    BY <1>17 DEF Handle, Goes
  <1>18. ASSUME NEW t \in Ids, PauseEnds(t) PROVE Owned'
    <2>1. entry[t] = runs[t] BY <1>18 DEF PauseEnds, Marked, EntryIsOwn
    <2> QED BY <1>18, <2>1 DEF PauseEnds, Ends, Goes
  <1> QED BY <1>1, <1>2, <1>3, <1>4, <1>5, <1>6, <1>7, <1>8, <1>9,
            <1>10, <1>11, <1>12, <1>13, <1>14, <1>15, <1>16, <1>17, <1>18
          DEF Step, OwnerCall, OwnerStep, ThreadStep

LEMMA CallingStep ==
  ASSUME ThreadInv, Step, UNCHANGED repairs PROVE  Calling'
  <1> USE ObjectsAssumption, IdsAssumption DEF objectVars, callVars, threadVars, mapVars, Faults,
        ThreadInv, TypeOK, Numbers, Owned, Calling, Active
  <1>1. ASSUME NEW o \in Objects, Pause(o) PROVE Calling'
    BY <1>1 DEF Pause, PauseRefused, Calls, callVars
  <1>2. ASSUME NEW o \in Objects, Stop(o) PROVE Calling'
    BY <1>2 DEF Stop, Calls
  <1>3. ASSUME NEW o \in Objects, Delete(o) PROVE Calling'
    BY <1>3 DEF Delete
  <1>4. ASSUME NEW o \in Objects, NEW t \in Ids, StartCreate(o, t) PROVE Calling'
    BY <1>4 DEF StartCreate, Calls, Goes
  <1>5. CASE StartStore BY <1>5 DEF StartStore, Calls, Returns
  <1>6. CASE StartAdd BY <1>6 DEF StartAdd, Calls, Returns
  <1>7. CASE PauseSignal BY <1>7 DEF PauseSignal, Calls, Returns
  <1>8. CASE StopJoin BY <1>8 DEF StopJoin, Calls, Returns, Faults
  <1>9. CASE StopKill BY <1>9 DEF StopKill, Calls, Returns
  <1>10. ASSUME NEW t \in Ids, Install(t) PROVE Calling'
    BY <1>10 DEF Install, Goes
  <1>11. ASSUME NEW t \in Ids, FunctionEnds(t) PROVE Calling'
    BY <1>11 DEF FunctionEnds, Goes
  <1>12. ASSUME NEW t \in Ids, Forget(t) PROVE Calling'
    BY <1>12 DEF Forget, Goes
  <1>13. ASSUME NEW t \in Ids, Leave(t) PROVE Calling'
    BY <1>13 DEF Leave, Ends, Goes
  <1>14. ASSUME NEW t \in Ids, SignalKills(t) PROVE Calling'
    BY <1>14 DEF SignalKills
  <1>15. ASSUME NEW t \in Ids, Stopped(t) PROVE Calling'
    BY <1>15 DEF Stopped, Ends, Goes
  <1>16. ASSUME NEW t \in Ids, PauseTaken(t) PROVE Calling'
    <2> USE <1>16, PauseTakenIs, SpentIs, EndsIs
    <2>1. CASE thread[t] \in {"new", "run"}
      <3>1. Taken(t) BY <2>1
      <3>2. thread' \in [Ids -> {"free", "new", "run", "look", "leave", "handle", "paused"}]
        BY <3>1 DEF Taken, Goes
      <3>3. thread'[t] = "handle" /\ \A u \in Ids \ {t} : thread'[u] = thread[u]
        BY <3>1 DEF Taken, Goes
      <3> QED BY <2>1, <3>1, <3>2, <3>3 DEF Taken
    <2>2. CASE thread[t] \in {"look", "leave"} /\ Ends(t) BY <2>2
    <2>3. CASE Spends(t) BY <2>3 DEF Spends
    <2>4. CASE UNCHANGED threadVars BY <2>4
    <2> QED BY <2>1, <2>2, <2>3, <2>4
  <1>17. ASSUME NEW t \in Ids, Handle(t) PROVE Calling'
    BY <1>17 DEF Handle, Goes
  <1>18. ASSUME NEW t \in Ids, PauseEnds(t) PROVE Calling'
    BY <1>18 DEF PauseEnds, Ends, Goes
  <1> QED BY <1>1, <1>2, <1>3, <1>4, <1>5, <1>6, <1>7, <1>8, <1>9,
            <1>10, <1>11, <1>12, <1>13, <1>14, <1>15, <1>16, <1>17, <1>18
          DEF Step, OwnerCall, OwnerStep, ThreadStep

LEMMA MarkedStep ==
  ASSUME ThreadInv, Step, UNCHANGED repairs PROVE  Marked'
  <1> USE ObjectsAssumption, IdsAssumption DEF objectVars, callVars, threadVars, mapVars, Faults,
        ThreadInv, TypeOK, Numbers, Owned, Calling, Marked, Active, Starting
  <1>1. ASSUME NEW o \in Objects, Pause(o) PROVE Marked'
    BY <1>1 DEF Pause, PauseRefused, Calls, callVars
  <1>2. ASSUME NEW o \in Objects, Stop(o) PROVE Marked'
    BY <1>2 DEF Stop, Calls
  <1>3. ASSUME NEW o \in Objects, Delete(o) PROVE Marked'
    BY <1>3 DEF Delete
  <1>4. ASSUME NEW o \in Objects, NEW t \in Ids, StartCreate(o, t) PROVE Marked'
    BY <1>4 DEF StartCreate, Calls, Goes
  <1>5. CASE StartStore BY <1>5 DEF StartStore, Calls, Returns
  <1>6. CASE StartAdd BY <1>6 DEF StartAdd, Calls, Returns
  <1>7. CASE PauseSignal
    <2> DEFINE n == m_thread[object]
    <2>1. CASE UNCHANGED signals
      BY <1>7, <2>1 DEF PauseSignal, Calls, Returns
    <2>2. CASE n \in Ids /\ thread[n] # "free" /\ signals' = [signals EXCEPT ![n] = @ \cup {1}]
      <3>1. runs[n] = object /\ thread[n] \in Active /\ ~Starting(n) /\ entry[n] = runs[n]
        BY <1>7, <2>2 DEF PauseSignal, EntryIsOwn
      <3>2. \A u \in Ids \ {n} : signals'[u] = signals[u]
        BY <2>2
      <3>3. call' = "idle" /\ UNCHANGED <<thread, runs, entry>>
        BY <1>7, <2>2 DEF PauseSignal, Calls, Returns
      <3> QED BY <3>1, <3>2, <3>3
    <2> QED BY <1>7, <2>1, <2>2 DEF PauseSignal
  <1>8. CASE StopJoin BY <1>8 DEF StopJoin, Calls, Returns, Faults
  <1>9. CASE StopKill BY <1>9 DEF StopKill, Calls, Returns
  <1>10. ASSUME NEW t \in Ids, Install(t) PROVE Marked'
    BY <1>10 DEF Install, Goes
  <1>11. ASSUME NEW t \in Ids, FunctionEnds(t) PROVE Marked'
    BY <1>11 DEF FunctionEnds, Goes
  <1>12. ASSUME NEW t \in Ids, Forget(t) PROVE Marked'
    BY <1>12 DEF Forget, Goes
  <1>13. ASSUME NEW t \in Ids, Leave(t) PROVE Marked'
    BY <1>13 DEF Leave, Ends, Goes
  <1>14. ASSUME NEW t \in Ids, SignalKills(t) PROVE Marked'
    BY <1>14 DEF SignalKills
  <1>15. ASSUME NEW t \in Ids, Stopped(t) PROVE Marked'
    BY <1>15 DEF Stopped, Ends, Goes
  <1>16. ASSUME NEW t \in Ids, PauseTaken(t) PROVE Marked'
    <2> USE <1>16, PauseTakenIs, SpentIs, EndsIs
    <2>1. CASE thread[t] \in {"new", "run"}
      <3>1. Taken(t) BY <2>1
      <3>2. thread' \in [Ids -> {"free", "new", "run", "look", "leave", "handle", "paused"}]
        BY <3>1 DEF Taken, Goes
      <3>3. thread'[t] = "handle" /\ \A u \in Ids \ {t} : thread'[u] = thread[u]
        BY <3>1 DEF Taken, Goes
      <3> QED BY <2>1, <3>1, <3>2, <3>3 DEF Taken
    <2>2. CASE thread[t] \in {"look", "leave"} /\ Ends(t) BY <2>2
    <2>3. CASE Spends(t) BY <2>3 DEF Spends
    <2>4. CASE UNCHANGED threadVars BY <2>4
    <2> QED BY <2>1, <2>2, <2>3, <2>4
  <1>17. ASSUME NEW t \in Ids, Handle(t) PROVE Marked'
    BY <1>17 DEF Handle, Goes
  <1>18. ASSUME NEW t \in Ids, PauseEnds(t) PROVE Marked'
    BY <1>18 DEF PauseEnds, Ends, Goes
  <1> QED BY <1>1, <1>2, <1>3, <1>4, <1>5, <1>6, <1>7, <1>8, <1>9,
            <1>10, <1>11, <1>12, <1>13, <1>14, <1>15, <1>16, <1>17, <1>18
          DEF Step, OwnerCall, OwnerStep, ThreadStep

LEMMA InstalledStep ==
  ASSUME ThreadInv, Step, UNCHANGED repairs PROVE  Installed'
  <1> USE ObjectsAssumption, IdsAssumption DEF objectVars, callVars, threadVars, mapVars, Faults,
        ThreadInv, TypeOK, Installed
  <1>1. ASSUME NEW o \in Objects, Pause(o) PROVE Installed'
    BY <1>1 DEF Pause, PauseRefused, Calls, callVars
  <1>2. ASSUME NEW o \in Objects, Stop(o) PROVE Installed'
    BY <1>2 DEF Stop, Calls
  <1>3. ASSUME NEW o \in Objects, Delete(o) PROVE Installed'
    BY <1>3 DEF Delete
  <1>4. ASSUME NEW o \in Objects, NEW t \in Ids, StartCreate(o, t) PROVE Installed'
    BY <1>4 DEF StartCreate, Calls, Goes
  <1>5. CASE StartStore BY <1>5 DEF StartStore, Calls, Returns
  <1>6. CASE StartAdd BY <1>6 DEF StartAdd, Calls, Returns
  <1>7. CASE PauseSignal BY <1>7 DEF PauseSignal, Calls, Returns
  <1>8. CASE StopJoin BY <1>8 DEF StopJoin, Calls, Returns, Faults
  <1>9. CASE StopKill BY <1>9 DEF StopKill, Calls, Returns
  <1>10. ASSUME NEW t \in Ids, Install(t) PROVE Installed'
    BY <1>10 DEF Install, Goes
  <1>11. ASSUME NEW t \in Ids, FunctionEnds(t) PROVE Installed'
    BY <1>11 DEF FunctionEnds, Goes
  <1>12. ASSUME NEW t \in Ids, Forget(t) PROVE Installed'
    BY <1>12 DEF Forget, Goes
  <1>13. ASSUME NEW t \in Ids, Leave(t) PROVE Installed'
    BY <1>13 DEF Leave, Ends, Goes
  <1>14. ASSUME NEW t \in Ids, SignalKills(t) PROVE Installed'
    BY <1>14 DEF SignalKills
  <1>15. ASSUME NEW t \in Ids, Stopped(t) PROVE Installed'
    BY <1>15 DEF Stopped, Ends, Goes
  <1>16. ASSUME NEW t \in Ids, PauseTaken(t) PROVE Installed'
    <2> USE <1>16, PauseTakenIs, SpentIs, EndsIs
    <2>1. CASE thread[t] \in {"new", "run"}
      <3>1. Taken(t) BY <2>1
      <3>2. thread' \in [Ids -> {"free", "new", "run", "look", "leave", "handle", "paused"}]
        BY <3>1 DEF Taken, Goes
      <3>3. thread'[t] = "handle" /\ \A u \in Ids \ {t} : thread'[u] = thread[u]
        BY <3>1 DEF Taken, Goes
      <3> QED BY <2>1, <3>1, <3>2, <3>3 DEF Taken
    <2>2. CASE thread[t] \in {"look", "leave"} /\ Ends(t) BY <2>2
    <2>3. CASE Spends(t) BY <2>3 DEF Spends
    <2>4. CASE UNCHANGED threadVars BY <2>4
    <2> QED BY <2>1, <2>2, <2>3, <2>4
  <1>17. ASSUME NEW t \in Ids, Handle(t) PROVE Installed'
    BY <1>17 DEF Handle, Goes
  <1>18. ASSUME NEW t \in Ids, PauseEnds(t) PROVE Installed'
    BY <1>18 DEF PauseEnds, Ends, Goes
  <1> QED BY <1>1, <1>2, <1>3, <1>4, <1>5, <1>6, <1>7, <1>8, <1>9,
            <1>10, <1>11, <1>12, <1>13, <1>14, <1>15, <1>16, <1>17, <1>18
          DEF Step, OwnerCall, OwnerStep, ThreadStep

LEMMA EntryStep ==
  ASSUME ThreadInv, Step, UNCHANGED repairs PROVE  EntryIsOwn'
  <1> USE ObjectsAssumption, IdsAssumption DEF objectVars, callVars, threadVars, mapVars, Faults,
        ThreadInv, TypeOK, Numbers, Owned, Calling, Marked, Active, Starting, EntryIsOwn, Found
  <1>1. ASSUME NEW o \in Objects, Pause(o) PROVE EntryIsOwn'
    BY <1>1 DEF Pause, PauseRefused, Calls, callVars
  <1>2. ASSUME NEW o \in Objects, Stop(o) PROVE EntryIsOwn'
    BY <1>2 DEF Stop, Calls
  <1>3. ASSUME NEW o \in Objects, Delete(o) PROVE EntryIsOwn'
    BY <1>3 DEF Delete
  <1>4. ASSUME NEW o \in Objects, NEW t \in Ids, StartCreate(o, t) PROVE EntryIsOwn'
    BY <1>4 DEF StartCreate, Calls, Goes
  <1>5. CASE StartStore BY <1>5 DEF StartStore, Calls, Returns
  <1>6. CASE StartAdd BY <1>6 DEF StartAdd, Calls, Returns
  <1>7. CASE PauseSignal BY <1>7 DEF PauseSignal, Calls, Returns
  <1>8. CASE StopJoin BY <1>8 DEF StopJoin, Calls, Returns, Faults
  <1>9. CASE StopKill BY <1>9 DEF StopKill, Calls, Returns
  <1>10. ASSUME NEW t \in Ids, Install(t) PROVE EntryIsOwn'
    BY <1>10 DEF Install, Goes
  <1>11. ASSUME NEW t \in Ids, FunctionEnds(t) PROVE EntryIsOwn'
    BY <1>11 DEF FunctionEnds, Goes
  <1>12. ASSUME NEW t \in Ids, Forget(t) PROVE EntryIsOwn'
    BY <1>12 DEF Forget, Goes
  <1>13. ASSUME NEW t \in Ids, Leave(t) PROVE EntryIsOwn'
    BY <1>13 DEF Leave, Ends, Goes
  <1>14. ASSUME NEW t \in Ids, SignalKills(t) PROVE EntryIsOwn'
    BY <1>14 DEF SignalKills
  <1>15. ASSUME NEW t \in Ids, Stopped(t) PROVE EntryIsOwn'
    BY <1>15 DEF Stopped, Ends, Goes
  <1>16. ASSUME NEW t \in Ids, PauseTaken(t) PROVE EntryIsOwn'
    <2> USE <1>16, PauseTakenIs, SpentIs, EndsIs
    <2>1. CASE thread[t] \in {"new", "run"}
      <3>1. Taken(t) BY <2>1
      <3>2. thread' \in [Ids -> {"free", "new", "run", "look", "leave", "handle", "paused"}]
        BY <3>1 DEF Taken, Goes
      <3>3. thread'[t] = "handle" /\ \A u \in Ids \ {t} : thread'[u] = thread[u]
        BY <3>1 DEF Taken, Goes
      <3> QED BY <2>1, <3>1, <3>2, <3>3 DEF Taken
    <2>2. CASE thread[t] \in {"look", "leave"} /\ Ends(t) BY <2>2
    <2>3. CASE Spends(t) BY <2>3 DEF Spends
    <2>4. CASE UNCHANGED threadVars BY <2>4
    <2> QED BY <2>1, <2>2, <2>3, <2>4
  <1>17. ASSUME NEW t \in Ids, Handle(t) PROVE EntryIsOwn'
    BY <1>17 DEF Handle, Goes
  <1>18. ASSUME NEW t \in Ids, PauseEnds(t) PROVE EntryIsOwn'
    BY <1>18 DEF PauseEnds, Ends, Goes
  <1> QED BY <1>1, <1>2, <1>3, <1>4, <1>5, <1>6, <1>7, <1>8, <1>9,
            <1>10, <1>11, <1>12, <1>13, <1>14, <1>15, <1>16, <1>17, <1>18
          DEF Step, OwnerCall, OwnerStep, ThreadStep

-----------------------------------------------------------------------------
(***************************************************************************)
(* The inductive invariant of Thread.h, for any objects and numbers.       *)
(***************************************************************************)
THEOREM ThreadInvHolds == Spec => []ThreadInv
  <1>1. ThreadInv /\ [Next]_vars => ThreadInv'
    <2> SUFFICES ASSUME ThreadInv, [Next]_vars PROVE ThreadInv'
      OBVIOUS
    <2>1. CASE UNCHANGED vars
      BY <2>1
         DEF vars, objectVars, callVars, threadVars, mapVars, ThreadInv, TypeOK, Numbers, Owned,
             Calling, Marked, Installed, EntryIsOwn, Starting, Found
    <2>2. CASE Next
      <3>1. Step /\ UNCHANGED repairs BY <2>2 DEF Next, Step
      <3> QED BY <3>1, TypeStep, NumbersStep, OwnedStep, CallingStep, MarkedStep,
                 InstalledStep, EntryStep DEF ThreadInv
    <2> QED BY <2>1, <2>2
  <1> QED BY <1>1, InitInv, PTL DEF Spec

(***************************************************************************)
(* Type correctness (Thread.h).                                            *)
(***************************************************************************)
THEOREM ThreadTypeCorrect == Spec => []TypeOK
  <1>1. ThreadInv => TypeOK BY DEF ThreadInv
  <1> QED BY <1>1, ThreadInvHolds, PTL

(***************************************************************************)
(* The map leads every running thread to its own object, although numbers  *)
(* are used again (Thread.h:50, 101-103, 112-114).                         *)
(***************************************************************************)
THEOREM EntryIsOwnHolds == Spec => []EntryIsOwn
  <1>1. ThreadInv => EntryIsOwn BY DEF ThreadInv
  <1> QED BY <1>1, ThreadInvHolds, PTL

(***************************************************************************)
(* What may end the process, however many threads come and go              *)
(* (Thread.h:50, 56, 79-81, 99-103).                                       *)
(***************************************************************************)
THEOREM ThreadFaultCauseHolds == Spec => []ThreadFaultCause
  <1>1. Init => ThreadFaultCause BY DEF Init, ThreadFaultCause
  <1>2. ThreadInv /\ ThreadFaultCause /\ [Next]_vars => ThreadFaultCause'
    <2> SUFFICES ASSUME ThreadInv, ThreadFaultCause, [Next]_vars PROVE ThreadFaultCause'
      OBVIOUS
    <2>1. CASE UNCHANGED vars
      BY <2>1 DEF vars, objectVars, callVars, threadVars, ThreadFaultCause
    <2>2. CASE Next
      <3>1. fault = "none" /\ UNCHANGED repairs BY <2>2 DEF Next
      <3>2. CASE fault' = "none" BY <3>2 DEF ThreadFaultCause
      <3>3. ASSUME NEW what, Faults(what), what # "none",
                   what = "map" => \E t \in Ids : \/ thread[t] = "look"
                                                  \/ thread[t] = "handle" /\ runs[t] # object,
                   what = "signal" => \A t \in Ids : thread[t] \in {"free", "new"},
                   what = "kill" =>
                     m_thread[object] = 0 /\ ("pause_guard" \in repairs => object \in started),
                   what = "object" => \E t \in Ids : runs[t] \in deleted /\ thread[t] # "free"
            PROVE  ThreadFaultCause'
        BY <3>1, <3>3 DEF Faults, ThreadFaultCause, objectVars, callVars, threadVars
      <3> USE <3>1, <3>2, <3>3 DEF ThreadInv, TypeOK
      <3>4. CASE StartAdd
        BY <3>4 DEF StartAdd, Torn, Looking, Marked, Starting
      <3>5. CASE PauseSignal
        BY <3>5 DEF PauseSignal, Owned, Calling, Active
      <3>6. CASE StopKill
        BY <3>6 DEF StopKill, Calling
      <3>7. ASSUME NEW t \in Ids, FunctionEnds(t) PROVE ThreadFaultCause'
        BY <3>7 DEF FunctionEnds
      <3>8. ASSUME NEW t \in Ids, Forget(t) PROVE ThreadFaultCause'
        BY <3>8 DEF Forget
      <3>9. ASSUME NEW t \in Ids, SignalKills(t) PROVE ThreadFaultCause'
        BY <3>9 DEF SignalKills, Installed
      <3>10. ASSUME NEW t \in Ids, PauseTaken(t) PROVE ThreadFaultCause'
        BY <3>10 DEF PauseTaken, Marked, Found
      <3>11. ASSUME NEW t \in Ids, Handle(t) PROVE ThreadFaultCause'
        BY <3>11 DEF Handle, Torn, Marked, Starting, EntryIsOwn
      <3>12. ASSUME NEW t \in Ids, PauseEnds(t) PROVE ThreadFaultCause'
        BY <3>12 DEF PauseEnds, Marked, EntryIsOwn
      <3>13. CASE StopJoin
        BY <3>13 DEF StopJoin, Calling
      <3>14. CASE UNCHANGED fault BY <3>14
      <3> QED
        BY <2>2, <3>4, <3>5, <3>6, <3>7, <3>8, <3>9, <3>10, <3>11, <3>12, <3>13, <3>14
           DEF Next, OwnerCall, OwnerStep, ThreadStep, Pause, Stop, Delete, StartCreate,
               StartStore, Install, Leave, Stopped
    <2> QED BY <2>1, <2>2
  <1> QED BY <1>1, <1>2, ThreadInvHolds, PTL DEF Spec

-----------------------------------------------------------------------------
(* With the guard of Pause as written, its signal never has a thread. *)
Misdirected ==
  "pause_guard" \notin repairs =>
    /\ \A t \in Ids : thread[t] \notin {"handle", "paused"} /\ 1 \notin signals[t]
    /\ call = "signal" => m_thread[object] = 0
    /\ \A o \in Objects : m_bpaused[o] => call = "signal" /\ object = o

LEMMA MisdirectedStep ==
  ASSUME ThreadInv, Misdirected, Step, UNCHANGED repairs, "pause_guard" \notin repairs
  PROVE  Misdirected'
  <1> USE ObjectsAssumption, IdsAssumption
      DEF ThreadInv, TypeOK, Misdirected, Faults, Calls, Returns, Goes,
          objectVars, callVars, threadVars, mapVars
  <1>1. ASSUME NEW o \in Objects, Pause(o) PROVE Misdirected'
    BY <1>1 DEF Pause, PauseRefused
  <1>2. ASSUME NEW o \in Objects, Stop(o) \/ Delete(o) PROVE Misdirected'
    BY <1>2 DEF Stop, Delete
  <1>3. ASSUME NEW o \in Objects, NEW t \in Ids, StartCreate(o, t) PROVE Misdirected'
    BY <1>3 DEF StartCreate
  <1>4. CASE StartStore \/ StartAdd BY <1>4 DEF StartStore, StartAdd
  <1>5. CASE PauseSignal BY <1>5 DEF PauseSignal
  <1>6. CASE StopJoin BY <1>6 DEF StopJoin
  <1>7. CASE StopKill
    <2>1. \A t \in Ids : signals'[t] \subseteq signals[t] \cup {2} BY <1>7 DEF StopKill
    <2> QED BY <1>7, <2>1 DEF StopKill
  <1>8. ASSUME NEW t \in Ids, Install(t) \/ FunctionEnds(t) \/ Forget(t) PROVE Misdirected'
    <2>1. CASE Install(t) BY <2>1 DEF Install
    <2>2. CASE FunctionEnds(t)
      <3>1. /\ UNCHANGED <<m_bpaused, callVars, signals>>
            /\ \A u \in Ids : thread'[u] \notin {"handle", "paused"}
        BY <2>2 DEF FunctionEnds
      <3>2. \A o \in Objects : m_thread[o] = 0 => m_thread'[o] = 0 BY <2>2 DEF FunctionEnds
      <3>3. call = "signal" => object \in Objects BY DEF Calling
      <3> QED BY <3>1, <3>2, <3>3
    <2>3. CASE Forget(t) BY <2>3 DEF Forget
    <2> QED BY <1>8, <2>1, <2>2, <2>3
  <1>9. ASSUME NEW t \in Ids, Leave(t) \/ Stopped(t) PROVE Misdirected'
    BY <1>9 DEF Leave, Stopped, Ends
  <1>10. ASSUME NEW t \in Ids, SignalKills(t) PROVE Misdirected'
    BY <1>10 DEF SignalKills
  <1>11. ASSUME NEW t \in Ids PROVE ~PauseTaken(t) /\ ~Handle(t) /\ ~PauseEnds(t)
    BY DEF PauseTaken, Handle, PauseEnds
  <1> QED BY <1>1, <1>2, <1>3, <1>4, <1>5, <1>6, <1>7, <1>8, <1>9, <1>10, <1>11
          DEF Step, OwnerCall, OwnerStep, ThreadStep

(***************************************************************************)
(* As written, Pause refuses every object that has a thread (Thread.h:56): *)
(* no thread is ever paused, and a Pause that gets as far as its signal    *)
(* sends it to thread number 0.                                            *)
(***************************************************************************)
THEOREM AsWrittenNothingPauses ==
  Spec => []("pause_guard" \notin repairs =>
               /\ \A t \in Ids : thread[t] # "paused"
               /\ call = "signal" => m_thread[object] = 0)
  <1>1. Init => Misdirected BY DEF Init, Misdirected
  <1>2. ThreadInv /\ Misdirected /\ [Next]_vars => Misdirected'
    <2> SUFFICES ASSUME ThreadInv, Misdirected, [Next]_vars PROVE Misdirected'
      OBVIOUS
    <2>1. CASE UNCHANGED vars
      BY <2>1 DEF Misdirected, vars, objectVars, callVars, threadVars
    <2>2. CASE Next
      <3>1. Step /\ UNCHANGED repairs BY <2>2 DEF Next, Step
      <3> QED BY <3>1, MisdirectedStep DEF Misdirected
    <2> QED BY <2>1, <2>2
  <1>3. Misdirected => ("pause_guard" \notin repairs =>
                          /\ \A t \in Ids : thread[t] # "paused"
                          /\ call = "signal" => m_thread[object] = 0)
    BY DEF Misdirected
  <1> QED BY <1>1, <1>2, <1>3, ThreadInvHolds, PTL DEF Spec
=============================================================================

------------------------------- MODULE Thread -------------------------------
(***************************************************************************)
(* CThread (Thread.h): thread objects, the threads they start, and the map *)
(* from thread numbers to objects that all of them use without a lock.     *)
(*                                                                         *)
(* One thread, the owner, starts each object once and pauses, stops and    *)
(* deletes objects, one call after the other; the threads it has started   *)
(* run ThreadEntry and the signal handler meanwhile.  The number of a      *)
(* thread that has ended is used again.  fault names what ended the        *)
(* process.                                                                *)
(*                                                                         *)
(* A definition marked "mutant" is a plausible mistake in the definition   *)
(* that follows it; no specification uses one.                             *)
(***************************************************************************)
EXTENDS Integers, FiniteSets

CONSTANTS Objects,  \* the CThread objects
          Ids,      \* the thread numbers there are
          None      \* NULL

ASSUME ObjectsAssumption == IsFiniteSet(Objects) /\ None \notin Objects
ASSUME IdsAssumption     == IsFiniteSet(Ids) /\ 0 \notin Ids

VARIABLES
  m_thread,  \* [Objects -> Ids \cup {0}]
  m_bpaused, \* [Objects -> BOOLEAN]
  started,   \* the objects that were started
  deleted,   \* the objects that are gone
  call,      \* where the owner is: "idle", or in which call
  object,    \* the object of the call
  id,        \* the number it works with
  thread,    \* [Ids -> ...], where the thread of each number is
  runs,      \* [Ids -> Objects \cup {None}], the object it was started for
  signals,   \* [Ids -> SUBSET {1, 2}], SIGUSR1 and SIGUSR2 on their way
  handlers,  \* are the handlers of the process installed?
  keys,      \* the keys of m_mapThread
  entry,     \* [Ids \cup {0} -> Objects \cup {None}], the values
  fault,     \* "none", or what ended the process
  repairs    \* pause_guard: Pause takes started threads (Thread.h:56)

objectVars == <<m_thread, m_bpaused, started, deleted>>
callVars   == <<call, object, id>>
threadVars == <<thread, runs, signals, handlers>>
mapVars    == <<keys, entry>>
vars == <<objectVars, callVars, threadVars, mapVars, fault, repairs>>

Init ==
  /\ m_thread = [o \in Objects |-> 0] /\ m_bpaused = [o \in Objects |-> FALSE]
  /\ started = {} /\ deleted = {}
  /\ call = "idle" /\ object = None /\ id = 0
  /\ thread = [t \in Ids |-> "free"] /\ runs = [t \in Ids |-> None]
  /\ signals = [t \in Ids |-> {}] /\ handlers = FALSE
  /\ keys = {} /\ entry = [k \in Ids \cup {0} |-> None]
  /\ fault = "none" /\ repairs \in SUBSET {"pause_guard"}

Faults(what) ==
  fault' = what /\ UNCHANGED <<objectVars, callVars, threadVars, mapVars>>

Calls(name, o, t) == call' = name /\ object' = o /\ id' = t
ReturnsMinus      == Calls("idle", None, -1)   \* mutant: no thread is -1
Returns           == Calls("idle", None, 0)
Goes(t, p)        == thread' = [thread EXCEPT ![t] = p]

(***************************************************************************)
(* The owner moves the nodes of the map about while it adds a key; what a  *)
(* thread that looks its number up meanwhile finds is undefined.           *)
(***************************************************************************)
Looking == {t \in Ids : thread[t] \in {"look", "handle"}}
Torn    == call = "add" /\ Looking # {}

-----------------------------------------------------------------------------
(* Start: pthread_create, which sets m_thread, and the entry in the map.   *)

StartCreate(o, t) ==
  /\ call = "idle" /\ o \notin started /\ thread[t] = "free"
  /\ Calls("store", o, 0) /\ started' = started \cup {o}
  /\ m_thread' = [m_thread EXCEPT ![o] = t]
  /\ Goes(t, "new") /\ runs' = [runs EXCEPT ![t] = o]
  /\ UNCHANGED <<m_bpaused, deleted, signals, handlers, mapVars, fault>>

(* mutant: a number that has an entry keeps it, as with map::insert *)
StartInsert ==
  /\ call = "store"
  /\ IF m_thread[object] \in keys
     THEN Returns ELSE Calls("add", object, m_thread[object])
  /\ UNCHANGED <<objectVars, threadVars, mapVars, fault>>

(* m_thread is read again: a thread that was quick has set it to 0. *)
StartStore ==
  /\ call = "store"
  /\ IF m_thread[object] \in keys
     THEN entry' = [entry EXCEPT ![m_thread[object]] = object] /\ Returns
     ELSE UNCHANGED entry /\ Calls("add", object, m_thread[object])
  /\ UNCHANGED <<objectVars, threadVars, keys, fault>>

StartAdd ==
  /\ call = "add"
  /\ \/ /\ keys' = keys \cup {id} /\ entry' = [entry EXCEPT ![id] = object]
        /\ Returns /\ UNCHANGED <<objectVars, threadVars, fault>>
     \/ Torn /\ Faults("map")

-----------------------------------------------------------------------------
(* Pause.  As written it returns at once if there is a thread. *)

PauseRefused(o) == IF "pause_guard" \in repairs THEN m_thread[o] = 0 ELSE m_thread[o] # 0

Pause(o) ==
  /\ call = "idle" /\ o \notin deleted /\ ~PauseRefused(o)
  /\ m_bpaused' = [m_bpaused EXCEPT ![o] = ~@]
  /\ IF m_bpaused[o] THEN UNCHANGED callVars ELSE Calls("signal", o, 0)
  /\ UNCHANGED <<m_thread, started, deleted, threadVars, mapVars, fault>>

(* pthread_kill for a number that is no thread's is undefined: the process *)
(* ends, or it is told so.                                                 *)
PauseSignal ==
  LET t == m_thread[object] IN
  /\ call = "signal"
  /\ IF t # 0 /\ thread[t] # "free"
     THEN /\ signals' = [signals EXCEPT ![t] = @ \cup {1}] /\ Returns
          /\ UNCHANGED <<objectVars, thread, runs, handlers, mapVars, fault>>
     ELSE \/ Faults("kill")
          \/ /\ t # 0 /\ Returns
             /\ m_bpaused' = [m_bpaused EXCEPT ![object] = FALSE]
             /\ UNCHANGED <<m_thread, started, deleted, threadVars, mapVars, fault>>

-----------------------------------------------------------------------------
(***************************************************************************)
(* Stop.  The time limit of the join has passed, so that a thread that     *)
(* runs is always detached and sent SIGUSR2.                               *)
(***************************************************************************)
Stop(o) ==
  /\ call = "idle" /\ o \notin deleted /\ m_thread[o] # 0
  /\ m_thread' = [m_thread EXCEPT ![o] = 0]
  /\ Calls("join", o, m_thread[o])
  /\ UNCHANGED <<m_bpaused, started, deleted, threadVars, mapVars, fault>>

(* A thread that has detached itself and ended must not be joined: the     *)
(* process ends, or it is told so.                                         *)
StopJoin ==
  /\ call = "join"
  /\ \/ /\ IF thread[id] = "free" THEN Returns ELSE Calls("kill", object, id)
        /\ UNCHANGED <<objectVars, threadVars, mapVars, fault>>
     \/ thread[id] = "free" /\ Faults("kill")

StopKill ==
  /\ call = "kill"
  /\ \/ /\ Returns
        /\ signals' = IF thread[id] = "free" THEN signals
                      ELSE [signals EXCEPT ![id] = @ \cup {2}]
        /\ UNCHANGED <<objectVars, thread, runs, handlers, mapVars, fault>>
     \/ thread[id] = "free" /\ Faults("kill")

(* The object of a thread that was stopped or has ended by itself is       *)
(* deleted; nobody waits for the thread.                                   *)
Delete(o) ==
  /\ call = "idle" /\ o \in started \ deleted /\ m_thread[o] = 0
  /\ deleted' = deleted \cup {o}
  /\ UNCHANGED <<m_thread, m_bpaused, started, callVars, threadVars, mapVars, fault>>

-----------------------------------------------------------------------------
(* ThreadEntry. *)

Ends(t) ==
  /\ Goes(t, "free")
  /\ runs' = [runs EXCEPT ![t] = None] /\ signals' = [signals EXCEPT ![t] = {}]
  /\ UNCHANGED handlers

Install(t) ==
  /\ thread[t] = "new"
  /\ Goes(t, "run") /\ handlers' = TRUE
  /\ UNCHANGED <<objectVars, callVars, runs, signals, mapVars, fault>>

FunctionEnds(t) ==
  LET o == runs[t] IN
  /\ thread[t] = "run"
  /\ \/ /\ m_thread' = [m_thread EXCEPT ![o] = 0] /\ Goes(t, "look")
        /\ UNCHANGED <<m_bpaused, started, deleted, callVars, runs, signals, handlers, mapVars, fault>>
     \/ o \in deleted /\ Faults("object")

Forget(t) ==
  /\ thread[t] = "look"
  /\ \/ /\ entry' = IF t \in keys THEN [entry EXCEPT ![t] = None] ELSE entry
        /\ Goes(t, "leave")
        /\ UNCHANGED <<objectVars, callVars, runs, signals, handlers, keys, fault>>
     \/ Torn /\ Faults("map")

(* mutant: the handlers are taken down again *)
LeaveRestores(t) ==
  /\ thread[t] = "leave"
  /\ Goes(t, "free") /\ handlers' = FALSE
  /\ runs' = [runs EXCEPT ![t] = None] /\ signals' = [signals EXCEPT ![t] = {}]
  /\ UNCHANGED <<objectVars, callVars, mapVars, fault>>

Leave(t) ==
  /\ thread[t] = "leave" /\ Ends(t)
  /\ UNCHANGED <<objectVars, callVars, mapVars, fault>>

-----------------------------------------------------------------------------
(***************************************************************************)
(* The signals.  The handlers belong to the process: the first thread of   *)
(* all that gets as far as ThreadEntry installs them; before that a signal *)
(* ends the process.                                                       *)
(***************************************************************************)
SignalKills(t) ==
  /\ thread[t] # "free" /\ signals[t] # {} /\ ~handlers
  /\ Faults("signal")

(* mutant: the handler returns *)
StoppedGoesOn(t) ==
  /\ thread[t] # "free" /\ 2 \in signals[t] /\ handlers
  /\ signals' = [signals EXCEPT ![t] = @ \ {2}]
  /\ UNCHANGED <<objectVars, callVars, thread, runs, handlers, mapVars, fault>>

Stopped(t) ==
  /\ thread[t] # "free" /\ 2 \in signals[t] /\ handlers
  /\ Ends(t)
  /\ UNCHANGED <<objectVars, callVars, mapVars, fault>>

Found(t) == t \in keys /\ entry[t] # None

(* A thread on its way out ends here if its object is still found paused. *)
PauseTaken(t) ==
  /\ 1 \in signals[t] /\ handlers
  /\ \/ /\ thread[t] \in {"new", "run"} /\ Goes(t, "handle")
        /\ signals' = [signals EXCEPT ![t] = @ \ {1}]
        /\ UNCHANGED <<objectVars, callVars, runs, handlers, mapVars, fault>>
     \/ /\ thread[t] \in {"look", "leave"}
        /\ IF Found(t) /\ m_bpaused[entry[t]]
           THEN Ends(t)
           ELSE signals' = [signals EXCEPT ![t] = @ \ {1}] /\ UNCHANGED <<thread, runs, handlers>>
        /\ UNCHANGED <<objectVars, callVars, mapVars, fault>>
     \/ /\ thread[t] \in {"look", "leave"}
        /\ Found(t) /\ entry[t] \in deleted /\ Faults("object")

Handle(t) ==
  /\ thread[t] = "handle"
  /\ \/ /\ Goes(t, IF Found(t) /\ m_bpaused[entry[t]] THEN "paused" ELSE "run")
        /\ UNCHANGED <<objectVars, callVars, runs, signals, handlers, mapVars, fault>>
     \/ Found(t) /\ entry[t] \in deleted /\ Faults("object")
     \/ Torn /\ Faults("map")

(* Every millisecond the handler looks again. *)
PauseEnds(t) ==
  LET o == entry[t] IN
  /\ thread[t] = "paused"
  /\ \/ /\ ~m_bpaused[o] /\ Goes(t, "run")
        /\ UNCHANGED <<objectVars, callVars, runs, signals, handlers, mapVars, fault>>
     \/ /\ m_bpaused[o] /\ m_thread[o] = 0 /\ Ends(t)
        /\ UNCHANGED <<objectVars, callVars, mapVars, fault>>
     \/ o \in deleted /\ Faults("object")

-----------------------------------------------------------------------------
OwnerCall == \E o \in Objects : Pause(o) \/ Stop(o) \/ Delete(o) \/ \E t \in Ids : StartCreate(o, t)
OwnerStep == StartStore \/ StartAdd \/ PauseSignal \/ StopJoin \/ StopKill

ThreadStep(t) ==
  \/ Install(t) \/ Forget(t) \/ Leave(t)
  \/ SignalKills(t) \/ Stopped(t) \/ PauseTaken(t) \/ Handle(t) \/ PauseEnds(t)

Next ==
  /\ fault = "none" /\ UNCHANGED repairs
  /\ \/ OwnerCall \/ OwnerStep
     \/ \E t \in Ids : ThreadStep(t) \/ FunctionEnds(t)

Spec == Init /\ [][Next]_vars

(* The kernel runs every thread; the owner may call nothing any more, and  *)
(* a thread's function need not end.                                       *)
FairSpec ==
  /\ Spec
  /\ WF_vars(fault = "none" /\ UNCHANGED repairs /\ OwnerStep)
  /\ \A t \in Ids : WF_vars(fault = "none" /\ UNCHANGED repairs /\ ThreadStep(t))

-----------------------------------------------------------------------------
(***************************************************************************)
(* Type correctness.                                                       *)
(***************************************************************************)
TypeOK ==
  /\ m_thread \in [Objects -> Ids \cup {0}]
  /\ m_bpaused \in [Objects -> BOOLEAN]
  /\ started \subseteq Objects /\ deleted \subseteq started
  /\ call \in {"idle", "store", "add", "signal", "join", "kill"}
  /\ object \in Objects \cup {None} /\ id \in Ids \cup {0}
  /\ thread \in [Ids -> {"free", "new", "run", "look", "leave", "handle", "paused"}]
  /\ runs \in [Ids -> Objects \cup {None}]
  /\ signals \in [Ids -> SUBSET {1, 2}]
  /\ handlers \in BOOLEAN
  /\ keys \subseteq Ids \cup {0}
  /\ entry \in [Ids \cup {0} -> Objects \cup {None}]
  /\ fault \in {"none", "map", "kill", "object", "signal"}
  /\ repairs \subseteq {"pause_guard"}

(***************************************************************************)
(* The map gives a thread its own object: whenever Start has returned and  *)
(* the thread's function has not, its number leads to the object it was    *)
(* started for, although numbers are used again and the entries of threads *)
(* that were stopped stay behind (Thread.h:50, 101-103, 112-114).          *)
(***************************************************************************)
Starting(t) == call \in {"store", "add"} /\ object = runs[t]

EntryIsOwn ==
  \A t \in Ids : thread[t] \in {"new", "run", "handle", "paused"} /\ ~Starting(t) =>
    Found(t) /\ entry[t] = runs[t]

(***************************************************************************)
(* What ends the process.  The map is torn only by a thread that ends      *)
(* while it or another is started, or that takes a pause while another is; *)
(* a signal is deadly only until the first thread of all has run; a number *)
(* without a thread is used only for an object whose thread has ended or   *)
(* was stopped, or, by the inverted guard of Pause, never started; and  *)
(* an object is used too late only if it was stopped and deleted while its *)
(* thread went on (Thread.h:50, 56, 79-81, 99-103).                        *)
(***************************************************************************)
ThreadFaultCause ==
  /\ fault = "map"    => \E t \in Ids : \/ thread[t] = "look"
                                        \/ thread[t] = "handle" /\ runs[t] # object
  /\ fault = "signal" => \A t \in Ids : thread[t] \in {"free", "new"}
  /\ fault = "kill"   => m_thread[object] = 0 /\ ("pause_guard" \in repairs => object \in started)
  /\ fault = "object" => \E t \in Ids : runs[t] \in deleted /\ thread[t] # "free"

(***************************************************************************)
(* A thread that was stopped ends, wherever it is, also when it is paused  *)
(* (Thread.h:78-82, 116-125).                                              *)
(***************************************************************************)
StoppedEnds ==
  \A t \in Ids : (2 \in signals[t]) ~> (thread[t] = "free" \/ fault # "none")
=============================================================================

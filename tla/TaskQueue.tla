----------------------------- MODULE TaskQueue -----------------------------
(***************************************************************************)
(* What the thread pool promises to the threads that call AddTask: a task  *)
(* whose AddTask returned 0 is queued behind the caller's earlier tasks,   *)
(* leaves the queue at most once, in that order, for one worker that calls *)
(* it, and is then done.  A task may stay queued forever (the pool may be  *)
(* closed, or the process die), but it is never run twice, never run       *)
(* before it is added, and never overtaken in its own queue.  A caller may *)
(* be refused before its first task, and is then refused for good.         *)
(***************************************************************************)
EXTENDS Naturals, Sequences

CONSTANT Callers      \* the clients of the pool, one per thread and task type

VARIABLES queue,      \* [Callers -> the numbers of the tasks not taken yet]
          count,      \* [Callers -> how many tasks were added]
          running,    \* the tasks taken and not finished, <<caller, number>>
          done,       \* the tasks finished
          refused     \* the callers that will never be served

vars == <<queue, count, running, done, refused>>

Init ==
  /\ queue = [c \in Callers |-> <<>>]
  /\ count = [c \in Callers |-> 0]
  /\ running = {}
  /\ done = {}
  /\ refused = {}

Add(c) ==
  /\ c \notin refused
  /\ queue' = [queue EXCEPT ![c] = Append(@, count[c] + 1)]
  /\ count' = [count EXCEPT ![c] = @ + 1]
  /\ UNCHANGED <<running, done, refused>>

Take(c) ==
  /\ queue[c] # <<>>
  /\ <<c, Head(queue[c])>> \notin running \cup done
  /\ queue' = [queue EXCEPT ![c] = Tail(@)]
  /\ running' = running \cup {<<c, Head(queue[c])>>}
  /\ UNCHANGED <<count, done, refused>>

Finish(t) ==
  /\ t \in running
  /\ running' = running \ {t}
  /\ done' = done \cup {t}
  /\ UNCHANGED <<queue, count, refused>>

Refuse(c) ==
  /\ count[c] = 0
  /\ refused' = refused \cup {c}
  /\ UNCHANGED <<queue, count, running, done>>

Next ==
  \/ \E c \in Callers : Add(c) \/ Take(c) \/ Refuse(c)
  \/ \E t \in running : Finish(t)

Spec == Init /\ [][Next]_vars
=============================================================================

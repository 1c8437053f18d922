------------------------------ MODULE LineLog ------------------------------
(***************************************************************************)
(* What the log server promises to the threads that call Trace.  Each      *)
(* numbers its calls.  The first calls may come to nothing; from the first *)
(* line that is written on, none is missing.  The lines of a thread wait   *)
(* in a queue of its own and get into the log from its head, some at a     *)
(* time, each once.  When the server ends, the lines it was about to store *)
(* are lost, all of one thread's, and the rest wait for ever.              *)
(***************************************************************************)
EXTENDS Naturals, Sequences

CONSTANT Tracers      \* the threads that call Trace

VARIABLES traced,     \* [Tracers -> how often each called Trace]
          written,    \* [Tracers -> how many of these calls wrote a line]
          queue,      \* [Tracers -> the numbers of the lines not stored yet]
          log,        \* the lines stored, <<tracer, number>>
          open        \* does the server run?

vars == <<traced, written, queue, log, open>>

Init ==
  /\ traced = [t \in Tracers |-> 0]
  /\ written = [t \in Tracers |-> 0]
  /\ queue = [t \in Tracers |-> <<>>]
  /\ log = <<>>
  /\ open = TRUE

Drop(t) ==
  /\ written[t] = 0
  /\ traced' = [traced EXCEPT ![t] = @ + 1]
  /\ UNCHANGED <<written, queue, log, open>>

Write(t) ==
  /\ traced' = [traced EXCEPT ![t] = @ + 1]
  /\ written' = [written EXCEPT ![t] = @ + 1]
  /\ queue' = [queue EXCEPT ![t] = Append(@, traced[t] + 1)]
  /\ UNCHANGED <<log, open>>

Takes(t, n) == queue' = [queue EXCEPT ![t] = SubSeq(@, n + 1, Len(@))]

Store(t, n) ==
  /\ open
  /\ log' = log \o [i \in 1..n |-> <<t, queue[t][i]>>]
  /\ Takes(t, n)
  /\ UNCHANGED <<traced, written, open>>

End ==
  /\ open
  /\ open' = FALSE
  /\ UNCHANGED queue \/ \E t \in Tracers : \E n \in 1..Len(queue[t]) : Takes(t, n)
  /\ UNCHANGED <<traced, written, log>>

Next ==
  \/ \E t \in Tracers : Drop(t) \/ Write(t) \/ \E n \in 1..Len(queue[t]) : Store(t, n)
  \/ End

Spec == Init /\ [][Next]_vars
=============================================================================

--------------------------- MODULE ThreadPoolInv ---------------------------
(***************************************************************************)
(* The inductive invariant of ThreadPool, in named parts: TLC checks it on *)
(* small instances, ThreadPoolProofs proves it for all.                    *)
(***************************************************************************)
EXTENDS ThreadPool

(* Start builds the server, the epoll instance and the threads in that     *)
(* order, and only Close takes them apart.                                 *)
PhaseInv ==
  /\ m_server = "null" /\ ~Closing =>
       owner = "idle" /\ \A w \in Workers : m_threads[w] = "none"
  /\ owner \in {"create", "add", "spawn"} => m_server = "bound"
  /\ owner \in {"create", "add"} => \A w \in Workers : m_threads[w] = "none"
  /\ owner \in {"add", "spawn"} => m_epoll # -1
  /\ (\E w \in Workers : m_threads[w] # "none") => m_epoll # -1 \/ Closing
  /\ \A w \in Workers : m_threads[w] = "none" => pc[w] = "off"
  /\ \A w \in Workers : m_threads[w] = "freed" => owner = "closed"

(* The callers whose sockets worker w will use. *)
Touches(w) == (events[w] \cup (IF pc[w] \in {"recv", "run"} THEN {cur[w]} ELSE {})) \cap Callers

CurOK == \A w \in Workers : pc[w] \in {"recv", "run"} => cur[w] \in Callers

ConnInv ==
  /\ CurOK
  /\ \A c \in Callers : client[c] \in {"fresh", "half"} => conn[c] = "none"
  /\ \A c \in watched \cap Callers : conn[c] = "live"
  /\ \A w \in Workers : \A c \in Touches(w) :
       conn[c] = "live" \/ (conn[c] = "freed" /\ Hangup(c))
  /\ \A c \in Callers : conn[c] = "freed" => Hangup(c) \/ Closing \/ MayFail

(* The tasks of a caller leave its stream in the order of their numbers:   *)
(* the first Taken(c) have left, and each is running or done.              *)
Taken(c) == count[c] - Len(stream[c])

TaskInv ==
  /\ \A c \in Callers : /\ count[c] <= MaxTasks
                        /\ Taken(c) \in Nat
                        /\ \A i \in 1..Len(stream[c]) : stream[c][i] = Taken(c) + i
  /\ \A w \in Workers : pc[w] = "run" => task[w] \in 1..Taken(cur[w]) /\ Held(w) \notin done
  /\ \A t \in done : t[2] \in 1..Taken(t[1])
  /\ \A v, w \in Workers :
       pc[v] = "run" /\ pc[w] = "run" /\ Held(v) = Held(w) => v = w
  /\ \A c \in Callers : \A n \in 1..Taken(c) : <<c, n>> \in Running \cup done

PoolInv == PhaseInv /\ ConnInv /\ TaskInv

(* With one worker: what it was told is ready stays so until it gets there. *)
AloneInv ==
  fault = "none" /\ ~Closing =>
    \A w \in Workers :
      /\ Server \in events[w] \/ pc[w] \in {"link", "accept"} => Pending # {}
      /\ pc[w] \in {"link", "accept"} => Server \notin events[w]
      /\ \A c \in events[w] \cap Callers : conn[c] = "live" /\ Readable(c)
      /\ pc[w] = "recv" => conn[cur[w]] = "live" /\ Readable(cur[w])
      /\ pc[w] \in {"recv", "run"} => cur[w] \notin events[w]
=============================================================================

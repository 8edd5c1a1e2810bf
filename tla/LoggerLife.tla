----------------------------- MODULE LoggerLife -----------------------------
(***************************************************************************)
(* What the Transport Converter server and its performance loggers promise *)
(* each other (run, stop and _run_logger of                                *)
(* src/5GTC/pkg/performance_logger/logger.py).  TCServer and               *)
(* PerformanceLogger both implement this specification: the server starts  *)
(* a logger once and may tell it to stop, and a logger that has been told  *)
(* to stop ends.  It may end earlier, by an exception.                     *)
(***************************************************************************)
CONSTANT Conns

VARIABLES thread, thread_run

vars == <<thread, thread_run>>

Init ==
  /\ thread = [c \in Conns |-> "none"]
  /\ thread_run = [c \in Conns |-> FALSE]

Start(c) ==
  /\ thread[c] = "none"
  /\ thread' = [thread EXCEPT ![c] = "running"]
  /\ thread_run' = [thread_run EXCEPT ![c] = TRUE]

\* The first half of stop(); the second, the join, waits for Ends.
Stop(c) ==
  /\ thread[c] # "none"
  /\ thread_run' = [thread_run EXCEPT ![c] = FALSE]
  /\ UNCHANGED thread

Ends(c) ==
  /\ thread[c] = "running"
  /\ thread' = [thread EXCEPT ![c] = "ended"]
  /\ UNCHANGED thread_run

\* The process is gone, and its threads with it.
Crash ==
  /\ thread' = [c \in Conns |-> IF thread[c] = "running" THEN "ended" ELSE thread[c]]
  /\ UNCHANGED thread_run

Next == Crash \/ \E c \in Conns : Start(c) \/ Stop(c) \/ Ends(c)

Spec == Init /\ [][Next]_vars

\* join returns: a thread that was told to stop does.
FairSpec == Spec /\ \A c \in Conns : WF_vars(~thread_run[c] /\ Ends(c))
=============================================================================

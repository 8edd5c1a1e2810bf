------------------------- MODULE PerformanceLogger -------------------------
(***************************************************************************)
(* The performance loggers of the Transport Converter server               *)
(* (src/5GTC/pkg/performance_logger/logger.py and db.py) and the extension *)
(* they call (src/5GTC/pkg/mptcp_util/mptcp_util.c).                       *)
(*                                                                         *)
(* Each proxied client has a logger thread.  In a loop it asks the kernel  *)
(* for the TCP state of the client's subflows and inserts one row for each *)
(* into the table tcp_conn_info; the first time it meets a subflow number  *)
(* it asks for the subflow's addresses and inserts a row into the table    *)
(* subflows.  The numbers are positions in the kernel's list.  All loggers *)
(* write to one SQLite file, which the web UI's process reads.             *)
(*                                                                         *)
(* The server's thread starts loggers, and stops and joins one before it   *)
(* closes a pair; here only its dealings with loggers are kept.  A step of *)
(* a logger ends where the interpreter may switch threads: after fileno(), *)
(* after each getsockopt, after each statement of a transaction.           *)
(***************************************************************************)
EXTENDS Integers, Sequences, SequencesExt

CONSTANTS
  Conns,   \* the clients, named 1, 2, ... in the order they are served
  Fds,     \* the descriptor numbers of the client sockets
  Plain,   \* the clients that do not speak MPTCP
  Changes, \* bound: Changes[c] times a subflow joins or leaves connection c
  MaxSubflows  \* bound: subflows that ever join one connection

Closed == -1
Nobody == 0
Slots == 2                \* addr[2] and ti[2] of the extension

ASSUME LoggerAssumption ==
  /\ Conns \subseteq Nat \ {Nobody} /\ Closed \notin Fds
  /\ Plain \subseteq Conns
  /\ MaxSubflows \in Nat /\ Changes \in [Conns -> 0 .. (MaxSubflows - 1)]

VARIABLES
  \* The server's thread.
  main,          \* "loop", "join", "dead", "exited"; or "crashed"
  closing,       \* while it joins: the client, and the logger it stopped
  perf_loggers,  \* self.perf_loggers, a logger named by its client
  mistaken,      \* history: the clients closed through another's logger
  \* The kernel.
  fd,            \* fd[c]: fileno() of client c's socket
  joined,        \* joined[c]: how many subflows have joined connection c
  subs,          \* subs[c]: those of them it has, in the kernel's order
  \* The logger threads.
  pc,            \* pc[c]: where logger c is
  thread_run,    \* thread_run[c]: its _thread_run
  loc,           \* loc[c]: the local variables of _run_logger
  \* The database.
  subflows,      \* subflows[c][id]: the rows of the table subflows
  rows,          \* rows[c][id]: the last row of tcp_conn_info, the subflow measured
  lock           \* the logger that holds the write lock

server == <<main, closing, perf_loggers, mistaken>>
kernel == <<fd, joined, subs>>
db == <<subflows, rows, lock>>
vars == <<server, kernel, pc, thread_run, loc, db>>

Ids == 0 .. (MaxSubflows - 1)
\* A subflow is named by its connection and its place among those that joined
\* it; Garbage stands for what lies behind the extension's two slots.
Garbage == <<Nobody, 0>>
NoRow == <<Nobody, 1>>
Subflows == (Conns \X (1 .. MaxSubflows)) \cup {Garbage}
Info == [id : Ids, of : Subflows]
\* The number fileno() gave, the rest of subflow_tcp_info, the addresses about to
\* be inserted, and the _inserted_subflows_cache.
Locals == [sockfd : Fds \cup {Closed}, tcp_info : Seq(Info), sinfo : Subflows,
           cache : SUBSET Ids]
NoLocals == [sockfd |-> Closed, tcp_info |-> <<>>, sinfo |-> Garbage, cache |-> {}]
Pcs == {"none", "init", "while", "tcp_info", "info", "sub_insert", "sub_commit",
        "row_insert", "row_commit", "ended"}

TypeOK ==
  /\ main \in {"loop", "join", "dead", "exited", "crashed"}
  /\ closing \in [conn : Conns \cup {Nobody}, log : Conns \cup {Nobody}]
  /\ perf_loggers \in [Fds -> Conns \cup {Nobody}]
  /\ mistaken \subseteq Conns
  /\ fd \in [Conns -> Fds \cup {Closed}]
  /\ joined \in [Conns -> 0 .. MaxSubflows] /\ subs \in [Conns -> Seq(1 .. MaxSubflows)]
  /\ pc \in [Conns -> Pcs] /\ thread_run \in [Conns -> BOOLEAN]
  /\ loc \in [Conns -> Locals]
  /\ subflows \in [Conns -> [Ids -> Seq(Subflows)]]
  /\ rows \in [Conns -> [Ids -> Subflows \cup {NoRow}]]
  /\ lock \in Conns \cup {Nobody}

Init ==
  /\ main = "loop" /\ closing = [conn |-> Nobody, log |-> Nobody]
  /\ perf_loggers = [f \in Fds |-> Nobody] /\ mistaken = {}
  /\ fd = [c \in Conns |-> Closed]
  /\ joined = [c \in Conns |-> 0] /\ subs = [c \in Conns |-> <<>>]
  /\ pc = [c \in Conns |-> "none"] /\ thread_run = [c \in Conns |-> FALSE]
  /\ loc = [c \in Conns |-> NoLocals]
  /\ subflows = [c \in Conns |-> [i \in Ids |-> <<>>]]
  /\ rows = [c \in Conns |-> [i \in Ids |-> NoRow]]
  /\ lock = Nobody

-----------------------------------------------------------------------------
(***************************************************************************)
(* The extension.  The kernel reports how many subflows there are and      *)
(* fills as many slots as the caller has room for; both functions go on to *)
(* the number reported.                                                    *)
(***************************************************************************)

\* The connections getsockopt finds behind descriptor number n: at most one.
\* With none, or with a socket that is not MPTCP, it fails and a RuntimeError
\* is raised.
Behind(n) == {d \in Conns \ Plain : n # Closed /\ fd[d] = n}

Slot(d, i) == IF i <= Slots THEN <<d, subs[d][i]>> ELSE Garbage

\* The id of the i-th subflow is made up: the index of the loop.
Id(i) == i - 1

get_subflow_tcp_info(d) == [i \in 1 .. Len(subs[d]) |-> [id |-> Id(i), of |-> Slot(d, i)]]

get_subflow_info(d) == [i \in 1 .. Len(subs[d]) |-> [id |-> Id(i), of |-> Slot(d, i)]]

\* The items get_subflow_info may leave NULL: the address family is unknown.
Unfilled(d) == {i \in 1 .. Len(subs[d]) : i > Slots}

\* Mutant: the addresses of the first subflow, whatever the id.
HasId_First(x, id) == x.id = 0

HasId(x, id) == x.id = id

\* list(filter(lambda x: x["id"] == sid, subflow_info)): the places of what is
\* left, and its [0].
Filter(d, id) == {i \in 1 .. Len(subs[d]) : HasId(get_subflow_info(d)[i], id)}
FirstLeft(d, id) == get_subflow_info(d)[Min(Filter(d, id))]

-----------------------------------------------------------------------------
(***************************************************************************)
(* _run_logger.                                                            *)
(***************************************************************************)
At(c, p) == main # "crashed" /\ pc[c] = p
Goto(c, p) == pc' = [pc EXCEPT ![c] = p]
Set(c, l) == loc' = [loc EXCEPT ![c] = l]
Registered(c) == \E f \in Fds : perf_loggers[f] = c

\* Mutant: a failed getsockopt is taken for a connection without subflows.
Raise_Swallow(c) == Goto(c, "while") /\ UNCHANGED loc

\* An exception ends _run_logger; nothing closes its database connection.
Raise(c) == Goto(c, "ended") /\ Set(c, NoLocals)

\* init_db: open the file and create the tables, unless the database is locked.
InitDb(c) ==
  /\ At(c, "init")
  /\ (Goto(c, "while") /\ UNCHANGED loc) \/ (lock # Nobody /\ Raise(c))
  /\ UNCHANGED <<server, kernel, thread_run, db>>

\* Mutant: the loop does not look at the flag.
Again_Always(c) == TRUE

Again(c) == thread_run[c]

\* The test of the while loop, and fileno(); a logger that was told to stop
\* closes its connection to the database and ends.
While(c) ==
  /\ At(c, "while")
  /\ \/ Again(c) /\ Goto(c, "tcp_info") /\ Set(c, [loc[c] EXCEPT !.sockfd = fd[c]])
     \/ ~Again(c) /\ Goto(c, "ended") /\ Set(c, NoLocals)
  /\ UNCHANGED <<server, kernel, thread_run, db>>

\* The for loop comes to the next subflow, with locals l: its id is looked up in
\* the cache, and fileno() called for get_subflow_info.  time.sleep ends the round.
Iterate(c, l) ==
  LET q == l.tcp_info IN
  \/ q = <<>> /\ Goto(c, "while") /\ Set(c, l)
  \/ q # <<>> /\ Head(q).id \in l.cache /\ Goto(c, "row_insert") /\ Set(c, l)
  \/ /\ q # <<>> /\ Head(q).id \notin l.cache /\ Goto(c, "info")
     /\ Set(c, [l EXCEPT !.sockfd = fd[c]])

TcpInfo(c) ==
  /\ At(c, "tcp_info")
  /\ \/ Behind(loc[c].sockfd) = {} /\ Raise(c)
     \/ \E d \in Behind(loc[c].sockfd) :
          Iterate(c, [loc[c] EXCEPT !.tcp_info = get_subflow_tcp_info(d), !.sockfd = Closed])
  /\ UNCHANGED <<server, kernel, thread_run, db>>

\* get_subflow_info, and [0] of what the filter leaves: an IndexError when the
\* subflow has gone meanwhile.  A NULL item ends the process.
SubflowInfo(c) ==
  LET n == loc[c].sockfd
      id == Head(loc[c].tcp_info).id IN
  /\ At(c, "info")
  /\ \/ Behind(n) = {} /\ Raise(c) /\ UNCHANGED main
     \/ \E d \in Behind(n) :
          \/ Unfilled(d) # {} /\ main' = "crashed" /\ UNCHANGED <<pc, loc>>
          \/ Filter(d, id) = {} /\ Raise(c) /\ UNCHANGED main
          \/ /\ Filter(d, id) # {} /\ Goto(c, "sub_insert") /\ UNCHANGED main
             /\ Set(c, [loc[c] EXCEPT !.sinfo = FirstLeft(d, id).of, !.sockfd = Closed])
  /\ UNCHANGED <<closing, perf_loggers, mistaken, kernel, thread_run, db>>

\* cursor.execute of an INSERT: it takes the write lock, or raises after waiting
\* for it.
Execute(c) ==
  /\ \/ /\ lock \in {Nobody, c} /\ lock' = c
        /\ \/ At(c, "sub_insert") /\ Goto(c, "sub_commit")
           \/ At(c, "row_insert") /\ Goto(c, "row_commit")
        /\ UNCHANGED loc
     \/ /\ lock \notin {Nobody, c} /\ UNCHANGED lock
        /\ At(c, "sub_insert") \/ At(c, "row_insert")
        /\ Raise(c)
  /\ UNCHANGED <<server, kernel, thread_run, subflows, rows>>

\* Mutant: insert_subflow_tcp_conn_info does not commit.
Unlock_SubflowsOnly(c) == IF pc[c] = "row_commit" THEN lock ELSE Nobody

Unlock(c) == Nobody

\* Mutant: the id is not entered in the cache.
Remember_Not(c, id) == loc[c].cache

Remember(c, id) == loc[c].cache \cup {id}

\* The commit of insert_subflow, and the entry in the cache.
CommitSubflow(c) ==
  LET id == Head(loc[c].tcp_info).id IN
  /\ At(c, "sub_commit")
  /\ subflows' = [subflows EXCEPT ![c][id] = Append(@, loc[c].sinfo)]
  /\ lock' = Unlock(c)
  /\ Goto(c, "row_insert")
  /\ Set(c, [loc[c] EXCEPT !.cache = Remember(c, id), !.sinfo = Garbage])
  /\ UNCHANGED <<server, kernel, thread_run, rows>>

\* The commit of insert_subflow_tcp_conn_info.
CommitRow(c) ==
  LET r == Head(loc[c].tcp_info) IN
  /\ At(c, "row_commit")
  /\ rows' = [rows EXCEPT ![c][r.id] = r.of]
  /\ lock' = Unlock(c)
  /\ Iterate(c, [loc[c] EXCEPT !.tcp_info = Tail(@)])
  /\ UNCHANGED <<server, kernel, thread_run, subflows>>

\* commit raises when the web UI reads for too long.  The transaction stays open
\* as long as the logger object lives, which perf_loggers refers to.
CommitFails(c) ==
  /\ At(c, "sub_commit") \/ At(c, "row_commit")
  /\ Raise(c)
  /\ lock' = IF Registered(c) THEN lock ELSE Nobody
  /\ UNCHANGED <<server, kernel, thread_run, subflows, rows>>

LoggerStep(c) ==
  \/ InitDb(c) \/ While(c) \/ TcpInfo(c) \/ SubflowInfo(c) \/ Execute(c)
  \/ CommitSubflow(c) \/ CommitRow(c) \/ CommitFails(c)

-----------------------------------------------------------------------------
(***************************************************************************)
(* The server's thread, as far as loggers are concerned.                   *)
(***************************************************************************)

\* handle_tlv_connect: a logger for the client just accepted.  The logger that
\* perf_loggers named under this number loses its last reference.
Start(c) ==
  /\ main = "loop" /\ pc[c] = "none" /\ \A d \in Conns : d < c => pc[d] # "none"
  /\ \E f \in Fds :
       /\ \A d \in Conns : fd[d] # f
       /\ fd' = [fd EXCEPT ![c] = f]
       /\ perf_loggers' = [perf_loggers EXCEPT ![f] = c]
       /\ lock' = IF lock # Nobody /\ lock = perf_loggers[f] /\ pc[lock] = "ended"
                  THEN Nobody ELSE lock
  /\ subs' = [subs EXCEPT ![c] = IF c \in Plain THEN <<>> ELSE <<1>>]
  /\ joined' = [joined EXCEPT ![c] = IF c \in Plain THEN 0 ELSE 1]
  /\ Goto(c, "init")
  /\ thread_run' = [thread_run EXCEPT ![c] = TRUE]
  /\ UNCHANGED <<main, closing, mistaken, loc, subflows, rows>>

\* cleanup_socket_pair finds a logger and tells it to stop: the client's own,
\* or, when the socket to the destination ended first and has the number of an
\* earlier client, the logger of that client.
Cleanup(c, l) ==
  /\ main = "loop" /\ fd[c] # Closed
  /\ l = c \/ \E f \in Fds : perf_loggers[f] = l /\ \A d \in Conns : fd[d] # f
  /\ main' = "join" /\ closing' = [conn |-> c, log |-> l]
  /\ thread_run' = [thread_run EXCEPT ![l] = FALSE]
  /\ mistaken' = IF l = c THEN mistaken ELSE mistaken \cup {c}
  /\ UNCHANGED <<perf_loggers, kernel, pc, loc, db>>

\* Mutant: stop() does not wait for the thread.
Ended_NotAwaited(l) == TRUE

Ended(l) == pc[l] = "ended"

\* The join of stop() returns, and the client's socket is closed.
Join ==
  /\ main = "join" /\ Ended(closing.log)
  /\ fd' = [fd EXCEPT ![closing.conn] = Closed]
  /\ main' = "loop" /\ closing' = [conn |-> Nobody, log |-> Nobody]
  /\ UNCHANGED <<perf_loggers, mistaken, joined, subs, pc, thread_run, loc, db>>

\* An exception of run_nonblocking: the interpreter waits for the loggers, which
\* nobody stops, before it calls __del__ and cleanup.
Die ==
  /\ main = "loop"
  /\ main' = "dead"
  /\ UNCHANGED <<closing, perf_loggers, mistaken, kernel, pc, thread_run, loc, db>>

\* cleanup closes the sockets; the process ends.
Exit ==
  /\ main = "dead" /\ \A c \in Conns : pc[c] \in {"none", "ended"}
  /\ main' = "exited"
  /\ fd' = [c \in Conns |-> Closed] /\ lock' = Nobody
  /\ UNCHANGED <<closing, perf_loggers, mistaken, joined, subs, pc, thread_run, loc,
                 subflows, rows>>

-----------------------------------------------------------------------------
(***************************************************************************)
(* The kernel.                                                             *)
(***************************************************************************)
\* Those that joined after the first, and those that left.
Changed(c) == (joined[c] - 1) + (joined[c] - Len(subs[c]))

SubflowJoins(c) ==
  /\ main # "crashed" /\ fd[c] # Closed /\ c \notin Plain /\ Changed(c) < Changes[c]
  /\ joined' = [joined EXCEPT ![c] = @ + 1]
  /\ subs' = [subs EXCEPT ![c] = Append(@, joined[c] + 1)]
  /\ UNCHANGED <<server, fd, pc, thread_run, loc, db>>

SubflowLeaves(c) ==
  /\ main # "crashed" /\ fd[c] # Closed /\ Changed(c) < Changes[c]
  /\ \E i \in 1 .. Len(subs[c]) : subs' = [subs EXCEPT ![c] = RemoveAt(@, i)]
  /\ UNCHANGED <<server, fd, joined, pc, thread_run, loc, db>>

Next ==
  \/ \E c \in Conns : \/ LoggerStep(c) \/ Start(c) \/ SubflowJoins(c) \/ SubflowLeaves(c)
                      \/ \E l \in Conns : Cleanup(c, l)
  \/ Join \/ Die \/ Exit

Spec == Init /\ [][Next]_vars

\* The operating system schedules the threads, and SQLite gives up waiting for a
\* lock after its timeout: no call of a logger lasts forever.
FairSpec == /\ Spec
            /\ \A c \in Conns : WF_vars(LoggerStep(c))
            /\ WF_vars(Join) /\ WF_vars(Exit)

-----------------------------------------------------------------------------
(***************************************************************************)
(* Properties.                                                             *)
(***************************************************************************)
\* A logger's thread, as the server knows it.
Thread(c) ==
  IF pc[c] = "none" THEN "none"
  ELSE IF pc[c] = "ended" \/ main = "crashed" THEN "ended"
  ELSE "running"

Life == INSTANCE LoggerLife WITH thread <- [c \in Conns |-> Thread(c)]

\* The logger keeps its part of the contract the server relies on: a logger
\* that is told to stop ends, whatever the kernel, the other loggers and the
\* database do, so that the join in cleanup_socket_pair returns.
LoggerContract == Life!FairSpec

\* Rows of tcp_conn_info under a client's iteration are measurements of that
\* client's connection, although getsockopt is given a number that may have
\* been handed out again since fileno(), unless the client was closed through
\* another's logger; a third subflow's row is read from behind the two slots.
RowsOwn ==
  \A c \in Conns \ mistaken, i \in Ids : LET r == rows[c][i] IN
    r = NoRow \/ r[1] = c \/ (r = Garbage /\ i >= Slots /\ joined[c] > Slots)

\* The addresses inserted under a subflow's id are those of the subflow its
\* rows measure, although ids are positions and come from two getsockopt calls,
\* as long as no subflow has left the connection.
AddressesMatch ==
  \A c \in Conns \ mistaken : Len(subs[c]) = joined[c] =>
    \A i \in Ids : rows[c][i] # NoRow /\ i < Slots => subflows[c][i] = <<rows[c][i]>>

\* The web UI plots what it finds by way of the table subflows: every row of
\* tcp_conn_info has its one row there, also when a logger dies between two
\* transactions.
SubflowOnce ==
  \A c \in Conns, i \in Ids :
    /\ Len(subflows[c][i]) <= 1
    /\ rows[c][i] # NoRow => Len(subflows[c][i]) = 1

\* A logger whose client was closed through another's logger, and which nobody
\* will ever stop, still ends: what getsockopt says of the descriptor, closed or
\* handed out again between fileno() and the call, does not keep it going.  A
\* client is served and closed once.
AbandonedEnds ==
  <>[](main = "crashed" \/ \A c \in Conns : fd[c] = Closed => pc[c] \in {"none", "ended"})

\* Only a logger that died in its commit keeps the database locked: while none
\* has, the lock is always let go of, and the other loggers get on.
LockReleased ==
  lock # Nobody ~> main = "crashed" \/ lock = Nobody \/ (lock # Nobody /\ pc[lock] = "ended")

\* cleanup does not call logger.stop, and does not run before the loggers have
\* ended: what keeps the process of a server whose loop has died is a logger
\* that can still measure its connection.
DeadServerExits ==
  main = "dead" ~> main # "dead" \/ \E c \in Conns : Behind(fd[c]) # {} /\ pc[c] # "ended"
=============================================================================

------------------------------ MODULE TCServer ------------------------------
(***************************************************************************)
(* The Transport Converter server (src/5GTC/main.py, with                  *)
(* read_convert_header of src/5GTC/pkg/convert.py and the start and stop   *)
(* of src/5GTC/pkg/performance_logger/logger.py).                          *)
(*                                                                         *)
(* One thread runs select over the listening socket and the sockets of     *)
(* the proxied pairs.  It accepts a client, reads its Convert header with  *)
(* blocking calls, connects to the destination, answers, and registers the *)
(* pair in inputs and forward_map; it forwards what it reads; it closes    *)
(* both sockets of a pair when one of them ends.  forward_map and          *)
(* perf_loggers are indexed by descriptor numbers, which the kernel hands  *)
(* out again after a close.  Each pair has a performance logger thread.    *)
(*                                                                         *)
(* A step of the server ends where it may block or where the network can   *)
(* make a difference to what follows.  An exception nobody catches ends    *)
(* run_nonblocking: pc = "dead".                                           *)
(***************************************************************************)
EXTENDS Integers, Sequences, SequencesExt

CONSTANTS
  Conns,     \* the clients, named 1, 2, ... in the order they connect
  Fds,       \* the descriptor numbers the process may use for these sockets
  Headers,   \* what a client may send of its Convert header: parts of Requests
  Resets,    \* the sockets whose other end may reset the connection
  Prompt,    \* the clients sure to send a Convert header and to read
  MaxData,   \* bound: chunks the other end of one socket sends
  BufCap     \* chunks a send may leave unread before it blocks

Closed == -1      \* the fileno() of a socket that is closed, or not yet there

ASSUME ServerAssumption ==
  /\ Conns \subseteq Nat \ {0}
  /\ Closed \notin Fds
  /\ Headers \subseteq {"frag", "head", "connect", "info", "bad"}
  /\ Resets \subseteq Conns \X {"client", "server"}
  /\ Prompt \subseteq Conns
  /\ MaxData \in Nat /\ BufCap \in Nat \ {0}

Socks == Conns \X {"client", "server"}
Listener == <<0, "listener">>
NoSock == <<0, "none">>
Client(c) == <<c, "client">>
Server(c) == <<c, "server">>
\* The far end of a proxied connection.
Other(s) == <<s[1], IF s[2] = "client" THEN "server" ELSE "client">>

NoLogger == 0

VARIABLES
  \* The server's thread.
  pc,            \* where it is
  todo,          \* the rest of readable
  cur,           \* the local variables cfd, sfd and perf_logger
  inputs,        \* self.inputs, without the listening socket
  forward_map,   \* self.forward_map
  perf_loggers,  \* self.perf_loggers, a logger named by its connection
  \* The logger threads.
  thread,        \* thread[c]: "none", "running" or "ended"
  thread_run,    \* thread_run[c]: the _thread_run flag
  \* The kernel and the network.
  phase,         \* phase[c]: how far connection c has come
  request,       \* request[c]: what client c has sent of its Convert header
  fd,            \* fd[s]: fileno() of socket s
  sent,          \* sent[s]: chunks the other end of s has sent
  got,           \* got[s]: how many of them the server has read
  out,           \* out[s]: what the server has written to s
  unread,        \* unread[s]: how much of it the other end has not read
  eof, rst       \* the other end of s has closed, has reset the connection

server == <<pc, todo, cur, inputs, forward_map, perf_loggers>>
loggers == <<thread, thread_run>>
network == <<phase, request, fd, sent, got, out, unread, eof, rst>>
vars == <<server, loggers, network>>

Pcs == {"select", "loop", "header", "tlvs", "connect", "reply", "register",
        "send", "join", "dead"}
Phases == {"idle", "backlog", "handling", "orphan", "open", "half", "closed"}
\* What has arrived of a Convert header: less than 4 bytes; its 4 bytes alone; a
\* header with a Connect TLV, with other TLVs only, or one that does not parse.
Requests == {"none", "frag", "head", "connect", "info", "bad"}
\* A chunk is named by the socket it came from and its place in the stream; the
\* empty Convert header the server answers with comes from no socket.
Chunks == Socks \X (1 .. MaxData)
Reply == <<NoSock, 0>>

TypeOK ==
  /\ pc \in Pcs
  /\ todo \subseteq Socks \cup {Listener}
  /\ cur \in [cfd : Socks \cup {NoSock}, sfd : Socks \cup {NoSock},
              perf : Conns \cup {NoLogger}]
  /\ inputs \subseteq Socks
  /\ forward_map \in [Fds -> Socks \cup {NoSock}]
  /\ perf_loggers \in [Fds -> Conns \cup {NoLogger}]
  /\ thread \in [Conns -> {"none", "running", "ended"}]
  /\ thread_run \in [Conns -> BOOLEAN]
  /\ phase \in [Conns -> Phases]
  /\ request \in [Conns -> Requests]
  /\ fd \in [Socks -> Fds \cup {Closed}]
  /\ sent \in [Socks -> 0 .. MaxData]
  /\ got \in [Socks -> 0 .. MaxData]
  /\ out \in [Socks -> Seq(Chunks \cup {Reply})]
  /\ unread \in [Socks -> 0 .. BufCap]
  /\ eof \in [Socks -> BOOLEAN]
  /\ rst \in [Socks -> BOOLEAN]

Idle == [cfd |-> NoSock, sfd |-> NoSock, perf |-> NoLogger]

Init ==
  /\ pc = "select" /\ todo = {} /\ cur = Idle /\ inputs = {}
  /\ forward_map = [f \in Fds |-> NoSock]
  /\ perf_loggers = [f \in Fds |-> NoLogger]
  /\ thread = [c \in Conns |-> "none"]
  /\ thread_run = [c \in Conns |-> FALSE]
  /\ phase = [c \in Conns |-> "idle"]
  /\ request = [c \in Conns |-> "none"]
  /\ fd = [s \in Socks |-> Closed]
  /\ sent = [s \in Socks |-> 0]
  /\ got = [s \in Socks |-> 0]
  /\ out = [s \in Socks |-> <<>>]
  /\ unread = [s \in Socks |-> 0]
  /\ eof = [s \in Socks |-> FALSE]
  /\ rst = [s \in Socks |-> FALSE]

-----------------------------------------------------------------------------
FreeFds == Fds \ {fd[s] : s \in Socks}

Readable(s) == got[s] < sent[s] \/ eof[s] \/ rst[s]

\* readable is in the order of inputs: the listening socket, then the pairs as
\* they were registered, the socket to the destination first.
Rank(s) == 2 * s[1] + (IF s[2] = "client" THEN 1 ELSE 0)
First(S) == CHOOSE s \in S : \A r \in S : Rank(s) <= Rank(r)

\* Nothing is said of what happens after the exception that ends the server.
Running == pc # "dead"

Die == pc' = "dead" /\ UNCHANGED <<todo, cur, inputs, forward_map, perf_loggers>>

\* handle_connection is over: back to the for loop.
Back == /\ pc' = "loop" /\ cur' = Idle
        /\ UNCHANGED <<todo, inputs, forward_map, perf_loggers>>

-----------------------------------------------------------------------------
(***************************************************************************)
(* run_nonblocking.                                                        *)
(***************************************************************************)

\* select.select raises ValueError when inputs holds a closed socket.
Select ==
  LET ready == {s \in inputs : Readable(s)}
                 \cup (IF \E c \in Conns : phase[c] = "backlog" THEN {Listener} ELSE {}) IN
  /\ pc = "select"
  /\ \/ /\ \E s \in inputs : fd[s] = Closed
        /\ Die
     \/ /\ \A s \in inputs : fd[s] # Closed
        /\ ready # {}
        /\ todo' = ready /\ pc' = "loop"
        /\ UNCHANGED <<cur, inputs, forward_map, perf_loggers>>
  /\ UNCHANGED <<loggers, network>>

\* The for loop is over.
EndLoop ==
  /\ pc = "loop" /\ todo = {}
  /\ pc' = "select"
  /\ UNCHANGED <<todo, cur, inputs, forward_map, perf_loggers, loggers, network>>

\* accept, then handle_connection.  accept raises OSError when the process has
\* no descriptor left.  Rebinding client_sock drops the last reference to a
\* client that was accepted before and never registered: it is closed.
Accept ==
  /\ pc = "loop" /\ todo # {} /\ First(todo) = Listener
  /\ \/ /\ FreeFds = {}
        /\ Die /\ UNCHANGED network
     \/ \E c \in Conns, f \in FreeFds :
          /\ phase[c] = "backlog" /\ \A d \in Conns : phase[d] = "backlog" => c <= d
          /\ fd' = [s \in Socks |-> IF s = Client(c) THEN f
                                    ELSE IF phase[s[1]] = "orphan" THEN Closed ELSE fd[s]]
          /\ phase' = [d \in Conns |-> IF d = c THEN "handling"
                                       ELSE IF phase[d] = "orphan" THEN "closed" ELSE phase[d]]
          /\ pc' = "header" /\ todo' = todo \ {Listener}
          /\ cur' = [Idle EXCEPT !.cfd = Client(c)]
          /\ UNCHANGED <<inputs, forward_map, perf_loggers,
                         request, sent, got, out, unread, eof, rst>>
  /\ UNCHANGED loggers

-----------------------------------------------------------------------------
(***************************************************************************)
(* handle_connection and handle_tlv_connect.                               *)
(***************************************************************************)

\* Mutant: run_nonblocking does not close a client that was not served.
Dropped_NotClient(c) == {Server(c)}

\* The sockets that go when client c is not served: its own is closed, the one to
\* the destination, if there is one, goes with its last reference.
Dropped(c) == {Client(c), Server(c)}

\* handle_connection returns false, by an exception or a missing header.
Refuse(c) ==
  /\ Back
  /\ fd' = [s \in Socks |-> IF s \in Dropped(c) THEN Closed ELSE fd[s]]
  /\ phase' = [phase EXCEPT ![c] = "closed"]
  /\ UNCHANGED <<request, sent, got, out, unread, eof, rst>>

\* read_convert_header: the first recv, of the 4 bytes of the header.
ReadHeader ==
  LET c == cur.cfd[1] IN
  /\ pc = "header"
  /\ \/ /\ \/ rst[Client(c)] \/ request[c] = "frag"
           \/ (request[c] = "none" /\ eof[Client(c)])
        /\ Refuse(c)
     \/ /\ ~rst[Client(c)] /\ request[c] \notin {"none", "frag"}
        /\ pc' = "tlvs"
        /\ UNCHANGED <<todo, cur, inputs, forward_map, perf_loggers, network>>
  /\ UNCHANGED loggers

\* read_convert_header: the recv of the TLVs, and the loop over them.  A client
\* that named no destination is neither registered nor closed.
ReadTlvs ==
  LET c == cur.cfd[1] IN
  /\ pc = "tlvs"
  /\ \/ /\ rst[Client(c)] \/ request[c] = "bad"
        /\ Refuse(c)
     \/ /\ ~rst[Client(c)]
        /\ request[c] = "info" \/ (request[c] = "head" /\ eof[Client(c)])
        /\ Back
        /\ phase' = [phase EXCEPT ![c] = "orphan"]
        /\ UNCHANGED <<request, fd, sent, got, out, unread, eof, rst>>
     \/ /\ ~rst[Client(c)] /\ request[c] = "connect"
        /\ pc' = "connect"
        /\ UNCHANGED <<todo, cur, inputs, forward_map, perf_loggers, network>>
  /\ UNCHANGED loggers

\* handle_tlv_connect: the socket to the destination, and its connect.  Without
\* a descriptor the call to socket raises; when connect fails the client is
\* closed and handle_connection returns True.  All three leave both closed.
ConnectServer ==
  LET c == cur.cfd[1] IN
  /\ pc = "connect"
  /\ \/ Refuse(c)
     \/ \E f \in FreeFds :
          /\ fd' = [fd EXCEPT ![Server(c)] = f]
          /\ pc' = "reply" /\ cur' = [cur EXCEPT !.sfd = Server(c)]
          /\ UNCHANGED <<todo, inputs, forward_map, perf_loggers,
                         phase, request, sent, got, out, unread, eof, rst>>
  /\ UNCHANGED loggers

\* Mutant: the client is not answered.
Answered_Not(c) == out[Client(c)]

Answered(c) == Append(out[Client(c)], Reply)

\* handle_tlv_connect: the empty Convert header for the client.
SendReply ==
  LET c == cur.cfd[1] IN
  /\ pc = "reply"
  /\ \/ /\ rst[Client(c)]
        /\ Refuse(c)
     \/ /\ ~rst[Client(c)]
        /\ out' = [out EXCEPT ![Client(c)] = Answered(c)]
        /\ unread' = [unread EXCEPT ![Client(c)] = @ + 1]
        /\ pc' = "register"
        /\ UNCHANGED <<todo, cur, inputs, forward_map, perf_loggers,
                       phase, request, fd, sent, got, eof, rst>>
  /\ UNCHANGED loggers

\* Mutant: run() starts the thread and leaves _thread_run as it is.
RunFlag_Unset(c) == thread_run

RunFlag(c) == [thread_run EXCEPT ![c] = TRUE]

\* handle_tlv_connect: register the pair and start its logger.  run() asks for
\* the peer's name first, and raises if the client has reset the connection:
\* the client is then closed, and stays in inputs and forward_map.
Register ==
  LET c == cur.cfd[1] IN
  /\ pc = "register"
  /\ inputs' = inputs \cup {Server(c), Client(c)}
  /\ forward_map' = [forward_map EXCEPT ![fd[Client(c)]] = Server(c),
                                        ![fd[Server(c)]] = Client(c)]
  /\ perf_loggers' = [perf_loggers EXCEPT ![fd[Client(c)]] = c]
  /\ pc' = "loop" /\ cur' = Idle /\ UNCHANGED todo
  /\ \/ /\ rst[Client(c)]
        /\ fd' = [fd EXCEPT ![Client(c)] = Closed]
        /\ phase' = [phase EXCEPT ![c] = "half"]
        /\ UNCHANGED loggers
     \/ /\ ~rst[Client(c)]
        /\ phase' = [phase EXCEPT ![c] = "open"]
        /\ thread' = [thread EXCEPT ![c] = "running"]
        /\ thread_run' = RunFlag(c)
        /\ UNCHANGED fd
  /\ UNCHANGED <<request, sent, got, out, unread, eof, rst>>

-----------------------------------------------------------------------------
(***************************************************************************)
(* read_and_forward and cleanup_socket_pair.                               *)
(***************************************************************************)
LoggerOf(f) == perf_loggers[f]

\* Mutant: the logger is looked up under the descriptor that ended only.
FindLogger_OneEnd(s, p) == LoggerOf(fd[s])

\* perf_loggers.get(cfd.fileno()) or perf_loggers.get(sfd.fileno())
FindLogger(s, p) ==
  IF LoggerOf(fd[s]) # NoLogger THEN LoggerOf(fd[s]) ELSE LoggerOf(fd[p])

\* Mutant: the other socket of the pair stays in inputs.
WithoutPair_One(s, p) == inputs \ {s}

WithoutPair(s, p) == inputs \ {s, p}

\* Mutant: the other socket's entry stays in forward_map.
Unmapped_One(s, p) == [forward_map EXCEPT ![fd[s]] = NoSock]

Unmapped(s, p) == [forward_map EXCEPT ![fd[s]] = NoSock, ![fd[p]] = NoSock]

\* Mutant: stop() joins the thread without telling it to end.
StopFlag_Not(l) == thread_run

\* stop() of logger l, if there is one.
StopFlag(l) == [c \in Conns |-> IF c = l THEN FALSE ELSE thread_run[c]]

\* cleanup_socket_pair, up to the join of stop().
Cleanup(s, p) ==
  /\ inputs' = WithoutPair(s, p)
  /\ forward_map' = Unmapped(s, p)
  /\ cur' = [cfd |-> s, sfd |-> p, perf |-> FindLogger(s, p)]
  /\ thread_run' = StopFlag(FindLogger(s, p))
  /\ pc' = "join" /\ todo' = todo \ {s}
  /\ UNCHANGED <<perf_loggers, thread, network>>

\* recv raises, or returns no data.
Ended(s) == rst[s] \/ got[s] = sent[s]

\* read_and_forward of the next readable socket.  A socket that was closed
\* after select returned has fileno() -1, which is no key of forward_map.
ReadAndForward ==
  LET s == First(todo)
      p == forward_map[fd[s]] IN
  /\ pc = "loop" /\ todo # {} /\ s # Listener
  /\ \/ /\ fd[s] = Closed
        /\ Die /\ UNCHANGED <<loggers, network>>
     \/ /\ fd[s] # Closed
        /\ Ended(s)
        /\ Cleanup(s, p)
     \/ /\ fd[s] # Closed
        /\ ~Ended(s)
        /\ got' = [got EXCEPT ![s] = @ + 1]
        /\ pc' = "send" /\ cur' = [cfd |-> s, sfd |-> p, perf |-> NoLogger]
        /\ todo' = todo \ {s}
        /\ UNCHANGED <<inputs, forward_map, perf_loggers, loggers,
                       phase, request, fd, sent, out, unread, eof, rst>>

\* Mutant: nothing is forwarded to an end that has closed its own direction.
Written_HalfOpen(p, x) == IF eof[p] THEN out[p] ELSE Append(out[p], x)

Written(p, x) == Append(out[p], x)

\* read_and_forward: the send to the other socket, which blocks when too much is
\* unread and raises, uncaught, when the connection was reset.
SendData ==
  LET p == cur.sfd IN
  /\ pc = "send"
  /\ \/ /\ rst[p]
        /\ Die /\ UNCHANGED network
     \/ /\ ~rst[p] /\ unread[p] < BufCap
        /\ out' = [out EXCEPT ![p] = Written(p, <<cur.cfd, got[cur.cfd]>>)]
        /\ unread' = [unread EXCEPT ![p] = @ + 1]
        /\ Back
        /\ UNCHANGED <<phase, request, fd, sent, got, eof, rst>>
  /\ UNCHANGED loggers

\* stop(): join returns once the thread has ended; then both sockets are closed.
Join ==
  /\ pc = "join"
  /\ cur.perf # NoLogger => thread[cur.perf] # "running"
  /\ fd' = [fd EXCEPT ![cur.cfd] = Closed, ![cur.sfd] = Closed]
  /\ phase' = [phase EXCEPT ![cur.cfd[1]] = "closed"]
  /\ Back
  /\ UNCHANGED <<loggers, request, sent, got, out, unread, eof, rst>>

-----------------------------------------------------------------------------
(***************************************************************************)
(* The logger threads.                                                     *)
(***************************************************************************)

\* _run_logger leaves its loop.
LoggerEnds(c) ==
  /\ Running /\ thread[c] = "running" /\ ~thread_run[c]
  /\ thread' = [thread EXCEPT ![c] = "ended"]
  /\ UNCHANGED <<thread_run, server, network>>

\* An exception of _run_logger: getsockopt fails, a subflow has vanished between
\* two calls, the database is locked.
LoggerFails(c) ==
  /\ Running /\ thread[c] = "running" /\ thread_run[c]
  /\ thread' = [thread EXCEPT ![c] = "ended"]
  /\ UNCHANGED <<thread_run, server, network>>

-----------------------------------------------------------------------------
(***************************************************************************)
(* The clients and the destinations.                                       *)
(***************************************************************************)
ClientConnects(c) ==
  /\ Running /\ phase[c] = "idle" /\ \A d \in Conns : d < c => phase[d] # "idle"
  /\ phase' = [phase EXCEPT ![c] = "backlog"]
  /\ UNCHANGED <<server, loggers, request, fd, sent, got, out, unread, eof, rst>>

\* The socket is connected at the other end.
Live(s) == /\ fd[s] # Closed \/ (s[2] = "client" /\ phase[s[1]] = "backlog")
           /\ ~eof[s] /\ ~rst[s]

ClientRequests(c) ==
  /\ Running /\ Live(Client(c))
  /\ \/ request[c] = "none" /\ \E r \in Headers :
          request' = [request EXCEPT ![c] = r]
     \/ request[c] = "head" /\ request' = [request EXCEPT ![c] = "connect"]
  /\ UNCHANGED <<server, loggers, phase, fd, sent, got, out, unread, eof, rst>>

\* A client sends data once it has read the Converter's answer.
PeerSends(s) ==
  /\ Running /\ Live(s) /\ sent[s] < MaxData
  /\ s[2] = "client" => unread[s] < Len(out[s])
  /\ sent' = [sent EXCEPT ![s] = @ + 1]
  /\ UNCHANGED <<server, loggers, phase, request, fd, got, out, unread, eof, rst>>

PeerReads(s) ==
  /\ Running /\ unread[s] > 0 /\ fd[s] # Closed
  /\ unread' = [unread EXCEPT ![s] = @ - 1]
  /\ UNCHANGED <<server, loggers, phase, request, fd, sent, got, out, eof, rst>>

PeerCloses(s) ==
  /\ Running /\ Live(s)
  /\ eof' = [eof EXCEPT ![s] = TRUE]
  /\ UNCHANGED <<server, loggers, phase, request, fd, sent, got, out, unread, rst>>

PeerResets(s) ==
  /\ Running /\ s \in Resets /\ fd[s] # Closed /\ ~rst[s]
  /\ rst' = [rst EXCEPT ![s] = TRUE]
  /\ UNCHANGED <<server, loggers, phase, request, fd, sent, got, out, unread, eof>>

-----------------------------------------------------------------------------
ServerStep ==
  \/ Select \/ EndLoop \/ Accept \/ ReadHeader \/ ReadTlvs \/ ConnectServer
  \/ SendReply \/ Register \/ ReadAndForward \/ SendData \/ Join

Next ==
  \/ ServerStep
  \/ \E c \in Conns : \/ LoggerEnds(c) \/ LoggerFails(c)
                      \/ ClientConnects(c) \/ ClientRequests(c)
  \/ \E s \in Socks : PeerSends(s) \/ PeerReads(s) \/ PeerCloses(s) \/ PeerResets(s)

Spec == Init /\ [][Next]_vars

\* The operating system schedules the threads; a prompt client sends the whole
\* of its header, and both ends of its connection read what they are sent.
Fairness ==
  /\ WF_vars(ServerStep)
  /\ \A c \in Conns : WF_vars(LoggerEnds(c))
  /\ \A c \in Prompt : /\ WF_vars(ClientRequests(c))
                       /\ WF_vars(PeerReads(Client(c)))
                       /\ WF_vars(PeerReads(Server(c)))

FairSpec == Spec /\ Fairness

-----------------------------------------------------------------------------
(***************************************************************************)
(* Properties.                                                             *)
(***************************************************************************)

\* What was written to s, without the Converter's answer.
Data(s) == IF s[2] = "client" /\ out[s] # <<>> THEN Tail(out[s]) ELSE out[s]
InHand(s) == IF pc = "send" /\ cur.cfd = s THEN 1 ELSE 0

\* read_and_forward delivers to each end what its own far end sent, in order,
\* after the Converter's answer, and loses nothing it has read while the server
\* runs: forward_map never leads a chunk to a connection that has taken over a
\* descriptor number.
StreamsIntact ==
  \A s \in Socks :
    LET d == Data(Other(s)) IN
    /\ \A i \in 1 .. Len(d) : d[i] = <<s, i>>
    /\ pc # "dead" => Len(d) + InHand(s) = got[s]
    /\ s[2] = "client" /\ out[s] # <<>> => out[s][1] = Reply

\* In the loop, inputs and forward_map describe the same open pairs, each socket
\* leading to its far end, after any series of registrations, clean-ups and
\* reused numbers; the one exception is a client that reset its connection
\* while it was being registered.
MapConsistent ==
  pc \in {"select", "loop"} /\ (\A c \in Conns : phase[c] # "half") =>
    /\ \A s \in inputs : /\ fd[s] # Closed /\ Other(s) \in inputs
                         /\ forward_map[fd[s]] = Other(s)
    /\ \A f \in Fds : forward_map[f] # NoSock => \E s \in inputs : fd[s] = f

\* Every way out of handle_connection and read_and_forward gives its
\* descriptors back: between two rounds, an open socket is in inputs or is the
\* last client accepted, which named no destination.
NoDescriptorLeak ==
  pc = "select" =>
    \A s \in Socks : fd[s] # Closed => s \in inputs \/ phase[s[1]] = "orphan"

\* An uncaught exception needs a reset connection, a process out of
\* descriptors, or a pair closed because one end had ended while the other was
\* readable too.
CrashNeedsCause ==
  pc = "dead" =>
    \/ \E s \in Socks : rst[s]
    \/ FreeFds = {}
    \/ \E s \in Socks : /\ phase[s[1]] = "closed" /\ Readable(s)
                        /\ eof[Other(s)] /\ got[Other(s)] = sent[Other(s)]

\* When a pair is closed its logger thread has ended, unless the socket to the
\* destination had the number of an earlier client: perf_loggers then leads
\* cleanup_socket_pair to the logger of that client.
LoggerStopped ==
  [][\A c \in Conns : phase[c] = "open" /\ phase'[c] = "closed" =>
       thread[c] # "running" \/ LoggerOf(fd[Server(c)]) # NoLogger]_vars

\* The server starts each logger once and stops no logger it has not started:
\* what the loggers take for granted when they promise that stop() returns.
Life == INSTANCE LoggerLife
LoggerContract == Life!Spec

\* The conversation with each client, as the server's state shows it.
HasAsked == [c \in Conns |-> request[c] \notin {"none", "frag", "head"}]
HasAnswer == [c \in Conns |-> IF Reply \in Range(out[Client(c)]) THEN "accept" ELSE "none"]
HasHeard == [c \in Conns |-> unread[Client(c)] < Len(out[Client(c)])]
HasSent == [c \in Conns |-> sent[Client(c)] > 0]
HasData == [c \in Conns |-> /\ unread[Client(c)] > 0 /\ out[Client(c)] # <<>>
                            /\ Last(out[Client(c)]) # Reply]
HasEnded == [c \in Conns |-> phase[c] \in {"half", "closed"}]

Talk == INSTANCE Conversation WITH
  asked <- HasAsked, answer <- HasAnswer, heard <- HasHeard,
  up <- HasSent, down <- HasData, over <- HasEnded

\* On every connection the server keeps the Converter's part of the protocol:
\* it answers a whole header, once, before the first byte of the destination,
\* and nothing reaches a client after its socket is closed.
ConverterContract == Talk!Spec

\* handle_connection found no Connect TLV: the client is neither answered nor
\* closed, and the loop does not look at it again.
Stranded(c) == phase[c] = "orphan" /\ request[c] # "connect"

Settled(c) == phase[c] \in {"open", "half", "closed"} \/ pc = "dead"

\* No blocking call of the loop lasts forever when the clients are prompt: a
\* client that connects is answered or turned away, unless the server dies, or
\* unless it named no destination and no other client comes after it.  Such a
\* client is left open and unanswered; only the next one to connect gets it closed.
ClientsServed ==
  \A c \in Conns : phase[c] = "backlog" ~>
    Settled(c) \/ [](Stranded(c) /\ \A d \in Conns : d > c => phase[d] = "idle")

\* main.py:169-172, "If the socket is closed, close the other socket and remove
\* them from the input list and forward map": closed sockets do not stop the
\* server, which has a branch for a pair already closed (lines 175-178).
SurvivesClosedSockets == pc # "dead"

\* main.py:80-81, "Run the server in a non-blocking manner. Each operation is
\* handled in a separate thread": one client's silence does not keep the server
\* from another.
PromptClientsServed ==
  \A c \in Prompt : phase[c] = "backlog" ~> Settled(c) \/ Stranded(c)
=============================================================================

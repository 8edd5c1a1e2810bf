--------------------------- MODULE TCServerProofs ---------------------------
(***************************************************************************)
(* Theorems about TCServer, for any clients, descriptor numbers, bounds on *)
(* the data and room in the sockets.                                       *)
(***************************************************************************)
EXTENDS TCServer, WellFoundedInduction, TLAPS

(***************************************************************************)
(* The inductive invariant.                                                *)
(***************************************************************************)

\* Where handle_connection is in progress.
Handling == {"header", "tlvs", "connect", "reply", "register"}

\* The sockets that have a descriptor, by how far their connection has come.
IsOpen(s) ==
  \/ phase[s[1]] = "open"
  \/ phase[s[1]] = "orphan" /\ s[2] = "client"
  \/ phase[s[1]] = "half" /\ s[2] = "server"
  \/ phase[s[1]] = "handling" /\ (s[2] = "client" \/ pc \in {"reply", "register"})
FdState == \A s \in Socks : fd[s] # Closed <=> IsOpen(s)

\* No two sockets share a number.
FdsApart == \A s, r \in Socks : fd[s] # Closed /\ fd[s] = fd[r] => s = r

\* The connection being handled is the one of cfd; there is an orphan only
\* between two calls of accept.
OneHandled ==
  /\ \A c \in Conns : phase[c] = "handling" <=> pc \in Handling /\ cur.cfd = Client(c)
  /\ pc \in Handling => \E c \in Conns : cur.cfd = Client(c)
  /\ pc \in Handling => Listener \notin todo /\ \A c \in Conns : phase[c] # "orphan"
  /\ \A c, d \in Conns : phase[c] = "orphan" /\ phase[d] = "orphan" => c = d
  /\ pc \in {"connect", "reply", "register"} => request[cur.cfd[1]] = "connect"

\* The pair whose data are in hand, or that is being closed, is a registered one.
OnePair ==
  pc \in {"send", "join"} =>
    /\ cur.cfd \in Socks /\ cur.sfd = Other(cur.cfd) /\ phase[cur.cfd[1]] = "open"
    /\ pc = "join" => cur.perf = FindLogger(cur.cfd, cur.sfd)

Leaving(c) == pc = "join" /\ cur.cfd[1] = c
InputsAre ==
  \A s \in Socks : s \in inputs <=> phase[s[1]] \in {"open", "half"} /\ ~Leaving(s[1])

\* forward_map leads each socket to its far end, and has no other entry unless a
\* client was reset while it was registered.
Mapped ==
  /\ \A s \in inputs : fd[s] # Closed => forward_map[fd[s]] = Other(s)
  /\ \A f \in Fds : forward_map[f] # NoSock =>
       (\E s \in inputs : fd[s] = f) \/ (\E c \in Conns : phase[c] = "half")

\* That s has nothing more to say.
Over(s) == rst[s] \/ (eof[s] /\ got[s] = sent[s])

\* What select returned is still readable; a socket that was closed since was
\* closed because its far end was over.
TodoReadable ==
  /\ \A s \in todo \ {Listener} :
       /\ phase[s[1]] \in {"open", "closed"} /\ Readable(s)
       /\ phase[s[1]] = "closed" => Over(Other(s))
  /\ pc = "join" => Over(cur.cfd) /\ cur.cfd \notin todo

\* A client that was reset while it was registered: select is next.
HalfIsLast ==
  \A c \in Conns : phase[c] = "half" =>
    rst[Client(c)] /\ Listener \notin todo /\ pc \notin Handling

\* perf_loggers names the logger of an open client under its number, and names
\* no logger that was not started, but for the client that was reset.
LoggersNamed ==
  /\ \A c \in Conns : phase[c] = "open" => perf_loggers[fd[Client(c)]] = c
  /\ \A c \in Conns : phase[c] \in {"idle", "backlog", "handling", "orphan", "half"} =>
       thread[c] = "none"
  /\ \A f \in Fds : perf_loggers[f] # NoLogger =>
       \/ thread[perf_loggers[f]] # "none"
       \/ phase[perf_loggers[f]] = "half" /\ \A s \in Socks : fd[s] # f

\* What was sent, read and written.
Streams ==
  /\ \A s \in Socks : got[s] <= sent[s] /\ unread[s] <= Len(out[s])
  /\ \A c \in Conns : phase[c] \in {"idle", "backlog", "orphan"} => out[Client(c)] = <<>>
  /\ \A c \in Conns : phase[c] = "handling" =>
       out[Client(c)] = IF pc = "register" THEN <<Reply>> ELSE <<>>
  /\ \A c \in Conns : phase[c] \in {"open", "half"} => out[Client(c)] # <<>>

IInv == /\ TypeOK /\ FdState /\ FdsApart /\ OneHandled /\ OnePair /\ InputsAre /\ Mapped
        /\ TodoReadable /\ HalfIsLast /\ LoggersNamed /\ Streams /\ StreamsIntact

-----------------------------------------------------------------------------
(***************************************************************************)
(* Sockets, their pairs, and the order in which they are served.           *)
(***************************************************************************)

\* A socket is one of the two of its connection.
LEMMA SockForm ==
  ASSUME NEW s \in Socks
  PROVE  /\ s[1] \in Conns /\ s = <<s[1], s[2]>> /\ s[2] \in {"client", "server"}
         /\ s = Client(s[1]) \/ s = Server(s[1])
         /\ s[2] = "client" <=> s = Client(s[1])
         /\ s # Listener /\ s # NoSock
BY ServerAssumption DEF Socks, Client, Server, Listener, NoSock

\* The two sockets of a connection.
LEMMA PairForm ==
  ASSUME NEW c \in Conns
  PROVE  /\ Client(c) \in Socks /\ Server(c) \in Socks /\ Client(c) # Server(c)
         /\ Client(c)[1] = c /\ Server(c)[1] = c
         /\ Client(c)[2] = "client" /\ Server(c)[2] = "server"
         /\ Other(Client(c)) = Server(c) /\ Other(Server(c)) = Client(c)
         /\ c # NoLogger
BY ServerAssumption DEF Socks, Client, Server, Other, NoLogger

\* The far end of the far end.
LEMMA OtherForm ==
  ASSUME NEW s \in Socks
  PROVE  /\ Other(s) \in Socks /\ Other(s)[1] = s[1] /\ Other(s) # s /\ Other(Other(s)) = s
         /\ \A r \in Socks : r[1] = s[1] => r = s \/ r = Other(s)
BY DEF Socks, Other

\* Sockets of different connections differ.
LEMMA ConnsApart ==
  ASSUME NEW c, NEW d, c # d
  PROVE  Client(c) # Client(d) /\ Server(c) # Server(d) /\ Client(c) # Server(d)
BY DEF Client, Server

\* The for loop has a next socket: the ranks are natural numbers.
LEMMA FirstExists ==
  ASSUME NEW S, S \subseteq Socks \cup {Listener}, S # {}
  PROVE  First(S) \in S
<1>. DEFINE T == {Rank(s) : s \in S}
<1>1. \A s \in S : Rank(s) \in Nat
  <2>1. Rank(Listener) = 0
    BY DEF Listener, Rank
  <2>2. ASSUME NEW s \in Socks  PROVE Rank(s) \in Nat
    <3>1. s[1] \in Nat
      BY SockForm, ServerAssumption
    <3>. QED  BY <3>1 DEF Rank
  <2>. QED  BY <2>1, <2>2
<1>2. T \subseteq Nat /\ T # {}
  BY <1>1
<1>3. PICK n \in T : \A m \in T : ~ (<<m, n>> \in OpToRel(<, Nat))
  BY <1>2, NatLessThanWellFounded, WFMin
<1>4. PICK s \in S : Rank(s) = n
  BY <1>3
<1>5. \A r \in S : Rank(s) <= Rank(r)
  <2>. TAKE r \in S
  <2>1. ~ (<<Rank(r), n>> \in OpToRel(<, Nat))
    BY <1>3
  <2>2. ~ (Rank(r) < n)
    BY <1>1, <1>4, <2>1 DEF OpToRel
  <2>. QED  BY <1>1, <1>4, <2>2
<1>. QED  BY <1>5 DEF First

(***************************************************************************)
(* Each part of the invariant, and what it depends on.                     *)
(***************************************************************************)
\* The descriptors follow phase and pc.
LEMMA KeepFdState ==
  ASSUME FdState, UNCHANGED <<fd, phase, pc>>
  PROVE  FdState'
BY DEF FdState, IsOpen

\* Numbers change with fd alone.
LEMMA KeepFdsApart ==
  ASSUME FdsApart, UNCHANGED fd
  PROVE  FdsApart'
BY DEF FdsApart

\* What handle_connection has in hand.
LEMMA KeepOneHandled ==
  ASSUME OneHandled, UNCHANGED <<phase, pc, cur, todo, request>>
  PROVE  OneHandled'
BY DEF OneHandled

\* What read_and_forward and cleanup_socket_pair have in hand.
LEMMA KeepOnePair ==
  ASSUME OnePair, UNCHANGED <<pc, cur, phase, perf_loggers, fd>>
  PROVE  OnePair'
BY DEF OnePair, FindLogger, LoggerOf

\* Inputs follow phase, but for the pair that is being closed.
LEMMA KeepInputs ==
  ASSUME InputsAre, UNCHANGED <<inputs, phase, pc, cur>>
  PROVE  InputsAre'
BY DEF InputsAre, Leaving

\* The entries of forward_map.
LEMMA KeepMapped ==
  ASSUME Mapped, UNCHANGED <<inputs, fd, forward_map, phase>>
  PROVE  Mapped'
BY DEF Mapped

\* What select returned.
LEMMA KeepTodo ==
  ASSUME TodoReadable, UNCHANGED <<todo, phase, got, sent, eof, rst, pc, cur>>
  PROVE  TodoReadable'
BY DEF TodoReadable, Readable, Over

\* The client that was reset while it was registered.
LEMMA KeepHalf ==
  ASSUME HalfIsLast, UNCHANGED <<phase, rst, todo, pc>>
  PROVE  HalfIsLast'
BY DEF HalfIsLast

\* The entries of perf_loggers.
LEMMA KeepLoggers ==
  ASSUME LoggersNamed, UNCHANGED <<phase, perf_loggers, fd, thread>>
  PROVE  LoggersNamed'
BY DEF LoggersNamed

\* The lengths of the streams.
LEMMA KeepStreams ==
  ASSUME Streams, UNCHANGED <<got, sent, unread, out, phase, pc>>
  PROVE  Streams'
BY DEF Streams

\* The contents of the streams.
LEMMA KeepIntact ==
  ASSUME StreamsIntact, UNCHANGED <<out, pc, cur, got>>
  PROVE  StreamsIntact'
BY DEF StreamsIntact, Data, InHand

\* The contents of the streams, while nothing is in hand.
LEMMA KeepIntactIdle ==
  ASSUME StreamsIntact, UNCHANGED <<out, got>>, pc # "send", pc' # "send", pc # "dead"
  PROVE  StreamsIntact'
<1>1. \A s : Data(s)' = Data(s) /\ InHand(s)' = InHand(s)
  BY DEF Data, InHand
<1>. QED  BY <1>1 DEF StreamsIntact

\* The initial state satisfies the invariant.
LEMMA InvInit == Init => IInv
<1>. SUFFICES ASSUME Init  PROVE IInv
  OBVIOUS
<1>1. TypeOK
  <2>1. Idle \in [cfd : Socks \cup {NoSock}, sfd : Socks \cup {NoSock}, perf : Conns \cup {NoLogger}]
    BY DEF Idle
  <2>. QED  BY <2>1, ServerAssumption DEF Init, TypeOK, Pcs, Phases, Requests
<1>2. FdState
  <2>1. \A s \in Socks : s[1] \in Conns
    BY SockForm
  <2>. QED  BY <2>1 DEF Init, FdState, IsOpen
<1>3. FdsApart /\ OneHandled /\ OnePair
  BY DEF Init, FdsApart, OneHandled, OnePair, Handling
<1>4. InputsAre
  <2>1. \A s \in Socks : s[1] \in Conns
    BY SockForm
  <2>. QED  BY <2>1 DEF Init, InputsAre
<1>5. Mapped /\ TodoReadable /\ HalfIsLast /\ LoggersNamed
  BY DEF Init, Mapped, TodoReadable, HalfIsLast, LoggersNamed
<1>6. Streams
  <2>1. \A c \in Conns : Client(c) \in Socks
    BY PairForm
  <2>. QED  BY <2>1 DEF Init, Streams
<1>7. StreamsIntact
  <2>. SUFFICES ASSUME NEW s \in Socks
                PROVE  /\ Data(Other(s)) = <<>> /\ InHand(s) = 0 /\ got[s] = 0 /\ out[s] = <<>>
    BY DEF StreamsIntact
  <2>1. Other(s) \in Socks
    BY OtherForm
  <2>. QED  BY <2>1 DEF Init, Data, InHand
<1>. QED  BY <1>1, <1>2, <1>3, <1>4, <1>5, <1>6, <1>7 DEF IInv

-----------------------------------------------------------------------------
(***************************************************************************)
(* The steps of the loggers, the clients and the destinations.             *)
(***************************************************************************)

\* A logger thread that ends was started.
LEMMA LoggerInv ==
  ASSUME IInv, NEW c \in Conns, LoggerEnds(c) \/ LoggerFails(c)
  PROVE  IInv'
<1>1. /\ thread[c] = "running" /\ thread' = [thread EXCEPT ![c] = "ended"]
      /\ UNCHANGED <<thread_run, server, network>>
  BY DEF LoggerEnds, LoggerFails
<1>2. TypeOK'
  BY <1>1 DEF IInv, TypeOK, server, network
<1>3. \A d \in Conns : thread'[d] = "none" <=> thread[d] = "none"
  BY <1>1 DEF IInv, TypeOK
<1>4. LoggersNamed'
  <2>1. UNCHANGED <<phase, perf_loggers, fd>>
    BY <1>1 DEF server, network
  <2>2. \A f \in Fds : perf_loggers[f] # NoLogger => perf_loggers[f] \in Conns
    BY DEF IInv, TypeOK
  <2>. QED  BY <1>3, <2>1, <2>2 DEF IInv, LoggersNamed
<1>. QED  BY <1>1, <1>2, <1>4, KeepFdState, KeepFdsApart, KeepOneHandled, KeepOnePair, KeepInputs,
             KeepMapped, KeepTodo, KeepHalf, KeepStreams, KeepIntact DEF IInv, server, network

\* A connection in the backlog has no socket yet.
LEMMA ConnectsInv ==
  ASSUME IInv, NEW c \in Conns, ClientConnects(c)
  PROVE  IInv'
<1>1. /\ phase[c] = "idle" /\ phase' = [phase EXCEPT ![c] = "backlog"]
      /\ UNCHANGED <<server, loggers, request, fd, sent, got, out, unread, eof, rst>>
  BY DEF ClientConnects
<1>2. TypeOK'
  BY <1>1 DEF IInv, TypeOK, server, loggers, Phases
<1>3. \A d \in Conns : /\ phase'[d] = phase[d] \/ (d = c /\ phase'[d] = "backlog")
  BY <1>1 DEF IInv, TypeOK
<1>4. FdState'
  <2>1. \A s \in Socks : s[1] \in Conns
    BY SockForm
  <2>. QED  BY <1>1, <1>3, <2>1 DEF IInv, FdState, IsOpen, server
<1>5. OneHandled'
  BY <1>1, <1>3 DEF IInv, OneHandled, server
<1>6. OnePair'
  <2>1. cur.cfd \in Socks => cur.cfd[1] \in Conns
    BY SockForm
  <2>. QED  BY <1>1, <1>3, <2>1 DEF IInv, OnePair, FindLogger, LoggerOf, server
<1>7. InputsAre'
  <2>1. \A s \in Socks : s[1] \in Conns
    BY SockForm
  <2>. QED  BY <1>1, <1>3, <2>1 DEF IInv, InputsAre, Leaving, server
<1>8. Mapped'
  BY <1>1, <1>3 DEF IInv, Mapped, server
<1>9. TodoReadable'
  <2>1. \A s \in todo \ {Listener} : s \in Socks /\ s[1] \in Conns
    BY SockForm DEF IInv, TypeOK
  <2>. QED  BY <1>1, <1>3, <2>1 DEF IInv, TodoReadable, Readable, Over, server
<1>10. HalfIsLast'
  BY <1>1, <1>3 DEF IInv, HalfIsLast, server
<1>11. LoggersNamed'
  <2>1. \A f \in Fds : perf_loggers[f] # NoLogger => perf_loggers[f] \in Conns
    BY DEF IInv, TypeOK
  <2>. QED  BY <1>1, <1>3, <2>1 DEF IInv, LoggersNamed, server, loggers
<1>12. Streams'
  BY <1>1, <1>3 DEF IInv, Streams, server
<1>. QED  BY <1>1, <1>2, <1>4, <1>5, <1>6, <1>7, <1>8, <1>9, <1>10, <1>11, <1>12, KeepFdsApart,
             KeepIntact DEF IInv, server

\* A request that names a destination is not taken back.
LEMMA RequestsInv ==
  ASSUME IInv, NEW c \in Conns, ClientRequests(c)
  PROVE  IInv'
<1>1. /\ request[c] \in {"none", "head"}
      /\ \E r \in Headers \cup {"connect"} : request' = [request EXCEPT ![c] = r]
      /\ UNCHANGED <<server, loggers, phase, fd, sent, got, out, unread, eof, rst>>
  BY DEF ClientRequests
<1>2. TypeOK'
  <2>1. request' \in [Conns -> Requests]
    BY <1>1, ServerAssumption DEF IInv, TypeOK, Requests
  <2>. QED  BY <1>1, <2>1 DEF IInv, TypeOK, server, loggers
<1>3. \A d \in Conns : request[d] = "connect" => request'[d] = "connect"
  <2>1. request \in [Conns -> Requests]
    BY DEF IInv, TypeOK
  <2>2. \A d \in Conns : d # c => request'[d] = request[d]
    BY <1>1, <2>1
  <2>. QED  BY <1>1, <2>2
<1>4. OneHandled'
  <2>1. pc \in Handling => cur.cfd[1] \in Conns
    BY PairForm DEF IInv, OneHandled
  <2>2. UNCHANGED <<pc, cur, todo, phase>>
    BY <1>1 DEF server
  <2>. QED  BY <1>3, <2>1, <2>2 DEF IInv, OneHandled, Handling
<1>. QED  BY <1>1, <1>2, <1>4, KeepFdState, KeepFdsApart, KeepOnePair, KeepInputs, KeepMapped,
             KeepTodo, KeepHalf, KeepLoggers, KeepStreams, KeepIntact DEF IInv, server, loggers

\* More data, while the other end is not over.
LEMMA SendsInv ==
  ASSUME IInv, NEW s \in Socks, PeerSends(s)
  PROVE  IInv'
<1>1. /\ ~eof[s] /\ ~rst[s] /\ sent[s] < MaxData /\ sent' = [sent EXCEPT ![s] = @ + 1]
      /\ UNCHANGED <<server, loggers, phase, request, fd, got, out, unread, eof, rst>>
  BY DEF PeerSends, Live
<1>2. /\ sent \in [Socks -> 0 .. MaxData] /\ got \in [Socks -> 0 .. MaxData] /\ MaxData \in Nat
      /\ sent'[s] = sent[s] + 1 /\ \A r \in Socks : r # s => sent'[r] = sent[r]
  BY <1>1, ServerAssumption DEF IInv, TypeOK
<1>3. TypeOK'
  <2>1. sent' \in [Socks -> 0 .. MaxData]
    BY <1>1, <1>2
  <2>. QED  BY <1>1, <2>1 DEF IInv, TypeOK, server, loggers
<1>4. \A r \in Socks : (Readable(r) => Readable(r)') /\ (Over(r) => Over(r)')
  BY <1>1, <1>2 DEF Readable, Over
<1>5. TodoReadable'
  <2>1. \A r \in todo \ {Listener} : r \in Socks /\ Other(r) \in Socks
    BY OtherForm DEF IInv, TypeOK
  <2>2. pc = "join" => cur.cfd \in Socks
    BY DEF IInv, OnePair
  <2>3. UNCHANGED <<pc, cur, todo, phase>>
    BY <1>1 DEF server
  <2>. QED  BY <1>4, <2>1, <2>2, <2>3 DEF IInv, TodoReadable
<1>6. Streams'
  <2>1. UNCHANGED <<pc, phase, out, unread, got>>
    BY <1>1 DEF server
  <2>2. \A r \in Socks : got[r] <= sent'[r]
    BY <1>2 DEF IInv, Streams
  <2>. QED  BY <2>1, <2>2 DEF IInv, Streams
<1>. QED  BY <1>1, <1>3, <1>5, <1>6, KeepFdState, KeepFdsApart, KeepOneHandled, KeepOnePair,
             KeepInputs, KeepMapped, KeepHalf, KeepLoggers, KeepIntact DEF IInv, server, loggers

\* The other end reads.
LEMMA ReadsInv ==
  ASSUME IInv, NEW s \in Socks, PeerReads(s)
  PROVE  IInv'
<1>1. /\ unread[s] > 0 /\ unread' = [unread EXCEPT ![s] = @ - 1]
      /\ UNCHANGED <<server, loggers, phase, request, fd, sent, got, out, eof, rst>>
  BY DEF PeerReads
<1>2. unread \in [Socks -> 0 .. BufCap] /\ BufCap \in Nat
  BY ServerAssumption DEF IInv, TypeOK
<1>3. unread'[s] = unread[s] - 1 /\ \A r \in Socks : r # s => unread'[r] = unread[r]
  BY <1>1, <1>2
<1>4. TypeOK'
  <2>1. unread' \in [Socks -> 0 .. BufCap]
    BY <1>1, <1>2
  <2>. QED  BY <1>1, <2>1 DEF IInv, TypeOK, server, loggers
<1>5. Streams'
  <2>1. \A r \in Socks : out[r] \in Seq(Chunks \cup {Reply}) /\ Len(out[r]) \in Nat
    BY DEF IInv, TypeOK
  <2>2. \A r \in Socks : unread'[r] <= Len(out[r])
    BY <1>2, <1>3, <2>1 DEF IInv, Streams
  <2>3. UNCHANGED <<pc, phase, out, sent, got>>
    BY <1>1 DEF server
  <2>. QED  BY <2>2, <2>3 DEF IInv, Streams
<1>. QED  BY <1>1, <1>4, <1>5, KeepFdState, KeepFdsApart, KeepOneHandled, KeepOnePair,
             KeepInputs, KeepMapped, KeepTodo, KeepHalf, KeepLoggers, KeepIntact
          DEF IInv, server, loggers

\* The other end closes, or resets the connection.
LEMMA EndsInv ==
  ASSUME IInv, NEW s \in Socks, PeerCloses(s) \/ PeerResets(s)
  PROVE  IInv'
<1>1. /\ \/ eof' = [eof EXCEPT ![s] = TRUE] /\ UNCHANGED rst
         \/ rst' = [rst EXCEPT ![s] = TRUE] /\ UNCHANGED eof
      /\ UNCHANGED <<server, loggers, phase, request, fd, sent, got, out, unread>>
  BY DEF PeerCloses, PeerResets
<1>2. TypeOK'
  <2>1. eof' \in [Socks -> BOOLEAN] /\ rst' \in [Socks -> BOOLEAN]
    BY <1>1 DEF IInv, TypeOK
  <2>. QED  BY <1>1, <2>1 DEF IInv, TypeOK, server, loggers
<1>3. \A r \in Socks : (eof[r] => eof'[r]) /\ (rst[r] => rst'[r])
  BY <1>1 DEF IInv, TypeOK
<1>4. \A r \in Socks : (Readable(r) => Readable(r)') /\ (Over(r) => Over(r)')
  BY <1>1, <1>3 DEF Readable, Over
<1>5. TodoReadable'
  <2>1. \A r \in todo \ {Listener} : r \in Socks /\ Other(r) \in Socks
    BY OtherForm DEF IInv, TypeOK
  <2>2. pc = "join" => cur.cfd \in Socks
    BY DEF IInv, OnePair
  <2>3. UNCHANGED <<pc, cur, todo, phase>>
    BY <1>1 DEF server
  <2>. QED  BY <1>4, <2>1, <2>2, <2>3 DEF IInv, TodoReadable
<1>6. HalfIsLast'
  <2>1. \A c \in Conns : Client(c) \in Socks
    BY PairForm
  <2>2. UNCHANGED <<pc, todo, phase>>
    BY <1>1 DEF server
  <2>. QED  BY <1>3, <2>1, <2>2 DEF IInv, HalfIsLast
<1>. QED  BY <1>1, <1>2, <1>5, <1>6, KeepFdState, KeepFdsApart, KeepOneHandled, KeepOnePair,
             KeepInputs, KeepMapped, KeepLoggers, KeepStreams, KeepIntact DEF IInv, server, loggers

-----------------------------------------------------------------------------
(***************************************************************************)
(* The steps of run_nonblocking.                                           *)
(***************************************************************************)

\* A step between two sockets of the loop, or the exception that ends it,
\* changes what is left to do and nothing else.
LEMMA LoopInv ==
  ASSUME IInv, pc \in {"select", "loop", "send"}, pc' \in {"select", "loop", "dead"},
         pc = "send" => pc' = "dead", todo' \subseteq Socks \cup {Listener}, TodoReadable',
         Listener \in todo' => \A c \in Conns : phase[c] # "half",
         UNCHANGED <<cur, inputs, forward_map, perf_loggers, loggers, network>>
  PROVE  IInv'
<1>1. UNCHANGED <<cur, inputs, forward_map, perf_loggers, thread, thread_run, phase, request, fd,
                  sent, got, out, unread, eof, rst>>
  BY DEF loggers, network
<1>2. TypeOK'
  BY <1>1 DEF IInv, TypeOK, Pcs
<1>3. FdState'
  BY <1>1 DEF IInv, FdState, IsOpen
<1>4. OneHandled'
  BY <1>1 DEF IInv, OneHandled, Handling
<1>5. OnePair'
  BY <1>1 DEF OnePair
<1>6. InputsAre'
  BY <1>1 DEF IInv, InputsAre, Leaving
<1>7. HalfIsLast'
  BY <1>1 DEF IInv, HalfIsLast, Handling
<1>8. Streams'
  BY <1>1 DEF IInv, Streams
<1>9. StreamsIntact'
  <2>1. \A s \in Socks : Data(s)' = Data(s) /\ (pc' # "dead" => InHand(s)' = InHand(s))
    BY <1>1 DEF Data, InHand
  <2>2. \A s \in Socks : Other(s) \in Socks
    BY OtherForm
  <2>3. pc' # "dead" => pc # "dead"
    OBVIOUS
  <2>. QED  BY <1>1, <2>1, <2>2, <2>3 DEF IInv, StreamsIntact
<1>. QED  BY <1>1, <1>2, <1>3, <1>4, <1>5, <1>6, <1>7, <1>8, <1>9, KeepFdsApart, KeepMapped,
             KeepLoggers DEF IInv

\* The exception that ends the server.
LEMMA DieInv ==
  ASSUME IInv, pc \in {"select", "loop", "send"}, Die, UNCHANGED <<loggers, network>>
  PROVE  IInv'
<1>1. UNCHANGED <<todo, cur, inputs, forward_map, perf_loggers>> /\ pc' = "dead"
  BY DEF Die
<1>2. TodoReadable'
  BY <1>1 DEF IInv, TodoReadable, Readable, Over, network
<1>3. Listener \in todo' => \A c \in Conns : phase[c] # "half"
  BY <1>1 DEF IInv, HalfIsLast
<1>. QED  BY <1>1, <1>2, <1>3, LoopInv DEF IInv, TypeOK

\* What select returns is readable and belongs to an open pair.
LEMMA SelectInv ==
  ASSUME IInv, Select
  PROVE  IInv'
<1>1. CASE Die
  BY <1>1, DieInv DEF Select
<1>2. CASE ~ Die
  <2>1. /\ pc = "select" /\ pc' = "loop" /\ \A s \in inputs : fd[s] # Closed
        /\ todo' \subseteq {s \in inputs : Readable(s)} \cup {Listener}
        /\ UNCHANGED <<cur, inputs, forward_map, perf_loggers, loggers, network>>
    BY <1>2 DEF Select
  <2>2. ASSUME NEW c \in Conns  PROVE phase[c] # "half"
    <3>1. phase[c] = "half" => Client(c) \in inputs
      BY <2>1, PairForm DEF IInv, InputsAre, Leaving
    <3>2. phase[c] = "half" => fd[Client(c)] = Closed
      BY PairForm DEF IInv, FdState, IsOpen
    <3>. QED  BY <2>1, <3>1, <3>2
  <2>3. todo' \subseteq Socks \cup {Listener}
    BY <2>1 DEF IInv, TypeOK
  <2>4. TodoReadable'
    <3>. SUFFICES ASSUME NEW s \in todo' \ {Listener}
                  PROVE  phase[s[1]] = "open" /\ Readable(s)
      BY <2>1 DEF TodoReadable, Readable, network
    <3>1. s \in inputs /\ s \in Socks /\ Readable(s)
      BY <2>1 DEF IInv, TypeOK
    <3>2. s[1] \in Conns
      BY <3>1, SockForm
    <3>. QED  BY <2>2, <3>1, <3>2 DEF IInv, InputsAre
  <2>. QED  BY <2>1, <2>2, <2>3, <2>4, LoopInv
<1>. QED  BY <1>1, <1>2

\* The for loop is over.
LEMMA EndLoopInv ==
  ASSUME IInv, EndLoop
  PROVE  IInv'
<1>1. /\ pc = "loop" /\ todo = {} /\ pc' = "select"
      /\ UNCHANGED <<todo, cur, inputs, forward_map, perf_loggers, loggers, network>>
  BY DEF EndLoop
<1>2. TodoReadable' /\ Listener \notin todo' /\ todo' \subseteq Socks \cup {Listener}
  BY <1>1 DEF TodoReadable
<1>. QED  BY <1>1, <1>2, LoopInv

\* The client accepted takes a number that nothing has; the last orphan goes.
LEMMA AcceptInv ==
  ASSUME IInv, Accept
  PROVE  IInv'
<1>1. CASE Die
  <2>1. UNCHANGED network /\ UNCHANGED loggers /\ pc = "loop"
    BY <1>1 DEF Accept, Die
  <2>. QED  BY <1>1, <2>1, DieInv
<1>2. CASE ~ Die
  <2>1. PICK c \in Conns, f \in FreeFds :
          /\ phase[c] = "backlog"
          /\ fd' = [s \in Socks |-> IF s = Client(c) THEN f
                                    ELSE IF phase[s[1]] = "orphan" THEN Closed ELSE fd[s]]
          /\ phase' = [d \in Conns |-> IF d = c THEN "handling"
                                       ELSE IF phase[d] = "orphan" THEN "closed" ELSE phase[d]]
          /\ pc' = "header" /\ todo' = todo \ {Listener}
          /\ cur' = [Idle EXCEPT !.cfd = Client(c)]
          /\ UNCHANGED <<inputs, forward_map, perf_loggers,
                         request, sent, got, out, unread, eof, rst>>
    BY <1>2 DEF Accept
  <2>2. /\ pc = "loop" /\ Listener \in todo /\ UNCHANGED <<thread, thread_run>>
    BY FirstExists DEF Accept, loggers, IInv, TypeOK
  <2>3. f \in Fds /\ f # Closed /\ \A s \in Socks : fd[s] # f
    BY ServerAssumption DEF FreeFds
  <2>4. /\ Client(c) \in Socks /\ Server(c) \in Socks /\ Client(c) # Server(c)
        /\ \A s \in Socks : s[1] \in Conns /\ (s = Client(s[1]) \/ s = Server(s[1]))
        /\ \A s \in Socks : s[2] = "client" <=> s = Client(s[1])
    BY PairForm, SockForm
  <2>5. cur' = [cfd |-> Client(c), sfd |-> NoSock, perf |-> NoLogger]
    BY <2>1 DEF Idle
  <2>6. \A d \in Conns : phase[d] # "half"
    BY <2>2 DEF IInv, HalfIsLast
  <2>7. TypeOK'
    <3>1. fd' \in [Socks -> Fds \cup {Closed}] /\ phase' \in [Conns -> Phases]
      BY <2>1, <2>3, <2>4 DEF IInv, TypeOK, Phases
    <3>2. cur' \in [cfd : Socks \cup {NoSock}, sfd : Socks \cup {NoSock}, perf : Conns \cup {NoLogger}]
      BY <2>4, <2>5
    <3>3. todo' \subseteq Socks \cup {Listener} /\ pc' \in Pcs
      BY <2>1 DEF IInv, TypeOK, Pcs
    <3>. QED  BY <2>1, <2>2, <3>1, <3>2, <3>3 DEF IInv, TypeOK
  <2>8. FdState'
    <3>. SUFFICES ASSUME NEW s \in Socks  PROVE fd'[s] # Closed <=> IsOpen(s)'
      BY DEF FdState
    <3>1. fd[s] # Closed <=> IsOpen(s)
      BY DEF IInv, FdState
    <3>2. CASE s[1] = c
      <4>1. fd[s] = Closed
        BY <2>1, <3>1, <3>2 DEF IsOpen
      <4>2. phase'[s[1]] = "handling" /\ fd'[s] = IF s = Client(c) THEN f ELSE Closed
        BY <2>1, <3>2, <4>1
      <4>. QED  BY <2>1, <2>3, <2>4, <3>2, <4>2 DEF IsOpen
    <3>3. CASE s[1] # c
      <4>1. s # Client(c) /\ s[1] \in Conns
        BY <2>4, <3>3, PairForm
      <4>2. phase[s[1]] # "handling"
        BY <2>2, <4>1 DEF IInv, OneHandled, Handling
      <4>3. /\ fd'[s] = IF phase[s[1]] = "orphan" THEN Closed ELSE fd[s]
            /\ phase'[s[1]] = IF phase[s[1]] = "orphan" THEN "closed" ELSE phase[s[1]]
        BY <2>1, <3>3, <4>1
      <4>. QED  BY <3>1, <4>2, <4>3 DEF IsOpen
    <3>. QED  BY <3>2, <3>3
  <2>9. FdsApart'
    <3>. SUFFICES ASSUME NEW s \in Socks, NEW r \in Socks, fd'[s] # Closed, fd'[s] = fd'[r]
                  PROVE  s = r
      BY DEF FdsApart
    <3>. QED  BY <2>1, <2>3 DEF IInv, FdsApart
  <2>10. OneHandled'
    <3>1. \A d \in Conns : phase[d] # "handling"
      BY <2>2 DEF IInv, OneHandled, Handling
    <3>2. \A d \in Conns : d # c => Client(d) # Client(c)
      BY ConnsApart
    <3>3. \A d \in Conns : phase'[d] # "orphan" /\ (phase'[d] = "handling" <=> d = c)
      BY <2>1, <3>1
    <3>. QED  BY <2>1, <2>5, <3>2, <3>3 DEF OneHandled, Handling
  <2>11. OnePair'
    BY <2>1 DEF OnePair
  <2>12. InputsAre'
    <3>1. \A d \in Conns : phase'[d] \in {"open", "half"} <=> phase[d] \in {"open", "half"}
      BY <2>1
    <3>. QED  BY <2>1, <2>2, <2>4, <3>1 DEF IInv, InputsAre, Leaving
  <2>13. Mapped'
    <3>1. \A s \in inputs : fd'[s] = fd[s]
      <4>1. \A s \in inputs : s \in Socks /\ phase[s[1]] \in {"open", "half"}
        BY DEF IInv, InputsAre, TypeOK
      <4>. QED  BY <2>1, <4>1, PairForm
    <3>2. UNCHANGED <<inputs, forward_map>>
      BY <2>1
    <3>. QED  BY <2>6, <3>1, <3>2 DEF IInv, Mapped
  <2>14. TodoReadable'
    <3>1. \A s \in todo \ {Listener} : s \in Socks /\ s[1] \in Conns
      BY <2>4 DEF IInv, TypeOK
    <3>2. \A s \in todo \ {Listener} : phase'[s[1]] = phase[s[1]]
      BY <2>1, <3>1 DEF IInv, TodoReadable
    <3>3. UNCHANGED <<got, sent, eof, rst>> /\ todo' \ {Listener} = todo \ {Listener} /\ pc' = "header"
      BY <2>1
    <3>. QED  BY <3>2, <3>3 DEF IInv, TodoReadable, Readable, Over
  <2>15. HalfIsLast'
    BY <2>1, <2>6 DEF HalfIsLast
  <2>16. LoggersNamed'
    <3>1. \A d \in Conns : phase'[d] = "open" => phase[d] = "open" /\ fd'[Client(d)] = fd[Client(d)]
      <4>. TAKE d \in Conns
      <4>1. d # c => Client(d) # Client(c) /\ Client(d) \in Socks /\ Client(d)[1] = d
        BY ConnsApart, PairForm
      <4>. QED  BY <2>1, <4>1
    <3>2. \A d \in Conns : phase'[d] \in {"idle", "backlog", "handling", "orphan", "half"} =>
            phase[d] \in {"idle", "backlog", "handling", "orphan", "half"}
      BY <2>1
    <3>3. \A g \in Fds : perf_loggers[g] # NoLogger => perf_loggers[g] \in Conns
      BY DEF IInv, TypeOK
    <3>4. \A g \in Fds : perf_loggers[g] # NoLogger => thread[perf_loggers[g]] # "none"
      BY <2>6, <3>3 DEF IInv, LoggersNamed
    <3>. QED  BY <2>1, <2>2, <3>1, <3>2, <3>4 DEF IInv, LoggersNamed
  <2>17. Streams'
    <3>1. \A d \in Conns : phase'[d] \in {"idle", "backlog", "orphan"} =>
            phase[d] \in {"idle", "backlog", "orphan"}
      BY <2>1
    <3>2. \A d \in Conns : phase'[d] \in {"open", "half"} => phase[d] \in {"open", "half"}
      BY <2>1
    <3>3. \A d \in Conns : phase'[d] = "handling" => d = c
      BY <2>1, <2>2 DEF IInv, OneHandled, Handling
    <3>. QED  BY <2>1, <3>1, <3>2, <3>3 DEF IInv, Streams
  <2>18. StreamsIntact'
    BY <2>1, <2>2 DEF IInv, StreamsIntact, Data, InHand
  <2>. QED  BY <2>7, <2>8, <2>9, <2>10, <2>11, <2>12, <2>13, <2>14, <2>15, <2>16, <2>17, <2>18 DEF IInv
<1>. QED  BY <1>1, <1>2

-----------------------------------------------------------------------------
(***************************************************************************)
(* The steps of handle_connection and handle_tlv_connect.                  *)
(***************************************************************************)

\* While a client is handled it is the only one of its kind.
LEMMA Handled ==
  ASSUME IInv, pc \in Handling
  PROVE  /\ cur.cfd[1] \in Conns /\ cur.cfd = Client(cur.cfd[1])
         /\ \A d \in Conns : phase[d] = "handling" <=> d = cur.cfd[1]
         /\ \A d \in Conns : phase[d] \notin {"half", "orphan"}
         /\ Listener \notin todo
         /\ \A s \in todo : s[1] # cur.cfd[1] /\ s \in Socks /\ s[1] \in Conns
         /\ \A s \in inputs : s[1] # cur.cfd[1] /\ s \in Socks /\ s[1] \in Conns
<1>1. cur.cfd[1] \in Conns /\ cur.cfd = Client(cur.cfd[1])
  BY PairForm DEF IInv, OneHandled
<1>2. \A d \in Conns : phase[d] = "handling" <=> d = cur.cfd[1]
  BY <1>1, ConnsApart DEF IInv, OneHandled
<1>3. \A d \in Conns : phase[d] \notin {"half", "orphan"}
  BY DEF IInv, OneHandled, HalfIsLast
<1>4. Listener \notin todo
  BY DEF IInv, OneHandled
<1>5. \A s \in todo : s[1] # cur.cfd[1] /\ s \in Socks /\ s[1] \in Conns
  BY <1>1, <1>2, <1>4, SockForm DEF IInv, TypeOK, TodoReadable
<1>6. \A s \in inputs : s[1] # cur.cfd[1] /\ s \in Socks /\ s[1] \in Conns
  BY <1>1, <1>2, SockForm DEF IInv, TypeOK, InputsAre
<1>. QED  BY <1>1, <1>2, <1>3, <1>4, <1>5, <1>6

\* handle_connection returns, and the client is closed or left an orphan.
LEMMA ReturnInv ==
  ASSUME IInv, pc \in Handling, NEW x \in {"closed", "orphan"},
         x = "orphan" => pc \notin {"reply", "register"}, Back,
         fd' = [s \in Socks |-> IF s[1] = cur.cfd[1] /\ x = "closed" THEN Closed ELSE fd[s]],
         phase' = [phase EXCEPT ![cur.cfd[1]] = x],
         UNCHANGED <<loggers, request, sent, got, out, unread, eof, rst>>
  PROVE  IInv'
<1>. DEFINE c == cur.cfd[1]
<1>1. /\ c \in Conns /\ cur.cfd = Client(c)
      /\ \A d \in Conns : phase[d] = "handling" <=> d = c
      /\ \A d \in Conns : phase[d] \notin {"half", "orphan"}
      /\ Listener \notin todo
      /\ \A s \in todo : s[1] # c /\ s \in Socks /\ s[1] \in Conns
      /\ \A s \in inputs : s[1] # c /\ s \in Socks /\ s[1] \in Conns
  BY Handled
<1>2. /\ pc' = "loop" /\ cur' = Idle
      /\ UNCHANGED <<todo, inputs, forward_map, perf_loggers, thread, thread_run, request,
                     sent, got, out, unread, eof, rst>>
  BY DEF Back, loggers
<1>3. phase'[c] = x /\ \A d \in Conns : d # c => phase'[d] = phase[d]
  BY <1>1 DEF IInv, TypeOK
<1>4. \A s \in Socks : s[1] # c => fd'[s] = fd[s]
  OBVIOUS
<1>5. \A s \in Socks : s[1] \in Conns /\ s[2] \in {"client", "server"}
  BY SockForm
<1>. HIDE DEF c
<1>6. TypeOK'
  <2>1. fd' \in [Socks -> Fds \cup {Closed}] /\ phase' \in [Conns -> Phases]
    BY DEF IInv, TypeOK, Phases
  <2>2. cur' \in [cfd : Socks \cup {NoSock}, sfd : Socks \cup {NoSock}, perf : Conns \cup {NoLogger}]
    BY <1>2 DEF Idle
  <2>. QED  BY <1>2, <2>1, <2>2 DEF IInv, TypeOK, Pcs
<1>7. FdState'
  <2>. SUFFICES ASSUME NEW s \in Socks  PROVE fd'[s] # Closed <=> IsOpen(s)'
    BY DEF FdState
  <2>1. fd[s] # Closed <=> IsOpen(s)
    BY DEF IInv, FdState
  <2>2. CASE s[1] = c
    <3>1. fd'[s] = IF x = "closed" THEN Closed ELSE fd[s]
      BY <2>2 DEF c
    <3>. QED  BY <1>1, <1>2, <1>3, <1>5, <2>1, <2>2, <3>1 DEF IsOpen
  <2>3. CASE s[1] # c
    BY <1>1, <1>2, <1>3, <1>4, <1>5, <2>1, <2>3 DEF IsOpen
  <2>. QED  BY <2>2, <2>3
<1>8. FdsApart'
  <2>1. \A s \in Socks : fd'[s] = fd[s] \/ fd'[s] = Closed
    OBVIOUS
  <2>. QED  BY <2>1 DEF IInv, FdsApart
<1>9. OneHandled'
  <2>1. \A d \in Conns : phase'[d] # "handling" /\ (phase'[d] = "orphan" => d = c)
    BY <1>1, <1>3
  <2>. QED  BY <1>2, <2>1 DEF OneHandled, Handling
<1>10. OnePair'
  BY <1>2 DEF OnePair
<1>11. InputsAre'
  <2>1. pc # "join" /\ pc' # "join"
    BY <1>2 DEF Handling
  <2>. QED  BY <1>1, <1>2, <1>3, <1>5, <2>1 DEF IInv, InputsAre, Leaving
<1>12. Mapped'
  BY <1>1, <1>2, <1>4 DEF IInv, Mapped
<1>13. TodoReadable'
  BY <1>1, <1>2, <1>3 DEF IInv, TodoReadable, Readable, Over
<1>14. HalfIsLast'
  BY <1>1, <1>3 DEF HalfIsLast
<1>15. LoggersNamed'
  <2>1. \A d \in Conns : phase'[d] = "open" => phase[d] = "open" /\ fd'[Client(d)] = fd[Client(d)]
    BY <1>3, <1>4, PairForm
  <2>2. \A d \in Conns : phase'[d] \in {"idle", "backlog", "handling", "orphan", "half"} =>
          phase[d] \in {"idle", "backlog", "handling", "orphan", "half"}
    BY <1>1, <1>3
  <2>3. \A g \in Fds : perf_loggers[g] # NoLogger => thread[perf_loggers[g]] # "none"
    <3>1. \A g \in Fds : perf_loggers[g] # NoLogger => perf_loggers[g] \in Conns
      BY DEF IInv, TypeOK
    <3>. QED  BY <1>1, <3>1 DEF IInv, LoggersNamed
  <2>. QED  BY <1>2, <2>1, <2>2, <2>3 DEF IInv, LoggersNamed
<1>16. Streams'
  <2>1. x = "orphan" => out[Client(c)] = <<>>
    BY <1>1 DEF IInv, Streams
  <2>2. \A d \in Conns : phase'[d] # "handling"
    BY <1>1, <1>3
  <2>. QED  BY <1>1, <1>2, <1>3, <2>1, <2>2 DEF IInv, Streams
<1>17. StreamsIntact'
  <2>1. pc \notin {"send", "dead"}
    BY DEF Handling
  <2>2. UNCHANGED <<out, got>> /\ pc' = "loop"
    BY <1>2
  <2>. QED  BY <2>1, <2>2, KeepIntactIdle DEF IInv
<1>. QED  BY <1>6, <1>7, <1>8, <1>9, <1>10, <1>11, <1>12, <1>13, <1>14, <1>15, <1>16, <1>17 DEF IInv

\* A client that is not served is closed.
LEMMA RefuseInv ==
  ASSUME IInv, pc \in Handling, Refuse(cur.cfd[1]), UNCHANGED loggers
  PROVE  IInv'
<1>1. cur.cfd[1] \in Conns
  BY Handled
<1>2. \A s \in Socks : s \in Dropped(cur.cfd[1]) <=> s[1] = cur.cfd[1]
  BY <1>1, SockForm, PairForm DEF Dropped
<1>3. fd' = [s \in Socks |-> IF s[1] = cur.cfd[1] THEN Closed ELSE fd[s]]
  BY <1>2 DEF Refuse
<1>. QED  BY <1>3, ReturnInv DEF Refuse

\* handle_connection goes on: header, TLVs, connect.
LEMMA AdvanceInv ==
  ASSUME IInv, pc \in {"header", "tlvs"}, pc' \in {"tlvs", "connect"},
         pc' = "connect" => request[cur.cfd[1]] = "connect",
         UNCHANGED <<todo, cur, inputs, forward_map, perf_loggers, loggers, network>>
  PROVE  IInv'
<1>1. UNCHANGED <<todo, cur, inputs, forward_map, perf_loggers, thread, thread_run, phase, request,
                  fd, sent, got, out, unread, eof, rst>>
  BY DEF loggers, network
<1>2. TypeOK'
  BY <1>1 DEF IInv, TypeOK, Pcs
<1>3. FdState'
  BY <1>1 DEF IInv, FdState, IsOpen
<1>4. OneHandled'
  BY <1>1 DEF IInv, OneHandled, Handling
<1>5. OnePair' /\ InputsAre' /\ TodoReadable'
  BY <1>1 DEF IInv, OnePair, InputsAre, Leaving, TodoReadable, Readable, Over
<1>6. HalfIsLast'
  BY <1>1 DEF IInv, HalfIsLast, Handling
<1>7. Streams'
  BY <1>1 DEF IInv, Streams
<1>8. StreamsIntact'
  BY <1>1 DEF IInv, StreamsIntact, Data, InHand
<1>. QED  BY <1>1, <1>2, <1>3, <1>4, <1>5, <1>6, <1>7, <1>8, KeepFdsApart, KeepMapped,
             KeepLoggers DEF IInv

\* The first recv.
LEMMA ReadHeaderInv ==
  ASSUME IInv, ReadHeader
  PROVE  IInv'
<1>1. pc = "header" /\ UNCHANGED loggers
  BY DEF ReadHeader
<1>2. CASE Refuse(cur.cfd[1])
  BY <1>1, <1>2, RefuseInv DEF Handling
<1>3. CASE ~ Refuse(cur.cfd[1])
  BY <1>1, <1>3, AdvanceInv DEF ReadHeader
<1>. QED  BY <1>2, <1>3

\* The recv of the TLVs.
LEMMA ReadTlvsInv ==
  ASSUME IInv, ReadTlvs
  PROVE  IInv'
<1>1. pc = "tlvs" /\ pc \in Handling /\ UNCHANGED loggers
  BY DEF ReadTlvs, Handling
<1>2. CASE Refuse(cur.cfd[1])
  BY <1>1, <1>2, RefuseInv
<1>3. CASE /\ Back /\ phase' = [phase EXCEPT ![cur.cfd[1]] = "orphan"]
           /\ UNCHANGED <<request, fd, sent, got, out, unread, eof, rst>>
  <2>1. fd' = [s \in Socks |-> IF s[1] = cur.cfd[1] /\ "orphan" = "closed" THEN Closed ELSE fd[s]]
    BY <1>3 DEF IInv, TypeOK
  <2>. QED  BY <1>1, <1>3, <2>1, ReturnInv
<1>4. CASE /\ request[cur.cfd[1]] = "connect" /\ pc' = "connect"
           /\ UNCHANGED <<todo, cur, inputs, forward_map, perf_loggers, network>>
  BY <1>1, <1>4, AdvanceInv
<1>. QED  BY <1>2, <1>3, <1>4 DEF ReadTlvs

\* The socket to the destination takes a number that nothing has.
LEMMA ConnectServerInv ==
  ASSUME IInv, ConnectServer
  PROVE  IInv'
<1>. DEFINE c == cur.cfd[1]
<1>1. pc = "connect" /\ pc \in Handling /\ UNCHANGED loggers
  BY DEF ConnectServer, Handling
<1>2. CASE Refuse(c)
  BY <1>1, <1>2, RefuseInv
<1>3. CASE ~ Refuse(c)
  <2>1. PICK f \in FreeFds :
          /\ fd' = [fd EXCEPT ![Server(c)] = f]
          /\ pc' = "reply" /\ cur' = [cur EXCEPT !.sfd = Server(c)]
          /\ UNCHANGED <<todo, inputs, forward_map, perf_loggers,
                         phase, request, sent, got, out, unread, eof, rst>>
    BY <1>3 DEF ConnectServer
  <2>2. /\ c \in Conns /\ cur.cfd = Client(c)
        /\ \A d \in Conns : phase[d] = "handling" <=> d = c
        /\ \A d \in Conns : phase[d] \notin {"half", "orphan"}
        /\ \A s \in inputs : s[1] # c /\ s \in Socks
    BY <1>1, Handled
  <2>3. f \in Fds /\ f # Closed /\ \A s \in Socks : fd[s] # f
    BY ServerAssumption DEF FreeFds
  <2>4. Server(c) \in Socks /\ Server(c)[1] = c /\ Server(c)[2] = "server"
    BY <2>2, PairForm
  <2>5. fd'[Server(c)] = f /\ \A s \in Socks : s # Server(c) => fd'[s] = fd[s]
    BY <2>1, <2>4 DEF IInv, TypeOK
  <2>6. UNCHANGED <<todo, inputs, forward_map, perf_loggers, thread, thread_run, phase, request,
                    sent, got, out, unread, eof, rst>>
    BY <1>1, <2>1 DEF loggers
  <2>7. cur'.cfd = cur.cfd
    BY <2>1 DEF IInv, TypeOK
  <2>. HIDE DEF c
  <2>8. TypeOK'
    <3>1. fd' \in [Socks -> Fds \cup {Closed}]
      BY <2>1, <2>3 DEF IInv, TypeOK
    <3>2. cur' \in [cfd : Socks \cup {NoSock}, sfd : Socks \cup {NoSock}, perf : Conns \cup {NoLogger}]
      BY <2>1, <2>4 DEF IInv, TypeOK
    <3>. QED  BY <2>1, <2>6, <3>1, <3>2 DEF IInv, TypeOK, Pcs
  <2>9. FdState'
    <3>. SUFFICES ASSUME NEW s \in Socks  PROVE fd'[s] # Closed <=> IsOpen(s)'
      BY DEF FdState
    <3>1. fd[s] # Closed <=> IsOpen(s)
      BY DEF IInv, FdState
    <3>2. s[1] \in Conns /\ s[2] \in {"client", "server"}
      BY SockForm
    <3>3. CASE s = Server(c)
      BY <2>1, <2>2, <2>3, <2>4, <2>5, <2>6, <3>3 DEF IsOpen
    <3>4. CASE s # Server(c)
      <4>1. phase[s[1]] = "handling" => s[2] = "client"
        BY <2>2, <3>2, <3>4, SockForm
      <4>. QED  BY <1>1, <2>1, <2>5, <2>6, <3>1, <3>4, <4>1 DEF IsOpen
    <3>. QED  BY <3>3, <3>4
  <2>10. FdsApart'
    BY <2>3, <2>4, <2>5 DEF IInv, FdsApart
  <2>11. OneHandled'
    BY <1>1, <2>1, <2>6, <2>7 DEF IInv, OneHandled, Handling
  <2>12. OnePair'
    BY <2>1 DEF OnePair
  <2>13. InputsAre'
    BY <1>1, <2>1, <2>6 DEF IInv, InputsAre, Leaving
  <2>14. Mapped'
    <3>1. \A s \in inputs : fd'[s] = fd[s]
      BY <2>2, <2>4, <2>5
    <3>. QED  BY <2>6, <3>1 DEF IInv, Mapped
  <2>15. TodoReadable' /\ HalfIsLast'
    BY <1>1, <2>1, <2>2, <2>6 DEF IInv, TodoReadable, HalfIsLast, Readable, Over
  <2>16. LoggersNamed'
    <3>1. \A d \in Conns : fd'[Client(d)] = fd[Client(d)]
      BY <2>4, <2>5, PairForm
    <3>2. \A g \in Fds : perf_loggers[g] # NoLogger => perf_loggers[g] \in Conns
      BY DEF IInv, TypeOK
    <3>3. \A g \in Fds : perf_loggers[g] # NoLogger => thread[perf_loggers[g]] # "none"
      BY <2>2, <3>2 DEF IInv, LoggersNamed
    <3>. QED  BY <2>6, <3>1, <3>3 DEF IInv, LoggersNamed
  <2>17. Streams'
    BY <1>1, <2>1, <2>6 DEF IInv, Streams
  <2>18. StreamsIntact'
    BY <1>1, <2>1, KeepIntactIdle DEF IInv
  <2>. QED  BY <2>8, <2>9, <2>10, <2>11, <2>12, <2>13, <2>14, <2>15, <2>16, <2>17, <2>18 DEF IInv
<1>. QED  BY <1>2, <1>3

\* The answer is the first thing written to the client.
LEMMA SendReplyInv ==
  ASSUME IInv, SendReply
  PROVE  IInv'
<1>. DEFINE c == cur.cfd[1]
<1>1. pc = "reply" /\ pc \in Handling /\ UNCHANGED loggers
  BY DEF SendReply, Handling
<1>2. CASE Refuse(c)
  BY <1>1, <1>2, RefuseInv
<1>3. CASE ~ Refuse(c)
  <2>1. /\ out' = [out EXCEPT ![Client(c)] = Append(out[Client(c)], Reply)]
        /\ unread' = [unread EXCEPT ![Client(c)] = @ + 1]
        /\ pc' = "register"
        /\ UNCHANGED <<todo, cur, inputs, forward_map, perf_loggers,
                       phase, request, fd, sent, got, eof, rst>>
    BY <1>3 DEF SendReply, Answered
  <2>2. /\ c \in Conns /\ \A d \in Conns : phase[d] = "handling" <=> d = c
        /\ \A d \in Conns : phase[d] \notin {"half", "orphan"}
    BY <1>1, Handled
  <2>3. /\ Client(c) \in Socks /\ Client(c)[2] = "client"
        /\ \A d \in Conns : d # c => Client(d) # Client(c)
        /\ \A d \in Conns : Client(d) \in Socks
    BY <2>2, PairForm, ConnsApart
  <2>4. out[Client(c)] = <<>>
    BY <1>1, <2>2 DEF IInv, Streams
  <2>5. /\ unread[Client(c)] = 0 /\ unread \in [Socks -> 0 .. BufCap]
        /\ out \in [Socks -> Seq(Chunks \cup {Reply})]
    BY <2>3, <2>4, ServerAssumption DEF IInv, TypeOK, Streams
  <2>. HIDE DEF c
  <2>6. /\ out'[Client(c)] = <<Reply>> /\ unread'[Client(c)] = 1
        /\ \A s \in Socks : s # Client(c) => out'[s] = out[s] /\ unread'[s] = unread[s]
    BY <2>1, <2>3, <2>4, <2>5
  <2>7. UNCHANGED <<todo, cur, inputs, forward_map, perf_loggers, thread, thread_run,
                    phase, request, fd, sent, got, eof, rst>>
    BY <1>1, <2>1 DEF loggers
  <2>8. TypeOK'
    <3>1. out' \in [Socks -> Seq(Chunks \cup {Reply})]
      <4>1. <<Reply>> \in Seq(Chunks \cup {Reply})
        OBVIOUS
      <4>2. out' = [out EXCEPT ![Client(c)] = <<Reply>>]
        BY <2>1, <2>3, <2>5, <2>6
      <4>. QED  BY <2>5, <4>1, <4>2
    <3>2. unread' \in [Socks -> 0 .. BufCap]
      BY <2>1, <2>3, <2>5, ServerAssumption
    <3>. QED  BY <2>1, <2>7, <3>1, <3>2 DEF IInv, TypeOK, Pcs
  <2>9. FdState' /\ OneHandled' /\ OnePair' /\ InputsAre'
    BY <1>1, <2>1, <2>7 DEF IInv, FdState, IsOpen, OneHandled, Handling, OnePair, InputsAre, Leaving
  <2>10. TodoReadable' /\ HalfIsLast'
    BY <1>1, <2>1, <2>2, <2>7 DEF IInv, TodoReadable, HalfIsLast, Readable, Over
  <2>11. Streams'
    <3>1. \A s \in Socks : unread'[s] <= Len(out'[s])
      <4>1. Len(<<Reply>>) = 1
        OBVIOUS
      <4>. QED  BY <2>6, <4>1 DEF IInv, Streams
    <3>. QED  BY <1>1, <2>1, <2>2, <2>3, <2>6, <2>7, <3>1 DEF IInv, Streams
  <2>12. StreamsIntact'
    <3>1. \A s \in Socks : Data(s)' = Data(s)
      <4>1. Tail(<<Reply>>) = <<>>
        OBVIOUS
      <4>. QED  BY <2>3, <2>4, <2>6, <4>1 DEF Data
    <3>2. \A s \in Socks : InHand(s)' = InHand(s) /\ Other(s) \in Socks
      BY <1>1, <2>1, OtherForm DEF InHand
    <3>3. \A s \in Socks : s[2] = "client" /\ out'[s] # <<>> => out'[s][1] = Reply
      BY <2>6 DEF IInv, StreamsIntact
    <3>4. UNCHANGED got /\ pc # "dead"
      BY <1>1, <2>1
    <3>. QED  BY <3>1, <3>2, <3>3, <3>4 DEF IInv, StreamsIntact
  <2>. QED  BY <2>7, <2>8, <2>9, <2>10, <2>11, <2>12, KeepFdsApart, KeepMapped, KeepLoggers DEF IInv
<1>. QED  BY <1>2, <1>3

\* The pair is registered, unless the client has reset the connection: then its
\* socket is closed and its entries stay.
LEMMA RegisterInv ==
  ASSUME IInv, Register
  PROVE  IInv'
<1>. DEFINE c == cur.cfd[1]
<1>1. /\ pc = "register" /\ pc \in Handling
      /\ inputs' = inputs \cup {Server(c), Client(c)}
      /\ forward_map' = [forward_map EXCEPT ![fd[Client(c)]] = Server(c), ![fd[Server(c)]] = Client(c)]
      /\ perf_loggers' = [perf_loggers EXCEPT ![fd[Client(c)]] = c]
      /\ pc' = "loop" /\ cur' = Idle
      /\ UNCHANGED <<todo, request, sent, got, out, unread, eof, rst>>
  BY DEF Register, Handling
<1>2. \/ /\ rst[Client(c)] /\ fd' = [fd EXCEPT ![Client(c)] = Closed]
         /\ phase' = [phase EXCEPT ![c] = "half"] /\ UNCHANGED <<thread, thread_run>>
      \/ /\ phase' = [phase EXCEPT ![c] = "open"] /\ thread' = [thread EXCEPT ![c] = "running"]
         /\ thread_run' = [thread_run EXCEPT ![c] = TRUE] /\ UNCHANGED fd
  BY DEF Register, loggers, RunFlag
<1>3. /\ c \in Conns /\ cur.cfd = Client(c) /\ Listener \notin todo
      /\ \A d \in Conns : phase[d] = "handling" <=> d = c
      /\ \A d \in Conns : phase[d] \notin {"half", "orphan"}
      /\ \A s \in inputs : s[1] # c /\ s \in Socks
      /\ \A s \in todo : s[1] # c /\ s \in Socks /\ s[1] \in Conns
  BY <1>1, Handled
<1>4. /\ Client(c) \in Socks /\ Client(c)[1] = c /\ Client(c)[2] = "client"
      /\ Server(c) \in Socks /\ Server(c)[1] = c /\ Server(c)[2] = "server"
      /\ Client(c) # Server(c) /\ Other(Client(c)) = Server(c) /\ Other(Server(c)) = Client(c)
      /\ \A d \in Conns : d # c => Client(d) # Client(c)
      /\ \A d \in Conns : Client(d) \in Socks /\ d # NoLogger
  BY <1>3, PairForm, ConnsApart
<1>5. /\ fd[Client(c)] # Closed /\ fd[Server(c)] # Closed
      /\ fd[Client(c)] \in Fds /\ fd[Server(c)] \in Fds /\ fd[Client(c)] # fd[Server(c)]
  BY <1>1, <1>3, <1>4 DEF IInv, FdState, IsOpen, FdsApart, TypeOK
<1>6. fd'[Server(c)] = fd[Server(c)] /\ \A s \in Socks : s # Client(c) => fd'[s] = fd[s]
  BY <1>2, <1>4 DEF IInv, TypeOK
<1>7. /\ phase'[c] \in {"open", "half"} /\ \A d \in Conns : d # c => phase'[d] = phase[d]
      /\ phase'[c] = "half" => rst[Client(c)] /\ fd'[Client(c)] = Closed /\ thread' = thread
      /\ phase'[c] = "open" => fd' = fd /\ thread'[c] = "running"
      /\ \A d \in Conns : d # c => thread'[d] = thread[d]
  <2>. HIDE DEF c
  <2>1. /\ phase \in [Conns -> Phases] /\ fd \in [Socks -> Fds \cup {Closed}]
        /\ thread \in [Conns -> {"none", "running", "ended"}]
    BY DEF IInv, TypeOK
  <2>2. CASE /\ rst[Client(c)] /\ fd' = [fd EXCEPT ![Client(c)] = Closed]
             /\ phase' = [phase EXCEPT ![c] = "half"] /\ UNCHANGED <<thread, thread_run>>
    BY <1>3, <1>4, <2>1, <2>2
  <2>3. CASE /\ phase' = [phase EXCEPT ![c] = "open"] /\ thread' = [thread EXCEPT ![c] = "running"]
             /\ UNCHANGED fd
    BY <1>3, <1>4, <2>1, <2>3
  <2>. QED  BY <1>2, <2>2, <2>3
<1>8. /\ forward_map'[fd[Client(c)]] = Server(c) /\ forward_map'[fd[Server(c)]] = Client(c)
      /\ \A g \in Fds : g # fd[Client(c)] /\ g # fd[Server(c)] => forward_map'[g] = forward_map[g]
      /\ perf_loggers'[fd[Client(c)]] = c
      /\ \A g \in Fds : g # fd[Client(c)] => perf_loggers'[g] = perf_loggers[g]
  BY <1>1, <1>5 DEF IInv, TypeOK
<1>. HIDE DEF c
<1>9. \A s \in Socks : s[1] \in Conns /\ s[2] \in {"client", "server"}
                       /\ (s[1] = c => s = Client(c) \/ s = Server(c))
  BY SockForm
<1>10. TypeOK'
  <2>1. /\ inputs' \subseteq Socks
        /\ forward_map' \in [Fds -> Socks \cup {NoSock}]
        /\ perf_loggers' \in [Fds -> Conns \cup {NoLogger}]
    BY <1>1, <1>3, <1>4, <1>5 DEF IInv, TypeOK
  <2>2. /\ fd' \in [Socks -> Fds \cup {Closed}] /\ phase' \in [Conns -> Phases]
        /\ thread' \in [Conns -> {"none", "running", "ended"}]
        /\ thread_run' \in [Conns -> BOOLEAN]
    BY <1>2 DEF IInv, TypeOK, Phases
  <2>3. cur' \in [cfd : Socks \cup {NoSock}, sfd : Socks \cup {NoSock}, perf : Conns \cup {NoLogger}]
    BY <1>1 DEF Idle
  <2>. QED  BY <1>1, <2>1, <2>2, <2>3 DEF IInv, TypeOK, Pcs
<1>11. FdState'
  <2>. SUFFICES ASSUME NEW s \in Socks  PROVE fd'[s] # Closed <=> IsOpen(s)'
    BY DEF FdState
  <2>1. CASE s[1] = c
    BY <1>4, <1>5, <1>6, <1>7, <1>9, <2>1 DEF IsOpen
  <2>2. CASE s[1] # c
    <3>1. fd'[s] = fd[s] /\ phase'[s[1]] = phase[s[1]] /\ phase[s[1]] # "handling"
      BY <1>3, <1>4, <1>6, <1>7, <1>9, <2>2
    <3>2. fd[s] # Closed <=> IsOpen(s)
      BY DEF IInv, FdState
    <3>. QED  BY <3>1, <3>2 DEF IsOpen
  <2>. QED  BY <2>1, <2>2
<1>12. FdsApart'
  <2>1. \A s \in Socks : fd'[s] = fd[s] \/ fd'[s] = Closed
    BY <1>6, <1>7
  <2>. QED  BY <2>1 DEF IInv, FdsApart
<1>13. OneHandled'
  <2>1. \A d \in Conns : phase'[d] \notin {"handling", "orphan"}
    BY <1>3, <1>7
  <2>. QED  BY <1>1, <2>1 DEF OneHandled, Handling
<1>14. OnePair'
  BY <1>1 DEF OnePair
<1>15. InputsAre'
  <2>. SUFFICES ASSUME NEW s \in Socks
                PROVE  s \in inputs' <=> phase'[s[1]] \in {"open", "half"}
    BY <1>1 DEF InputsAre, Leaving
  <2>1. s \in inputs <=> phase[s[1]] \in {"open", "half"}
    BY <1>1 DEF IInv, InputsAre, Leaving
  <2>2. s[1] = c => s \in inputs'
    BY <1>1, <1>9
  <2>3. s[1] # c => (s \in inputs' <=> s \in inputs)
    BY <1>1, <1>4
  <2>. QED  BY <1>7, <1>9, <2>1, <2>2, <2>3
<1>16. Mapped'
  <2>1. ASSUME NEW s \in inputs', fd'[s] # Closed  PROVE forward_map'[fd'[s]] = Other(s)
    <3>1. CASE s \in inputs
      <4>1. s \in Socks /\ s # Client(c) /\ s # Server(c)
        BY <1>3, <1>4, <3>1
      <4>2. fd'[s] = fd[s] /\ fd[s] \in Fds /\ fd[s] # fd[Client(c)] /\ fd[s] # fd[Server(c)]
        BY <1>4, <1>6, <2>1, <4>1 DEF IInv, FdsApart, TypeOK
      <4>3. forward_map[fd[s]] = Other(s)
        BY <2>1, <3>1, <4>2 DEF IInv, Mapped
      <4>. QED  BY <1>8, <4>2, <4>3
    <3>2. CASE s = Server(c)
      BY <1>4, <1>6, <1>8, <3>2
    <3>3. CASE s = Client(c)
      BY <1>4, <1>7, <1>8, <2>1, <3>3
    <3>. QED  BY <1>1, <3>1, <3>2, <3>3
  <2>2. ASSUME NEW g \in Fds, forward_map'[g] # NoSock, \A d \in Conns : phase'[d] # "half"
        PROVE  \E s \in inputs' : fd'[s] = g
    <3>1. fd' = fd
      BY <1>3, <1>7, <2>2
    <3>2. CASE g = fd[Client(c)] \/ g = fd[Server(c)]
      BY <1>1, <3>1, <3>2
    <3>3. CASE g # fd[Client(c)] /\ g # fd[Server(c)]
      <4>1. \E s \in inputs : fd[s] = g
        BY <1>3, <1>8, <2>2, <3>3 DEF IInv, Mapped
      <4>. QED  BY <1>1, <3>1, <4>1
    <3>. QED  BY <3>2, <3>3
  <2>. QED  BY <2>1, <2>2 DEF Mapped
<1>17. TodoReadable'
  BY <1>1, <1>3, <1>7 DEF IInv, TodoReadable, Readable, Over
<1>18. HalfIsLast'
  BY <1>1, <1>3, <1>7 DEF HalfIsLast, Handling
<1>19. LoggersNamed'
  <2>1. ASSUME NEW d \in Conns, phase'[d] = "open"  PROVE perf_loggers'[fd'[Client(d)]] = d
    <3>1. CASE d = c
      BY <1>7, <1>8, <2>1, <3>1
    <3>2. CASE d # c
      <4>1. fd'[Client(d)] = fd[Client(d)] /\ phase[d] = "open"
        BY <1>4, <1>6, <1>7, <2>1, <3>2
      <4>2. fd[Client(d)] # Closed /\ fd[Client(d)] \in Fds
        <5>1. Client(d) \in Socks /\ Client(d)[1] = d
          BY PairForm
        <5>2. fd[Client(d)] # Closed
          BY <4>1, <5>1 DEF IInv, FdState, IsOpen
        <5>. QED  BY <5>1, <5>2 DEF IInv, TypeOK
      <4>3. fd[Client(d)] # fd[Client(c)]
        BY <1>4, <3>2, <4>2 DEF IInv, FdsApart
      <4>. QED  BY <1>8, <4>1, <4>2, <4>3 DEF IInv, LoggersNamed
    <3>. QED  BY <3>1, <3>2
  <2>2. ASSUME NEW d \in Conns, phase'[d] \in {"idle", "backlog", "handling", "orphan", "half"}
        PROVE  thread'[d] = "none"
    BY <1>3, <1>7, <2>2 DEF IInv, LoggersNamed
  <2>3. ASSUME NEW g \in Fds, perf_loggers'[g] # NoLogger
        PROVE  \/ thread'[perf_loggers'[g]] # "none"
               \/ phase'[perf_loggers'[g]] = "half" /\ \A s \in Socks : fd'[s] # g
    <3>1. CASE g = fd[Client(c)] /\ phase'[c] = "open"
      BY <1>7, <1>8, <3>1
    <3>2. CASE g = fd[Client(c)] /\ phase'[c] = "half"
      <4>1. \A s \in Socks : fd'[s] # g
        BY <1>4, <1>5, <1>6, <1>7, <3>2 DEF IInv, FdsApart
      <4>. QED  BY <1>8, <3>2, <4>1
    <3>3. CASE g # fd[Client(c)]
      <4>1. perf_loggers'[g] = perf_loggers[g] /\ perf_loggers[g] \in Conns
        BY <1>8, <2>3, <3>3 DEF IInv, TypeOK
      <4>2. thread[perf_loggers[g]] # "none"
        BY <1>3, <2>3, <4>1 DEF IInv, LoggersNamed
      <4>3. perf_loggers[g] # c
        BY <1>3, <4>2 DEF IInv, LoggersNamed
      <4>. QED  BY <1>7, <4>1, <4>2, <4>3
    <3>. QED  BY <1>7, <3>1, <3>2, <3>3
  <2>. QED  BY <2>1, <2>2, <2>3 DEF LoggersNamed
<1>20. Streams'
  <2>1. out[Client(c)] # <<>>
    <3>1. out[Client(c)] = <<Reply>>
      BY <1>1, <1>3 DEF IInv, Streams
    <3>. QED  BY <3>1
  <2>2. \A d \in Conns : phase'[d] # "handling"
    BY <1>3, <1>7
  <2>. QED  BY <1>1, <1>7, <2>1, <2>2 DEF IInv, Streams
<1>21. StreamsIntact'
  BY <1>1, KeepIntactIdle DEF IInv
<1>. QED  BY <1>10, <1>11, <1>12, <1>13, <1>14, <1>15, <1>16, <1>17, <1>18, <1>19, <1>20, <1>21 DEF IInv

-----------------------------------------------------------------------------
(***************************************************************************)
(* The steps of read_and_forward and cleanup_socket_pair.                  *)
(***************************************************************************)

\* An open socket that select returned leads to its far end, which is open.
LEMMA NextSocket ==
  ASSUME IInv, pc = "loop", NEW s \in todo \ {Listener}, fd[s] # Closed
  PROVE  /\ s \in Socks /\ s[1] \in Conns /\ phase[s[1]] = "open" /\ Readable(s)
         /\ s \in inputs /\ Other(s) \in inputs /\ forward_map[fd[s]] = Other(s)
         /\ fd[s] \in Fds /\ fd[Other(s)] \in Fds /\ fd[s] # fd[Other(s)]
         /\ fd[Other(s)] # Closed
<1>1. s \in Socks /\ s[1] \in Conns /\ s[2] \in {"client", "server"}
  BY SockForm DEF IInv, TypeOK
<1>2. phase[s[1]] = "open" /\ Readable(s)
  BY <1>1 DEF IInv, TodoReadable, FdState, IsOpen
<1>3. Other(s) \in Socks /\ Other(s)[1] = s[1] /\ Other(s) # s
  BY <1>1, OtherForm
<1>4. s \in inputs /\ Other(s) \in inputs
  BY <1>1, <1>2, <1>3 DEF IInv, InputsAre, Leaving
<1>5. fd[Other(s)] # Closed
  BY <1>2, <1>3 DEF IInv, FdState, IsOpen
<1>6. forward_map[fd[s]] = Other(s)
  BY <1>4 DEF IInv, Mapped
<1>7. fd[s] # fd[Other(s)]
  BY <1>1, <1>3 DEF IInv, FdsApart
<1>8. fd[s] \in Fds /\ fd[Other(s)] \in Fds
  BY <1>1, <1>3, <1>5 DEF IInv, TypeOK
<1>. QED  BY <1>1, <1>2, <1>4, <1>5, <1>6, <1>7, <1>8

\* cleanup_socket_pair takes both entries of the pair, and no others.
LEMMA CleanupInv ==
  ASSUME IInv, pc = "loop", NEW s \in todo \ {Listener}, fd[s] # Closed, Ended(s), Cleanup(s, Other(s))
  PROVE  IInv'
<1>. DEFINE p == Other(s)
<1>1. /\ s \in Socks /\ s[1] \in Conns /\ phase[s[1]] = "open" /\ Readable(s)
      /\ fd[s] \in Fds /\ fd[p] \in Fds /\ fd[s] # fd[p] /\ fd[p] # Closed
  BY NextSocket
<1>2. /\ p \in Socks /\ p[1] = s[1] /\ p # s
      /\ \A r \in Socks : r[1] = s[1] => r = s \/ r = p
  BY <1>1, OtherForm
<1>. HIDE DEF p
<1>3. /\ inputs' = inputs \ {s, p}
      /\ forward_map' = [forward_map EXCEPT ![fd[s]] = NoSock, ![fd[p]] = NoSock]
      /\ cur' = [cfd |-> s, sfd |-> p, perf |-> FindLogger(s, p)]
      /\ thread_run' = StopFlag(FindLogger(s, p))
      /\ pc' = "join" /\ todo' = todo \ {s}
      /\ UNCHANGED <<perf_loggers, thread, phase, request, fd, sent, got, out, unread, eof, rst>>
  BY DEF Cleanup, WithoutPair, Unmapped, network, p
<1>4. FindLogger(s, p) \in Conns \cup {NoLogger}
  BY <1>1 DEF IInv, TypeOK, FindLogger, LoggerOf
<1>5. cur'.cfd = s /\ cur'.sfd = p /\ cur'.perf = FindLogger(s, p)
  BY <1>3
<1>6. TypeOK'
  <2>1. inputs' \subseteq Socks /\ forward_map' \in [Fds -> Socks \cup {NoSock}]
    BY <1>3 DEF IInv, TypeOK
  <2>2. cur' \in [cfd : Socks \cup {NoSock}, sfd : Socks \cup {NoSock}, perf : Conns \cup {NoLogger}]
    BY <1>1, <1>2, <1>3, <1>4
  <2>3. thread_run' \in [Conns -> BOOLEAN]
    BY <1>3 DEF IInv, TypeOK, StopFlag
  <2>4. todo' \subseteq Socks \cup {Listener} /\ pc' \in Pcs
    BY <1>3 DEF IInv, TypeOK, Pcs
  <2>. QED  BY <1>3, <2>1, <2>2, <2>3, <2>4 DEF IInv, TypeOK
<1>7. FdState'
  BY <1>3 DEF IInv, FdState, IsOpen
<1>8. OneHandled'
  BY <1>3 DEF IInv, OneHandled, Handling
<1>9. OnePair'
  <2>1. FindLogger(s, p)' = FindLogger(s, p)
    BY <1>3 DEF FindLogger, LoggerOf
  <2>. QED  BY <1>1, <1>3, <1>5, <2>1 DEF OnePair, p
<1>10. InputsAre'
  <2>. SUFFICES ASSUME NEW r \in Socks
                PROVE  r \in inputs' <=> phase[r[1]] \in {"open", "half"} /\ r[1] # s[1]
    BY <1>3, <1>5 DEF InputsAre, Leaving
  <2>1. r \in inputs <=> phase[r[1]] \in {"open", "half"}
    BY DEF IInv, InputsAre, Leaving
  <2>2. r \in {s, p} <=> r[1] = s[1]
    BY <1>2
  <2>. QED  BY <1>3, <2>1, <2>2
<1>11. Mapped'
  <2>1. \A g \in Fds : IF g \in {fd[s], fd[p]} THEN forward_map'[g] = NoSock
                       ELSE forward_map'[g] = forward_map[g]
    BY <1>1, <1>3 DEF IInv, TypeOK
  <2>2. ASSUME NEW r \in inputs', fd[r] # Closed  PROVE forward_map'[fd[r]] = Other(r)
    <3>1. r \in inputs /\ r \in Socks /\ r # s /\ r # p
      BY <1>3 DEF IInv, TypeOK
    <3>2. fd[r] \in Fds /\ fd[r] # fd[s] /\ fd[r] # fd[p]
      BY <1>1, <1>2, <2>2, <3>1 DEF IInv, FdsApart, TypeOK
    <3>. QED  BY <2>1, <2>2, <3>1, <3>2 DEF IInv, Mapped
  <2>3. ASSUME NEW g \in Fds, forward_map'[g] # NoSock, \A d \in Conns : phase[d] # "half"
        PROVE  \E r \in inputs' : fd[r] = g
    <3>1. g # fd[s] /\ g # fd[p] /\ forward_map[g] # NoSock
      BY <2>1, <2>3
    <3>2. PICK r \in inputs : fd[r] = g
      BY <2>3, <3>1 DEF IInv, Mapped
    <3>. QED  BY <1>3, <3>1, <3>2
  <2>4. UNCHANGED <<fd, phase>>
    BY <1>3
  <2>. QED  BY <2>2, <2>3, <2>4 DEF Mapped
<1>12. TodoReadable'
  <2>1. Over(s)
    <3>1. got[s] \in 0 .. MaxData /\ sent[s] \in 0 .. MaxData
      BY <1>1 DEF IInv, TypeOK
    <3>. QED  BY <1>1, <3>1, ServerAssumption DEF Ended, Readable, Over
  <2>2. UNCHANGED <<phase, got, sent, eof, rst>> /\ todo' \subseteq todo /\ s \notin todo'
    BY <1>3
  <2>. QED  BY <1>5, <2>1, <2>2 DEF IInv, TodoReadable, Readable, Over
<1>13. HalfIsLast'
  BY <1>3 DEF IInv, HalfIsLast, Handling
<1>14. Streams'
  BY <1>3 DEF IInv, Streams
<1>15. StreamsIntact'
  BY <1>3, KeepIntactIdle DEF IInv
<1>. QED  BY <1>3, <1>6, <1>7, <1>8, <1>9, <1>10, <1>11, <1>12, <1>13, <1>14, <1>15, KeepFdsApart,
             KeepLoggers DEF IInv

\* A chunk that was read is in hand until it is written.
LEMMA ReadInv ==
  ASSUME IInv, pc = "loop", NEW s \in todo \ {Listener}, fd[s] # Closed, ~ Ended(s),
         got' = [got EXCEPT ![s] = @ + 1],
         pc' = "send", cur' = [cfd |-> s, sfd |-> Other(s), perf |-> NoLogger], todo' = todo \ {s},
         UNCHANGED <<inputs, forward_map, perf_loggers, loggers,
                     phase, request, fd, sent, out, unread, eof, rst>>
  PROVE  IInv'
<1>1. s \in Socks /\ s[1] \in Conns /\ phase[s[1]] = "open"
  BY NextSocket
<1>2. Other(s) \in Socks /\ Other(s)[1] = s[1]
  BY <1>1, OtherForm
<1>3. /\ got \in [Socks -> 0 .. MaxData] /\ sent \in [Socks -> 0 .. MaxData] /\ MaxData \in Nat
      /\ got[s] < sent[s]
  BY <1>1, ServerAssumption DEF IInv, TypeOK, Streams, Ended
<1>4. got'[s] = got[s] + 1 /\ \A r \in Socks : r # s => got'[r] = got[r]
  BY <1>1, <1>3
<1>5. UNCHANGED <<inputs, forward_map, perf_loggers, thread, thread_run, phase, request, fd, sent, out,
                  unread, eof, rst>>
  BY DEF loggers
<1>6. cur'.cfd = s /\ cur'.sfd = Other(s)
  OBVIOUS
<1>7. TypeOK'
  <2>1. got' \in [Socks -> 0 .. MaxData]
    BY <1>1, <1>3
  <2>2. cur' \in [cfd : Socks \cup {NoSock}, sfd : Socks \cup {NoSock}, perf : Conns \cup {NoLogger}]
    BY <1>1, <1>2
  <2>3. todo' \subseteq Socks \cup {Listener} /\ pc' \in Pcs
    BY DEF IInv, TypeOK, Pcs
  <2>. QED  BY <1>5, <2>1, <2>2, <2>3 DEF IInv, TypeOK
<1>8. FdState'
  BY <1>5 DEF IInv, FdState, IsOpen
<1>9. OneHandled'
  BY <1>5 DEF IInv, OneHandled, Handling
<1>10. OnePair'
  BY <1>1, <1>5, <1>6 DEF OnePair
<1>11. InputsAre'
  BY <1>5 DEF IInv, InputsAre, Leaving
<1>12. TodoReadable'
  <2>. SUFFICES ASSUME NEW r \in todo' \ {Listener}
                PROVE  /\ phase[r[1]] \in {"open", "closed"} /\ Readable(r)'
                       /\ phase[r[1]] = "closed" => Over(Other(r))'
    BY <1>5 DEF TodoReadable
  <2>1. r \in Socks /\ r \in todo \ {Listener} /\ r # s
    BY DEF IInv, TypeOK
  <2>2. Other(r) \in Socks /\ Other(r)[1] = r[1]
    BY <2>1, OtherForm
  <2>3. /\ phase[r[1]] \in {"open", "closed"} /\ Readable(r)
        /\ phase[r[1]] = "closed" => Over(Other(r)) /\ Other(r) # s
    BY <1>1, <2>1, <2>2 DEF IInv, TodoReadable
  <2>. QED  BY <1>4, <1>5, <2>1, <2>2, <2>3 DEF Readable, Over
<1>13. HalfIsLast'
  BY <1>5 DEF IInv, HalfIsLast, Handling
<1>14. Streams'
  <2>1. \A r \in Socks : got'[r] <= sent[r]
    BY <1>3, <1>4 DEF IInv, Streams
  <2>. QED  BY <1>5, <2>1 DEF IInv, Streams
<1>15. StreamsIntact'
  <2>. SUFFICES ASSUME NEW r \in Socks
                PROVE  /\ \A i \in 1 .. Len(Data(Other(r))) : Data(Other(r))[i] = <<r, i>>
                       /\ Len(Data(Other(r))) + InHand(r)' = got'[r]
                       /\ r[2] = "client" /\ out[r] # <<>> => out[r][1] = Reply
    <3>1. \A q : Data(q)' = Data(q)
      BY <1>5 DEF Data
    <3>2. UNCHANGED out
      BY <1>5
    <3>. QED  BY <3>1, <3>2, Zenon DEF StreamsIntact
  <2>1. /\ \A i \in 1 .. Len(Data(Other(r))) : Data(Other(r))[i] = <<r, i>>
        /\ Len(Data(Other(r))) + InHand(r) = got[r]
        /\ r[2] = "client" /\ out[r] # <<>> => out[r][1] = Reply
    BY DEF IInv, StreamsIntact
  <2>2. InHand(r) = 0 /\ InHand(r)' = IF r = s THEN 1 ELSE 0
    BY <1>6 DEF InHand
  <2>3. Len(Data(Other(r))) \in Nat
    <3>1. Other(r) \in Socks
      BY OtherForm
    <3>2. out[Other(r)] \in Seq(Chunks \cup {Reply})
      BY <3>1 DEF IInv, TypeOK
    <3>. QED  BY <3>2 DEF Data
  <2>. QED  BY <1>4, <2>1, <2>2, <2>3
<1>. QED  BY <1>5, <1>7, <1>8, <1>9, <1>10, <1>11, <1>12, <1>13, <1>14, <1>15, KeepFdsApart,
             KeepMapped, KeepLoggers DEF IInv

\* read_and_forward up to the send.
LEMMA ReadAndForwardInv ==
  ASSUME IInv, ReadAndForward
  PROVE  IInv'
<1>. DEFINE s == First(todo)
<1>1. pc = "loop" /\ s \in todo \ {Listener}
  BY FirstExists DEF ReadAndForward, IInv, TypeOK
<1>2. CASE fd[s] = Closed
  BY <1>1, <1>2, DieInv DEF ReadAndForward
<1>3. CASE fd[s] # Closed
  <2>1. forward_map[fd[s]] = Other(s)
    BY <1>1, <1>3, NextSocket
  <2>2. CASE Ended(s)
    BY <1>1, <1>3, <2>1, <2>2, CleanupInv DEF ReadAndForward
  <2>3. CASE ~ Ended(s)
    BY <1>1, <1>3, <2>1, <2>3, ReadInv DEF ReadAndForward
  <2>. QED  BY <2>2, <2>3
<1>. QED  BY <1>2, <1>3

\* The chunk in hand is the next of its stream.
LEMMA SendDataInv ==
  ASSUME IInv, SendData
  PROVE  IInv'
<1>1. pc = "send" /\ UNCHANGED loggers
  BY DEF SendData
<1>2. CASE Die
  BY <1>1, <1>2, DieInv DEF SendData, Die, Back
<1>3. CASE ~ Die
  <2>0. PICK s, p, x : /\ s \in Socks /\ p \in Socks
                       /\ s = cur.cfd /\ p = cur.sfd /\ x = <<s, got[s]>>
    <3>1. cur.cfd \in Socks /\ cur.sfd \in Socks
      BY <1>1, OtherForm DEF IInv, OnePair
    <3>. QED  BY <3>1
  <2>1. /\ unread[p] < BufCap
        /\ out' = [out EXCEPT ![p] = Append(out[p], x)]
        /\ unread' = [unread EXCEPT ![p] = @ + 1]
        /\ pc' = "loop" /\ cur' = Idle
        /\ UNCHANGED <<todo, inputs, forward_map, perf_loggers, thread, thread_run,
                       phase, request, fd, sent, got, eof, rst>>
    BY <1>3, <2>0 DEF SendData, Written, Back, loggers
  <2>2. s \in Socks /\ p = Other(s) /\ phase[s[1]] = "open"
    BY <1>1, <2>0 DEF IInv, OnePair
  <2>3. /\ p \in Socks /\ p[1] = s[1] /\ p # s /\ Other(p) = s /\ s[1] \in Conns
        /\ \A r \in Socks : Other(r) \in Socks /\ (Other(r) = p => r = s)
    BY <2>2, OtherForm, SockForm
  <2>4. /\ out \in [Socks -> Seq(Chunks \cup {Reply})] /\ unread \in [Socks -> 0 .. BufCap]
        /\ got \in [Socks -> 0 .. MaxData] /\ MaxData \in Nat /\ BufCap \in Nat
    BY ServerAssumption DEF IInv, TypeOK
  <2>5. p[2] = "client" => out[p] # <<>>
    <3>1. p[2] = "client" => p = Client(p[1])
      BY <2>3, SockForm
    <3>. QED  BY <2>2, <2>3, <3>1 DEF IInv, Streams
  <2>6. /\ \A i \in 1 .. Len(Data(p)) : Data(p)[i] = <<s, i>>
        /\ Len(Data(p)) + 1 = got[s]
    BY <1>1, <2>0, <2>2 DEF IInv, StreamsIntact, InHand
  <2>7. out[p] \in Seq(Chunks \cup {Reply}) /\ Data(p) \in Seq(Chunks \cup {Reply}) /\ Len(Data(p)) \in Nat
    BY <2>3, <2>4 DEF Data
  <2>8. x = <<s, got[s]>> /\ x \in Chunks /\ got[s] = Len(Data(p)) + 1
    <3>1. got[s] \in 0 .. MaxData
      BY <2>2, <2>4
    <3>2. got[s] \in 1 .. MaxData
      BY <2>4, <2>6, <2>7, <3>1
    <3>. QED  BY <2>0, <2>6, <3>2 DEF Chunks
  <2>9. /\ out'[p] = Append(out[p], x) /\ unread'[p] = unread[p] + 1
        /\ \A r \in Socks : r # p => out'[r] = out[r] /\ unread'[r] = unread[r]
    BY <2>1, <2>3, <2>4
  <2>10. Data(p)' = Append(Data(p), x)
    <3>1. CASE p[2] = "client"
      <4>1. Append(out[p], x) # <<>> /\ Tail(Append(out[p], x)) = Append(Tail(out[p]), x)
        <5>1. out[p] \in Seq(Chunks \cup {Reply}) /\ out[p] # <<>>
          BY <2>5, <2>7, <3>1
        <5>. QED  BY <2>8, <5>1
      <4>2. Data(p)' = Tail(out'[p]) /\ Data(p) = Tail(out[p])
        BY <2>5, <2>9, <3>1, <4>1 DEF Data
      <4>. QED  BY <2>9, <4>1, <4>2
    <3>2. CASE p[2] # "client"
      BY <2>9, <3>2 DEF Data
    <3>. QED  BY <3>1, <3>2
  <2>11. TypeOK'
    <3>1. out' \in [Socks -> Seq(Chunks \cup {Reply})]
      <4>1. Append(out[p], x) \in Seq(Chunks \cup {Reply})
        BY <2>7, <2>8
      <4>. QED  BY <2>1, <2>4, <4>1
    <3>2. unread' \in [Socks -> 0 .. BufCap]
      BY <2>1, <2>3, <2>4
    <3>3. cur' \in [cfd : Socks \cup {NoSock}, sfd : Socks \cup {NoSock}, perf : Conns \cup {NoLogger}]
      BY <2>1 DEF Idle
    <3>. QED  BY <2>1, <3>1, <3>2, <3>3 DEF IInv, TypeOK, Pcs
  <2>12. FdState'
    BY <1>1, <2>1 DEF IInv, FdState, IsOpen
  <2>13. OneHandled'
    BY <1>1, <2>1 DEF IInv, OneHandled, Handling
  <2>14. OnePair'
    BY <2>1 DEF OnePair
  <2>15. InputsAre'
    BY <1>1, <2>1 DEF IInv, InputsAre, Leaving
  <2>16. TodoReadable' /\ HalfIsLast'
    BY <2>1 DEF IInv, TodoReadable, Readable, Over, HalfIsLast, Handling
  <2>17. Streams'
    <3>1. Len(out'[p]) = Len(out[p]) + 1 /\ out'[p] # <<>> /\ Len(out[p]) \in Nat
      <4>1. x \in Chunks \cup {Reply} /\ out[p] \in Seq(Chunks \cup {Reply})
        BY <2>7, <2>8
      <4>2. Len(Append(out[p], x)) = Len(out[p]) + 1 /\ Append(out[p], x) # <<>> /\ Len(out[p]) \in Nat
        BY <4>1
      <4>. QED  BY <2>9, <4>2
    <3>2. ASSUME NEW r \in Socks  PROVE unread'[r] <= Len(out'[r])
      <4>1. unread[r] <= Len(out[r]) /\ unread[r] \in 0 .. BufCap
        BY <2>4 DEF IInv, Streams
      <4>2. CASE r = p
        BY <2>4, <2>9, <3>1, <4>1, <4>2
      <4>3. CASE r # p
        BY <2>9, <4>1, <4>3
      <4>. QED  BY <4>2, <4>3
    <3>3. \A d \in Conns : Client(d) = p => d = s[1]
      BY <2>3, PairForm
    <3>4. \A d \in Conns : phase[d] # "handling" /\ Client(d) \in Socks
      BY <1>1, PairForm DEF IInv, OneHandled, Handling
    <3>5. UNCHANGED <<got, sent, phase>>
      BY <2>1
    <3>. QED  BY <2>2, <2>9, <3>1, <3>2, <3>3, <3>4, <3>5 DEF IInv, Streams
  <2>18. StreamsIntact'
    <3>0. ASSUME NEW r \in Socks  PROVE InHand(r)' = 0 /\ Len(Data(Other(r))') \in Nat
      <4>1. out'[Other(r)] \in Seq(Chunks \cup {Reply})
        BY <2>3, <2>11 DEF TypeOK
      <4>2. Data(Other(r))' \in Seq(Chunks \cup {Reply})
        BY <4>1 DEF Data
      <4>. QED  BY <2>1, <4>2 DEF InHand
    <3>. SUFFICES ASSUME NEW r \in Socks
                  PROVE  /\ \A i \in 1 .. Len(Data(Other(r))') : Data(Other(r))'[i] = <<r, i>>
                         /\ Len(Data(Other(r))') = got[r]
                         /\ r[2] = "client" /\ out'[r] # <<>> => out'[r][1] = Reply
      BY <2>1, <3>0 DEF StreamsIntact
    <3>1. r[2] = "client" /\ out'[r] # <<>> => out'[r][1] = Reply
      <4>1. CASE r = p
        <5>. SUFFICES ASSUME p[2] = "client"  PROVE out'[p][1] = Reply
          BY <4>1
        <5>1. out[p] # <<>> /\ out[p][1] = Reply
          BY <2>3, <2>5 DEF IInv, StreamsIntact
        <5>2. Append(out[p], x)[1] = out[p][1]
          BY <2>7, <2>8, <5>1
        <5>. QED  BY <2>9, <5>1, <5>2
      <4>2. CASE r # p
        BY <2>9, <4>2 DEF IInv, StreamsIntact
      <4>. QED  BY <4>1, <4>2
    <3>2. CASE r = s
      <4>1. Other(r) = p
        BY <2>2, <3>2
      <4>2. Len(Append(Data(p), x)) = got[s]
        BY <2>7, <2>8
      <4>3. \A i \in 1 .. Len(Append(Data(p), x)) : Append(Data(p), x)[i] = <<s, i>>
        BY <2>6, <2>7, <2>8
      <4>. QED  BY <2>10, <3>1, <3>2, <4>1, <4>2, <4>3
    <3>3. CASE r # s
      <4>1. Other(r) \in Socks /\ Other(r) # p
        BY <2>3, <3>3
      <4>2. Data(Other(r))' = Data(Other(r))
        BY <2>9, <4>1 DEF Data
      <4>3. InHand(r) = 0
        BY <2>0, <3>3 DEF InHand
      <4>4. Len(Data(Other(r))) \in Nat
        BY <2>4, <4>1 DEF Data
      <4>. QED  BY <1>1, <3>1, <4>2, <4>3, <4>4 DEF IInv, StreamsIntact
    <3>. QED  BY <3>2, <3>3
  <2>. QED  BY <2>1, <2>11, <2>12, <2>13, <2>14, <2>15, <2>16, <2>17, <2>18, KeepFdsApart, KeepMapped,
               KeepLoggers DEF IInv
<1>. QED  BY <1>2, <1>3

\* Both sockets of the pair are closed: the far end has nothing more to say.
LEMMA JoinInv ==
  ASSUME IInv, Join
  PROVE  IInv'
<1>. DEFINE s == cur.cfd
            p == cur.sfd
            c == cur.cfd[1]
<1>1. /\ pc = "join" /\ pc' = "loop" /\ cur' = Idle
      /\ fd' = [fd EXCEPT ![s] = Closed, ![p] = Closed]
      /\ phase' = [phase EXCEPT ![c] = "closed"]
      /\ UNCHANGED <<todo, inputs, forward_map, perf_loggers, thread, thread_run,
                     request, sent, got, out, unread, eof, rst>>
  BY DEF Join, Back, loggers
<1>2. s \in Socks /\ p = Other(s) /\ phase[c] = "open"
  BY <1>1 DEF IInv, OnePair
<1>3. /\ p \in Socks /\ p[1] = c /\ p # s /\ Other(p) = s /\ c \in Conns /\ s[1] = c
      /\ \A r \in Socks : r[1] \in Conns /\ (r[1] = c => r = s \/ r = p)
  BY <1>2, OtherForm, SockForm
<1>. HIDE DEF s, p, c
<1>4. /\ phase'[c] = "closed" /\ \A d \in Conns : d # c => phase'[d] = phase[d]
      /\ fd'[s] = Closed /\ fd'[p] = Closed /\ \A r \in Socks : r[1] # c => fd'[r] = fd[r]
  BY <1>1, <1>2, <1>3 DEF IInv, TypeOK
<1>5. TypeOK'
  <2>1. fd' \in [Socks -> Fds \cup {Closed}] /\ phase' \in [Conns -> Phases]
    BY <1>1 DEF IInv, TypeOK, Phases
  <2>2. cur' \in [cfd : Socks \cup {NoSock}, sfd : Socks \cup {NoSock}, perf : Conns \cup {NoLogger}]
    BY <1>1 DEF Idle
  <2>. QED  BY <1>1, <2>1, <2>2 DEF IInv, TypeOK, Pcs
<1>6. FdState'
  <2>. SUFFICES ASSUME NEW r \in Socks  PROVE fd'[r] # Closed <=> IsOpen(r)'
    BY DEF FdState
  <2>1. fd[r] # Closed <=> IsOpen(r)
    BY DEF IInv, FdState
  <2>2. CASE r[1] = c
    BY <1>3, <1>4, <2>2 DEF IsOpen
  <2>3. CASE r[1] # c
    BY <1>1, <1>3, <1>4, <2>1, <2>3 DEF IsOpen
  <2>. QED  BY <2>2, <2>3
<1>7. FdsApart'
  <2>1. \A r \in Socks : fd'[r] = fd[r] \/ fd'[r] = Closed
    BY <1>3, <1>4
  <2>. QED  BY <2>1 DEF IInv, FdsApart
<1>8. OneHandled'
  <2>1. \A d \in Conns : phase[d] # "handling"
    BY <1>1 DEF IInv, OneHandled, Handling
  <2>2. \A d \in Conns : phase'[d] # "handling" /\ (phase'[d] = "orphan" => phase[d] = "orphan")
    BY <1>4, <2>1
  <2>. QED  BY <1>1, <2>2 DEF IInv, OneHandled, Handling
<1>9. OnePair'
  BY <1>1 DEF OnePair
<1>10. InputsAre'
  <2>. SUFFICES ASSUME NEW r \in Socks
                PROVE  r \in inputs <=> phase'[r[1]] \in {"open", "half"}
    BY <1>1 DEF InputsAre, Leaving
  <2>1. r \in inputs <=> phase[r[1]] \in {"open", "half"} /\ r[1] # c
    BY <1>1 DEF IInv, InputsAre, Leaving, c
  <2>. QED  BY <1>3, <1>4, <2>1
<1>11. \A r \in inputs : r \in Socks /\ r[1] # c
  BY <1>1 DEF IInv, InputsAre, Leaving, TypeOK, c
<1>12. Mapped'
  <2>1. \A r \in inputs : fd'[r] = fd[r]
    BY <1>4, <1>11
  <2>2. \A d \in Conns : phase[d] = "half" => phase'[d] = "half"
    BY <1>2, <1>4
  <2>3. UNCHANGED <<inputs, forward_map>>
    BY <1>1
  <2>. QED  BY <2>1, <2>2, <2>3 DEF IInv, Mapped
<1>13. TodoReadable'
  <2>. SUFFICES ASSUME NEW r \in todo \ {Listener}
                PROVE  /\ phase'[r[1]] \in {"open", "closed"} /\ Readable(r)
                       /\ phase'[r[1]] = "closed" => Over(Other(r))
    BY <1>1 DEF TodoReadable, Readable, Over
  <2>1. r \in Socks /\ Readable(r) /\ phase[r[1]] \in {"open", "closed"}
    BY DEF IInv, TypeOK, TodoReadable
  <2>2. CASE r[1] = c
    <3>1. Over(s) /\ s \notin todo
      BY <1>1 DEF IInv, TodoReadable, s
    <3>2. r = p
      BY <1>3, <2>1, <2>2, <3>1
    <3>. QED  BY <1>3, <1>4, <2>1, <2>2, <3>1, <3>2
  <2>3. CASE r[1] # c
    BY <1>3, <1>4, <2>1, <2>3 DEF IInv, TodoReadable
  <2>. QED  BY <2>2, <2>3
<1>14. HalfIsLast'
  BY <1>1, <1>4 DEF IInv, HalfIsLast, Handling
<1>15. LoggersNamed'
  <2>1. \A d \in Conns : d # c => fd'[Client(d)] = fd[Client(d)]
    BY <1>4, PairForm
  <2>2. ASSUME NEW g \in Fds, perf_loggers[g] # NoLogger
        PROVE  \/ thread[perf_loggers[g]] # "none"
               \/ phase'[perf_loggers[g]] = "half" /\ \A r \in Socks : fd'[r] # g
    <3>1. perf_loggers[g] \in Conns
      BY <2>2 DEF IInv, TypeOK
    <3>2. CASE thread[perf_loggers[g]] = "none"
      <4>1. phase[perf_loggers[g]] = "half" /\ \A r \in Socks : fd[r] # g
        BY <2>2, <3>2 DEF IInv, LoggersNamed
      <4>2. \A r \in Socks : fd'[r] = fd[r] \/ fd'[r] = Closed
        BY <1>3, <1>4
      <4>3. g # Closed
        BY ServerAssumption
      <4>. QED  BY <1>2, <1>4, <3>1, <4>1, <4>2, <4>3
    <3>. QED  BY <3>2
  <2>3. UNCHANGED <<perf_loggers, thread>>
    BY <1>1
  <2>. QED  BY <1>4, <2>1, <2>2, <2>3 DEF IInv, LoggersNamed
<1>16. Streams'
  <2>1. \A d \in Conns : phase'[d] # "closed" => phase'[d] = phase[d]
    BY <1>4
  <2>2. \A d \in Conns : phase[d] # "handling"
    BY <1>1 DEF IInv, OneHandled, Handling
  <2>. QED  BY <1>1, <2>1, <2>2 DEF IInv, Streams
<1>17. StreamsIntact'
  BY <1>1, KeepIntactIdle DEF IInv
<1>. QED  BY <1>5, <1>6, <1>7, <1>8, <1>9, <1>10, <1>12, <1>13, <1>14, <1>15, <1>16, <1>17 DEF IInv

-----------------------------------------------------------------------------
(***************************************************************************)
(* The invariants of TCServer.                                             *)
(***************************************************************************)

\* Every step keeps the invariant.
LEMMA InvStep == IInv /\ [Next]_vars => IInv'
<1>. SUFFICES ASSUME IInv, [Next]_vars  PROVE IInv'
  OBVIOUS
<1>1. CASE ServerStep
  BY <1>1, SelectInv, EndLoopInv, AcceptInv, ReadHeaderInv, ReadTlvsInv, ConnectServerInv, SendReplyInv,
     RegisterInv, ReadAndForwardInv, SendDataInv, JoinInv DEF ServerStep
<1>2. CASE \E c \in Conns : \/ LoggerEnds(c) \/ LoggerFails(c)
                            \/ ClientConnects(c) \/ ClientRequests(c)
  BY <1>2, LoggerInv, ConnectsInv, RequestsInv
<1>3. CASE \E s \in Socks : PeerSends(s) \/ PeerReads(s) \/ PeerCloses(s) \/ PeerResets(s)
  BY <1>3, SendsInv, ReadsInv, EndsInv
<1>4. CASE UNCHANGED vars
  <2>1. TypeOK'
    BY <1>4 DEF IInv, TypeOK, vars, server, loggers, network
  <2>. QED  BY <1>4, <2>1, KeepFdState, KeepFdsApart, KeepOneHandled, KeepOnePair, KeepInputs, KeepMapped,
               KeepTodo, KeepHalf, KeepLoggers, KeepStreams, KeepIntact
            DEF IInv, vars, server, loggers, network
<1>. QED  BY <1>1, <1>2, <1>3, <1>4 DEF Next

\* The inductive invariant holds throughout.
LEMMA Invariance == Spec => []IInv
BY InvInit, InvStep, PTL DEF Spec

\* The state of the server keeps its type, for any clients, numbers and bounds.
THEOREM TypeCorrect == Spec => []TypeOK
<1>1. IInv => TypeOK
  BY DEF IInv
<1>. QED  BY <1>1, Invariance, PTL

\* What read_and_forward delivers is what the far end sent, in order, after the
\* answer, and nothing that was read is lost, however numbers are reused.
THEOREM StreamsDelivered == Spec => []StreamsIntact
<1>1. IInv => StreamsIntact
  BY DEF IInv
<1>. QED  BY <1>1, Invariance, PTL

\* In the loop inputs and forward_map describe the same open pairs.
THEOREM MapsAgree == Spec => []MapConsistent
<1>1. IInv => MapConsistent
  <2>. SUFFICES ASSUME IInv, pc \in {"select", "loop"}, \A c \in Conns : phase[c] # "half"
                PROVE  /\ \A s \in inputs : /\ fd[s] # Closed /\ Other(s) \in inputs
                                            /\ forward_map[fd[s]] = Other(s)
                       /\ \A f \in Fds : forward_map[f] # NoSock => \E s \in inputs : fd[s] = f
    BY DEF MapConsistent
  <2>1. ASSUME NEW s \in inputs
        PROVE  fd[s] # Closed /\ Other(s) \in inputs /\ forward_map[fd[s]] = Other(s)
    <3>1. s \in Socks /\ s[1] \in Conns /\ Other(s) \in Socks /\ Other(s)[1] = s[1]
      BY SockForm, OtherForm DEF IInv, TypeOK
    <3>2. phase[s[1]] = "open"
      BY <3>1 DEF IInv, InputsAre
    <3>3. fd[s] # Closed /\ Other(s) \in inputs
      BY <3>1, <3>2 DEF IInv, FdState, IsOpen, InputsAre, Leaving
    <3>. QED  BY <3>3 DEF IInv, Mapped
  <2>. QED  BY <2>1 DEF IInv, Mapped
<1>. QED  BY <1>1, Invariance, PTL

\* Every way out of handle_connection and read_and_forward gives its
\* descriptors back.
THEOREM DescriptorsReturned == Spec => []NoDescriptorLeak
<1>1. IInv => NoDescriptorLeak
  <2>. SUFFICES ASSUME IInv, pc = "select", NEW s \in Socks, fd[s] # Closed, phase[s[1]] # "orphan"
                PROVE  s \in inputs
    BY DEF NoDescriptorLeak
  <2>1. s[1] \in Conns
    BY SockForm
  <2>2. phase[s[1]] # "handling"
    BY <2>1 DEF IInv, OneHandled, Handling
  <2>. QED  BY <2>1, <2>2 DEF IInv, FdState, IsOpen, InputsAre, Leaving
<1>. QED  BY <1>1, Invariance, PTL

\* After the exception that ends the server nothing is said to happen.
LEMMA DeadStays ==
  ASSUME pc = "dead", [Next]_vars
  PROVE  UNCHANGED vars
BY DEF Next, ServerStep, Select, EndLoop, Accept, ReadHeader, ReadTlvs, ConnectServer, SendReply, Register,
       ReadAndForward, SendData, Join, LoggerEnds, LoggerFails, ClientConnects, ClientRequests,
       PeerSends, PeerReads, PeerCloses, PeerResets, Running

\* The exceptions that end the server, and what each of them needs.
LEMMA DeathCause ==
  ASSUME IInv, [Next]_vars, pc # "dead", pc' = "dead"
  PROVE  CrashNeedsCause'
<1>1. CASE Select
  <2>1. (\E s \in inputs : fd[s] = Closed) /\ UNCHANGED network
    BY <1>1 DEF Select, Die
  <2>2. PICK s \in inputs : fd[s] = Closed
    BY <2>1
  <2>3. s \in Socks /\ s[1] \in Conns
    BY SockForm DEF IInv, TypeOK
  <2>4. phase[s[1]] = "half"
    BY <2>2, <2>3 DEF IInv, InputsAre, FdState, IsOpen
  <2>5. Client(s[1]) \in Socks /\ rst[Client(s[1])]
    BY <2>3, <2>4, PairForm DEF IInv, HalfIsLast
  <2>. QED  BY <2>1, <2>5 DEF CrashNeedsCause, network
<1>2. CASE Accept
  BY <1>2 DEF Accept, Die, CrashNeedsCause, FreeFds, network
<1>3. CASE ReadAndForward
  <2>. DEFINE s == First(todo)
  <2>1. pc = "loop" /\ s \in todo \ {Listener} /\ fd[s] = Closed /\ UNCHANGED network
    BY <1>3, FirstExists DEF ReadAndForward, Cleanup, IInv, TypeOK
  <2>. HIDE DEF s
  <2>2. s \in Socks
    BY <2>1 DEF IInv, TypeOK
  <2>3. phase[s[1]] = "closed" /\ Readable(s) /\ Over(Other(s))
    BY <2>1, <2>2 DEF IInv, TodoReadable, FdState, IsOpen
  <2>4. Other(s) \in Socks
    BY <2>2, OtherForm
  <2>5. \/ \E r \in Socks : rst[r]
        \/ \E r \in Socks : /\ phase[r[1]] = "closed" /\ Readable(r)
                            /\ eof[Other(r)] /\ got[Other(r)] = sent[Other(r)]
    BY <2>2, <2>3, <2>4 DEF Over
  <2>. QED  BY <2>1, <2>5 DEF CrashNeedsCause, Readable, network
<1>4. CASE SendData
  <2>1. rst[cur.sfd] /\ UNCHANGED network /\ pc = "send"
    BY <1>4 DEF SendData, Die, Back
  <2>2. cur.sfd \in Socks
    BY <2>1, OtherForm DEF IInv, OnePair
  <2>. QED  BY <2>1, <2>2 DEF CrashNeedsCause, network
<1>. QED  BY <1>1, <1>2, <1>3, <1>4 DEF Next, ServerStep, EndLoop, ReadHeader, ReadTlvs, ConnectServer,
             SendReply, Register, Join, Refuse, Back, LoggerEnds, LoggerFails, ClientConnects,
             ClientRequests, PeerSends, PeerReads, PeerCloses, PeerResets, vars, server

\* An exception that nobody catches needs a reset connection, a process out of
\* descriptors, or a pair closed while its second socket was waiting in readable.
THEOREM CrashExplained == Spec => []CrashNeedsCause
<1>1. Init => CrashNeedsCause
  BY DEF Init, CrashNeedsCause
<1>2. IInv /\ CrashNeedsCause /\ [Next]_vars => CrashNeedsCause'
  <2>1. CASE pc = "dead"
    BY <2>1, DeadStays DEF CrashNeedsCause, Readable, FreeFds, vars, server, network
  <2>2. CASE pc # "dead" /\ pc' = "dead"
    BY <2>2, DeathCause
  <2>3. CASE pc' # "dead"
    BY <2>3 DEF CrashNeedsCause
  <2>. QED  BY <2>1, <2>2, <2>3
<1>. QED  BY <1>1, <1>2, Invariance, PTL DEF Spec

\* Only the join of cleanup_socket_pair closes an open pair, and it waits for the
\* logger that FindLogger found: the pair's own, when the socket to the
\* destination never had the number of a client.
THEOREM LoggersJoined == Spec => LoggerStopped
<1>1. IInv /\ [Next]_vars =>
        [\A c \in Conns : phase[c] = "open" /\ phase'[c] = "closed" =>
           thread[c] # "running" \/ LoggerOf(fd[Server(c)]) # NoLogger]_vars
  <2>. SUFFICES ASSUME IInv, Next, NEW c \in Conns, phase[c] = "open", phase'[c] = "closed",
                       LoggerOf(fd[Server(c)]) = NoLogger
                PROVE  thread[c] # "running"
    OBVIOUS
  <2>1. CASE Join
    <3>1. cur.cfd \in Socks /\ cur.sfd = Other(cur.cfd) /\ cur.perf = FindLogger(cur.cfd, cur.sfd)
      BY <2>1 DEF Join, IInv, OnePair
    <3>2. cur.cfd[1] = c
      <4>1. phase' = [phase EXCEPT ![cur.cfd[1]] = "closed"]
        BY <2>1 DEF Join
      <4>. QED  BY <4>1 DEF IInv, TypeOK
    <3>3. \/ cur.cfd = Client(c) /\ cur.sfd = Server(c)
          \/ cur.cfd = Server(c) /\ cur.sfd = Client(c)
      BY <3>1, <3>2, SockForm, PairForm
    <3>4. LoggerOf(fd[Client(c)]) = c /\ c # NoLogger
      BY PairForm DEF IInv, LoggersNamed, LoggerOf
    <3>5. cur.perf = c
      BY <3>1, <3>3, <3>4 DEF FindLogger
    <3>. QED  BY <2>1, <3>4, <3>5 DEF Join
  <2>2. CASE ReadHeader \/ ReadTlvs \/ ConnectServer \/ SendReply \/ Register
    <3>1. pc \in Handling
      BY <2>2 DEF ReadHeader, ReadTlvs, ConnectServer, SendReply, Register, Handling
    <3>2. phase' = phase \/ \E x : phase' = [phase EXCEPT ![cur.cfd[1]] = x]
      BY <2>2 DEF ReadHeader, ReadTlvs, ConnectServer, SendReply, Register, Refuse, network
    <3>3. cur.cfd[1] # c
      BY <3>1, Handled
    <3>. QED  BY <3>2, <3>3 DEF IInv, TypeOK
  <2>3. CASE Accept
    <3>1. phase' = phase \/ \E e \in Conns :
            phase' = [d \in Conns |-> IF d = e THEN "handling"
                                      ELSE IF phase[d] = "orphan" THEN "closed" ELSE phase[d]]
      BY <2>3 DEF Accept, network
    <3>. QED  BY <3>1
  <2>4. CASE \E d \in Conns : ClientConnects(d)
    BY <2>4 DEF ClientConnects, IInv, TypeOK
  <2>. QED  BY <2>1, <2>2, <2>3, <2>4 DEF Next, ServerStep, Select, EndLoop, ReadAndForward, Cleanup,
               SendData, LoggerEnds, LoggerFails, ClientRequests, PeerSends, PeerReads, PeerCloses,
               PeerResets, network
<1>. QED  BY <1>1, Invariance, PTL DEF Spec, LoggerStopped

-----------------------------------------------------------------------------
(***************************************************************************)
(* The contract with the loggers.                                          *)
(***************************************************************************)

\* A logger that cleanup_socket_pair finds was started.
LEMMA FoundStarted ==
  ASSUME IInv, NEW s \in Socks, NEW p \in Socks, fd[s] \in Fds, fd[p] \in Fds,
         FindLogger(s, p) # NoLogger
  PROVE  FindLogger(s, p) \in Conns /\ thread[FindLogger(s, p)] # "none"
<1>1. PICK r \in {s, p} : FindLogger(s, p) = perf_loggers[fd[r]]
  BY DEF FindLogger, LoggerOf
<1>2. perf_loggers[fd[r]] \in Conns
  BY <1>1 DEF IInv, TypeOK
<1>3. thread[perf_loggers[fd[r]]] # "none"
  BY <1>1 DEF IInv, LoggersNamed
<1>. QED  BY <1>1, <1>2, <1>3

\* The server starts each logger once and stops only loggers it has started, for
\* any number of clients, also when a number of perf_loggers is stale.
THEOREM LoggersHandled == Spec => LoggerContract
<1>1. Init => Life!Init
  BY DEF Init, Life!Init
<1>2. IInv /\ [Next]_vars => [Life!Next]_(Life!vars)
  <2>. SUFFICES ASSUME IInv, [Next]_vars  PROVE Life!Next \/ UNCHANGED <<thread, thread_run>>
    BY DEF Life!vars
  <2>1. CASE Register
    <3>1. CASE UNCHANGED loggers
      BY <3>1 DEF loggers
    <3>2. CASE ~ UNCHANGED loggers
      <4>1. /\ pc \in Handling
            /\ thread' = [thread EXCEPT ![cur.cfd[1]] = "running"]
            /\ thread_run' = [thread_run EXCEPT ![cur.cfd[1]] = TRUE]
        BY <2>1, <3>2 DEF Register, RunFlag, Handling
      <4>2. cur.cfd[1] \in Conns /\ phase[cur.cfd[1]] = "handling"
        BY <4>1, Handled
      <4>3. thread[cur.cfd[1]] = "none"
        BY <4>2 DEF IInv, LoggersNamed
      <4>. QED  BY <4>1, <4>2, <4>3 DEF Life!Next, Life!Start
    <3>. QED  BY <3>1, <3>2
  <2>2. CASE ReadAndForward
    <3>1. CASE UNCHANGED loggers
      BY <3>1 DEF loggers
    <3>2. CASE ~ UNCHANGED loggers
      <4>. DEFINE s == First(todo)
                  p == forward_map[fd[s]]
      <4>1. /\ pc = "loop" /\ s \in todo \ {Listener} /\ fd[s] # Closed
            /\ thread_run' = StopFlag(FindLogger(s, p)) /\ thread' = thread
        BY <2>2, <3>2, FirstExists DEF ReadAndForward, Cleanup, IInv, TypeOK
      <4>2. s \in Socks /\ p = Other(s) /\ fd[s] \in Fds /\ fd[p] \in Fds
        BY <4>1, NextSocket
      <4>3. p \in Socks
        BY <4>2, OtherForm
      <4>. HIDE DEF s, p
      <4>4. CASE FindLogger(s, p) = NoLogger
        <5>1. thread_run' = thread_run
          <6>1. \A c \in Conns : c # FindLogger(s, p)
            BY <4>4, PairForm
          <6>2. thread_run \in [Conns -> BOOLEAN] /\ thread_run' = [c \in Conns |-> thread_run[c]]
            BY <4>1, <6>1 DEF StopFlag, IInv, TypeOK
          <6>. QED  BY <6>2
        <5>. QED  BY <4>1, <5>1
      <4>5. CASE FindLogger(s, p) # NoLogger
        <5>1. FindLogger(s, p) \in Conns /\ thread[FindLogger(s, p)] # "none"
          BY <4>2, <4>3, <4>5, FoundStarted
        <5>2. thread_run' = [thread_run EXCEPT ![FindLogger(s, p)] = FALSE]
          BY <4>1, <5>1 DEF StopFlag, IInv, TypeOK
        <5>. QED  BY <4>1, <5>1, <5>2 DEF Life!Next, Life!Stop
      <4>. QED  BY <4>4, <4>5
    <3>. QED  BY <3>1, <3>2
  <2>3. CASE \E c \in Conns : LoggerEnds(c) \/ LoggerFails(c)
    BY <2>3 DEF LoggerEnds, LoggerFails, Life!Next, Life!Ends
  <2>. QED  BY <2>1, <2>2, <2>3 DEF Next, ServerStep, Select, EndLoop, Accept, ReadHeader, ReadTlvs,
               ConnectServer, SendReply, SendData, Join, ClientConnects, ClientRequests, PeerSends,
               PeerReads, PeerCloses, PeerResets, loggers, vars
<1>. QED  BY <1>1, <1>2, Invariance, PTL DEF Spec, LoggerContract, Life!Spec

-----------------------------------------------------------------------------
(***************************************************************************)
(* The contract with the clients.                                          *)
(***************************************************************************)

\* What the conversation looks like for a client to which q was written and u of
\* it is unread.
Answering(q) == IF q = <<>> THEN "none" ELSE "accept"
Coming(q, u) == u > 0 /\ Len(q) >= 2

\* The conversation in these terms.
TalkState(req, q, u, n, x) ==
  /\ HasAsked = [c \in Conns |-> req[c] \notin {"none", "frag", "head"}]
  /\ HasAnswer = [c \in Conns |-> Answering(q[Client(c)])]
  /\ HasHeard = [c \in Conns |-> u[Client(c)] < Len(q[Client(c)])]
  /\ HasSent = [c \in Conns |-> n[Client(c)] > 0]
  /\ HasData = [c \in Conns |-> Coming(q[Client(c)], u[Client(c)])]
  /\ HasEnded = [c \in Conns |-> x[c] \in {"half", "closed"}]

\* A length other than 0 and 1.
LEMMA Predecessor ==
  ASSUME NEW k \in Nat \ {0}, k # 1
  PROVE  \E n \in Nat : n = k - 1 /\ n >= 1
OBVIOUS

\* A stream that starts with the answer and goes on with chunks of a socket has
\* the answer in its first place only.
LEMMA StreamForm ==
  ASSUME NEW q \in Seq(Chunks \cup {Reply}), NEW s \in Socks, q # <<>> => q[1] = Reply,
         q # <<>> => \A i \in 1 .. Len(Tail(q)) : Tail(q)[i] = <<s, i>>
  PROVE  /\ Reply \in Range(q) <=> q # <<>>
         /\ q # <<>> => (Last(q) # Reply <=> Len(q) >= 2)
<1>1. Reply \in Range(q) => q # <<>>
  BY DEF Range
<1>2. ASSUME q # <<>>
      PROVE  Reply \in Range(q) /\ (Last(q) # Reply <=> Len(q) >= 2)
  <2>1. Len(q) \in Nat \ {0} /\ 1 \in DOMAIN q
    BY <1>2
  <2>2. Reply \in Range(q)
    BY <1>2, <2>1 DEF Range
  <2>3. CASE Len(q) = 1
    <3>1. Last(q) = q[1] /\ q[1] = Reply
      BY <1>2, <2>3 DEF Last
    <3>. QED  BY <2>2, <2>3, <3>1
  <2>4. CASE Len(q) # 1
    <3>1. Len(q) - 1 \in 1 .. Len(Tail(q)) /\ Tail(q)[Len(q) - 1] = q[Len(q)]
      <4>1. PICK n \in Nat : n = Len(q) - 1 /\ n >= 1
        BY <2>1, <2>4, Predecessor
      <4>2. Len(Tail(q)) = n
        BY <1>2, <4>1
      <4>3. Tail(q)[n] = q[n + 1]
        BY <1>2, <4>1, <4>2
      <4>. QED  BY <2>1, <4>1, <4>2, <4>3
    <3>2. q[Len(q)] = <<s, Len(q) - 1>>
      BY <1>2, <3>1
    <3>3. s # NoSock
      BY SockForm
    <3>. QED  BY <2>1, <2>2, <2>4, <3>2, <3>3 DEF Last, Reply
  <2>. QED  BY <2>2, <2>3, <2>4
<1>. QED  BY <1>1, <1>2

\* What was written to a client starts with the answer.
LEMMA ClientStream ==
  ASSUME TypeOK, StreamsIntact, NEW c \in Conns
  PROVE  /\ out[Client(c)] \in Seq(Chunks \cup {Reply})
         /\ Reply \in Range(out[Client(c)]) <=> out[Client(c)] # <<>>
         /\ out[Client(c)] # <<>> => (Last(out[Client(c)]) # Reply <=> Len(out[Client(c)]) >= 2)
<1>1. /\ Client(c) \in Socks /\ Server(c) \in Socks /\ Other(Server(c)) = Client(c)
      /\ Client(c)[2] = "client"
  BY PairForm
<1>2. out[Client(c)] \in Seq(Chunks \cup {Reply})
  BY <1>1 DEF TypeOK
<1>3. out[Client(c)] # <<>> => out[Client(c)][1] = Reply
  BY <1>1 DEF StreamsIntact
<1>4. out[Client(c)] # <<>> => \A i \in 1 .. Len(Tail(out[Client(c)])) : Tail(out[Client(c)])[i] = <<Server(c), i>>
  <2>1. \A i \in 1 .. Len(Data(Client(c))) : Data(Client(c))[i] = <<Server(c), i>>
    BY <1>1 DEF StreamsIntact
  <2>2. out[Client(c)] # <<>> => Data(Client(c)) = Tail(out[Client(c)])
    BY <1>1 DEF Data
  <2>. QED  BY <2>1, <2>2
<1>. QED  BY <1>1, <1>2, <1>3, <1>4, StreamForm

\* The conversation, from what was sent and written.
LEMMA TalkForm == IInv => TalkState(request, out, unread, sent, phase)
<1>. SUFFICES ASSUME IInv  PROVE TalkState(request, out, unread, sent, phase)
  OBVIOUS
<1>1. HasAnswer = [c \in Conns |-> Answering(out[Client(c)])]
  BY ClientStream DEF IInv, HasAnswer, Answering
<1>2. ASSUME NEW c \in Conns
      PROVE  (/\ unread[Client(c)] > 0 /\ out[Client(c)] # <<>> /\ Last(out[Client(c)]) # Reply)
             <=> Coming(out[Client(c)], unread[Client(c)])
  <2>1. out[Client(c)] \in Seq(Chunks \cup {Reply})
    BY ClientStream DEF IInv
  <2>2. Len(out[Client(c)]) >= 2 => out[Client(c)] # <<>>
    BY <2>1
  <2>. QED  BY <2>2, ClientStream DEF IInv, Coming
<1>3. HasData = [c \in Conns |-> Coming(out[Client(c)], unread[Client(c)])]
  BY <1>2 DEF HasData, Coming
<1>. QED  BY <1>1, <1>3 DEF TalkState, HasAsked, HasHeard, HasSent, HasEnded

\* The same in the next state.
LEMMA TalkFormNext == IInv' => TalkState(request, out, unread, sent, phase)'
BY TalkForm, PTL

\* What the conversation with client d depends on does not change.
Quiet(d) ==
  /\ request'[d] = request[d] /\ out'[Client(d)] = out[Client(d)]
  /\ unread'[Client(d)] = unread[Client(d)] /\ sent'[Client(d)] = sent[Client(d)]
  /\ phase'[d] \in {"half", "closed"} <=> phase[d] \in {"half", "closed"}

\* A step that concerns client c alone.
LEMMA OneClient ==
  ASSUME IInv, IInv', NEW c \in Conns, \A d \in Conns \ {c} : Quiet(d)
  PROVE  /\ HasAsked' = [HasAsked EXCEPT ![c] = request'[c] \notin {"none", "frag", "head"}]
         /\ HasAnswer' = [HasAnswer EXCEPT ![c] = Answering(out'[Client(c)])]
         /\ HasHeard' = [HasHeard EXCEPT ![c] = unread'[Client(c)] < Len(out'[Client(c)])]
         /\ HasSent' = [HasSent EXCEPT ![c] = sent'[Client(c)] > 0]
         /\ HasData' = [HasData EXCEPT ![c] = Coming(out'[Client(c)], unread'[Client(c)])]
         /\ HasEnded' = [HasEnded EXCEPT ![c] = phase'[c] \in {"half", "closed"}]
<1>1. TalkState(request, out, unread, sent, phase) /\ TalkState(request, out, unread, sent, phase)'
  BY TalkForm, TalkFormNext
<1>2. HasAsked' = [HasAsked EXCEPT ![c] = request'[c] \notin {"none", "frag", "head"}]
  BY <1>1 DEF TalkState, Quiet
<1>3. HasAnswer' = [HasAnswer EXCEPT ![c] = Answering(out'[Client(c)])]
  BY <1>1 DEF TalkState, Quiet
<1>4. HasHeard' = [HasHeard EXCEPT ![c] = unread'[Client(c)] < Len(out'[Client(c)])]
  BY <1>1 DEF TalkState, Quiet
<1>5. HasSent' = [HasSent EXCEPT ![c] = sent'[Client(c)] > 0]
  BY <1>1 DEF TalkState, Quiet
<1>6. HasData' = [HasData EXCEPT ![c] = Coming(out'[Client(c)], unread'[Client(c)])]
  BY <1>1 DEF TalkState, Quiet
<1>7. HasEnded' = [HasEnded EXCEPT ![c] = phase'[c] \in {"half", "closed"}]
  BY <1>1 DEF TalkState, Quiet
<1>. QED  BY <1>2, <1>3, <1>4, <1>5, <1>6, <1>7

\* What does not change for client c does not change.
LEMMA SameAt ==
  ASSUME IInv, IInv', NEW c \in Conns, \A d \in Conns \ {c} : Quiet(d)
  PROVE  /\ (request'[c] \in {"none", "frag", "head"} <=> request[c] \in {"none", "frag", "head"}) =>
              HasAsked' = HasAsked
         /\ (out'[Client(c)] = <<>> <=> out[Client(c)] = <<>>) => HasAnswer' = HasAnswer
         /\ (unread'[Client(c)] < Len(out'[Client(c)]) <=> unread[Client(c)] < Len(out[Client(c)])) =>
              HasHeard' = HasHeard
         /\ sent'[Client(c)] = sent[Client(c)] => HasSent' = HasSent
         /\ (Coming(out'[Client(c)], unread'[Client(c)]) <=> Coming(out[Client(c)], unread[Client(c)])) =>
              HasData' = HasData
         /\ (phase'[c] \in {"half", "closed"} <=> phase[c] \in {"half", "closed"}) => HasEnded' = HasEnded
<1>1. TalkState(request, out, unread, sent, phase) /\ TalkState(request, out, unread, sent, phase)'
  BY TalkForm, TalkFormNext
<1>2. (request'[c] \in {"none", "frag", "head"} <=> request[c] \in {"none", "frag", "head"}) =>
        HasAsked' = HasAsked
  BY <1>1 DEF TalkState, Quiet
<1>3. (out'[Client(c)] = <<>> <=> out[Client(c)] = <<>>) => HasAnswer' = HasAnswer
  BY <1>1 DEF TalkState, Quiet, Answering
<1>4. (unread'[Client(c)] < Len(out'[Client(c)]) <=> unread[Client(c)] < Len(out[Client(c)])) =>
        HasHeard' = HasHeard
  BY <1>1 DEF TalkState, Quiet
<1>5. sent'[Client(c)] = sent[Client(c)] => HasSent' = HasSent
  BY <1>1 DEF TalkState, Quiet
<1>6. (Coming(out'[Client(c)], unread'[Client(c)]) <=> Coming(out[Client(c)], unread[Client(c)])) =>
        HasData' = HasData
  BY <1>1 DEF TalkState, Quiet, Coming
<1>7. (phase'[c] \in {"half", "closed"} <=> phase[c] \in {"half", "closed"}) => HasEnded' = HasEnded
  BY <1>1 DEF TalkState, Quiet
<1>. QED  BY <1>2, <1>3, <1>4, <1>5, <1>6, <1>7

\* The conversation with client c.
LEMMA AtClient ==
  ASSUME IInv, NEW c \in Conns
  PROVE  /\ HasAsked[c] <=> request[c] \notin {"none", "frag", "head"}
         /\ HasAnswer[c] = Answering(out[Client(c)])
         /\ HasHeard[c] <=> unread[Client(c)] < Len(out[Client(c)])
         /\ HasEnded[c] <=> phase[c] \in {"half", "closed"}
<1>1. TalkState(request, out, unread, sent, phase)
  BY TalkForm
<1>. QED  BY <1>1 DEF TalkState

\* A step of the conversation, or none.
Talks == Talk!Next \/ UNCHANGED <<HasAsked, HasAnswer, HasHeard, HasSent, HasData, HasEnded>>

\* Nothing the conversation depends on changes.
LEMMA TalkQuiet ==
  ASSUME IInv, IInv', \A d \in Conns : Quiet(d)
  PROVE  Talks
<1>1. TalkState(request, out, unread, sent, phase) /\ TalkState(request, out, unread, sent, phase)'
  BY TalkForm, TalkFormNext
<1>2. HasAsked' = HasAsked /\ HasAnswer' = HasAnswer /\ HasHeard' = HasHeard
  BY <1>1 DEF TalkState, Quiet
<1>3. HasSent' = HasSent /\ HasData' = HasData /\ HasEnded' = HasEnded
  BY <1>1 DEF TalkState, Quiet
<1>. QED  BY <1>2, <1>3 DEF Talks

\* The socket of one client is closed.
LEMMA TalkOver ==
  ASSUME IInv, IInv', NEW c \in Conns, \A d \in Conns \ {c} : Quiet(d),
         UNCHANGED <<request, out, unread, sent>>, phase'[c] \in {"half", "closed"}
  PROVE  Talks
<1>1. HasEnded' = [HasEnded EXCEPT ![c] = TRUE]
  BY OneClient
<1>2. HasAsked' = HasAsked /\ HasAnswer' = HasAnswer /\ HasHeard' = HasHeard
  BY SameAt
<1>3. HasSent' = HasSent /\ HasData' = HasData
  BY SameAt
<1>. QED  BY <1>1, <1>2, <1>3 DEF Talks, Talk!Next, Talk!Over

\* The client's header arrives.
LEMMA TalkRequests ==
  ASSUME IInv, IInv', NEW c \in Conns, ClientRequests(c)
  PROVE  Talks
<1>1. /\ request[c] \in {"none", "head"}
      /\ \E r \in Headers \cup {"connect"} : request' = [request EXCEPT ![c] = r]
      /\ UNCHANGED <<phase, sent, out, unread>>
  BY DEF ClientRequests
<1>2. \A d \in Conns \ {c} : Quiet(d)
  BY <1>1 DEF IInv, TypeOK, Quiet
<1>3. HasAnswer' = HasAnswer /\ HasHeard' = HasHeard
  BY <1>1, <1>2, SameAt
<1>4. HasSent' = HasSent /\ HasData' = HasData /\ HasEnded' = HasEnded
  BY <1>1, <1>2, SameAt
<1>5. ~ HasAsked[c]
  BY <1>1, AtClient
<1>6. CASE request'[c] \in {"none", "frag", "head"}
  <2>1. HasAsked' = HasAsked
    BY <1>1, <1>2, <1>6, SameAt
  <2>. QED  BY <1>3, <1>4, <2>1 DEF Talks
<1>7. CASE request'[c] \notin {"none", "frag", "head"}
  <2>1. HasAsked' = [HasAsked EXCEPT ![c] = TRUE]
    BY <1>2, <1>7, OneClient
  <2>. QED  BY <1>3, <1>4, <1>5, <2>1 DEF Talks, Talk!Next, Talk!Ask
<1>. QED  BY <1>6, <1>7

\* The answer follows a whole header, and nothing was written before.
LEMMA TalkReply ==
  ASSUME IInv, IInv', SendReply
  PROVE  Talks
<1>. DEFINE c == cur.cfd[1]
<1>1. pc = "reply" /\ pc \in Handling
  BY DEF SendReply, Handling
<1>2. c \in Conns /\ phase[c] = "handling"
  BY <1>1, Handled
<1>3. CASE Refuse(c)
  <2>1. /\ phase' = [phase EXCEPT ![c] = "closed"] /\ UNCHANGED <<request, out, unread, sent>>
    BY <1>3 DEF Refuse
  <2>2. phase'[c] = "closed" /\ \A d \in Conns \ {c} : Quiet(d)
    BY <1>2, <2>1 DEF IInv, TypeOK, Quiet
  <2>. QED  BY <1>2, <2>1, <2>2, TalkOver
<1>4. CASE ~ Refuse(c)
  <2>1. /\ out' = [out EXCEPT ![Client(c)] = Append(out[Client(c)], Reply)]
        /\ unread' = [unread EXCEPT ![Client(c)] = @ + 1]
        /\ UNCHANGED <<request, phase, sent>>
    BY <1>4 DEF SendReply, Answered
  <2>2. out[Client(c)] = <<>> /\ request[c] = "connect"
    BY <1>1, <1>2 DEF IInv, Streams, OneHandled
  <2>3. /\ Client(c) \in Socks
        /\ \A d \in Conns : Client(d) \in Socks /\ (d # c => Client(d) # Client(c))
    BY <1>2, PairForm, ConnsApart
  <2>4. unread[Client(c)] = 0
    BY <2>2, <2>3, ServerAssumption DEF IInv, TypeOK, Streams
  <2>. HIDE DEF c
  <2>5. out'[Client(c)] = <<Reply>> /\ unread'[Client(c)] = 1
    BY <2>1, <2>2, <2>3, <2>4 DEF IInv, TypeOK
  <2>6. \A d \in Conns \ {c} : Quiet(d)
    BY <2>1, <2>3 DEF IInv, TypeOK, Quiet
  <2>7. Len(<<Reply>>) = 1 /\ <<Reply>> # <<>> /\ Len(<<>>) = 0
    OBVIOUS
  <2>8. HasAsked[c] /\ HasAnswer[c] = "none" /\ ~ HasEnded[c]
    BY <1>2, <2>2, AtClient DEF Answering
  <2>9. HasAnswer' = [HasAnswer EXCEPT ![c] = "accept"]
    BY <1>2, <2>5, <2>6, <2>7, OneClient DEF Answering
  <2>10. HasHeard' = HasHeard /\ HasData' = HasData
    <3>1. unread'[Client(c)] < Len(out'[Client(c)]) <=> unread[Client(c)] < Len(out[Client(c)])
      BY <2>2, <2>4, <2>5, <2>7
    <3>2. Coming(out'[Client(c)], unread'[Client(c)]) <=> Coming(out[Client(c)], unread[Client(c)])
      BY <2>2, <2>4, <2>5, <2>7 DEF Coming
    <3>. QED  BY <1>2, <2>6, <3>1, <3>2, SameAt
  <2>11. HasAsked' = HasAsked /\ HasSent' = HasSent /\ HasEnded' = HasEnded
    BY <1>2, <2>1, <2>6, SameAt
  <2>. QED  BY <1>2, <2>8, <2>9, <2>10, <2>11 DEF Talks, Talk!Next, Talk!Answer
<1>. QED  BY <1>3, <1>4

\* The client reads: the answer comes first.
LEMMA TalkReads ==
  ASSUME IInv, IInv', NEW s \in Socks, PeerReads(s)
  PROVE  Talks
<1>1. /\ unread[s] > 0 /\ unread' = [unread EXCEPT ![s] = @ - 1]
      /\ UNCHANGED <<request, phase, out, sent>>
  BY DEF PeerReads
<1>2. unread'[s] = unread[s] - 1 /\ \A r \in Socks \ {s} : unread'[r] = unread[r]
  BY <1>1 DEF IInv, TypeOK
<1>3. CASE \A d \in Conns : Client(d) # s
  <2>1. \A d \in Conns : Quiet(d)
    BY <1>1, <1>2, <1>3, PairForm DEF Quiet
  <2>. QED  BY <2>1, TalkQuiet
<1>4. ASSUME NEW c \in Conns, s = Client(c)  PROVE Talks
  <2>1. \A d \in Conns \ {c} : Quiet(d)
    BY <1>1, <1>2, <1>4, PairForm, ConnsApart DEF Quiet
  <2>2. /\ unread[s] \in Nat /\ unread[s] <= Len(out[s]) /\ Len(out[s]) \in Nat
        /\ out[s] \in Seq(Chunks \cup {Reply})
    <3>1. unread[s] \in 0 .. BufCap /\ out[s] \in Seq(Chunks \cup {Reply}) /\ unread[s] <= Len(out[s])
      BY DEF IInv, TypeOK, Streams
    <3>. QED  BY <3>1, ServerAssumption
  <2>3. out[s] # <<>>
    BY <1>1, <2>2
  <2>4. HasAnswer[c] = "accept"
    BY <1>4, <2>3, AtClient DEF Answering
  <2>5. HasAsked' = HasAsked /\ HasAnswer' = HasAnswer
    BY <1>1, <2>1, SameAt
  <2>6. HasSent' = HasSent /\ HasEnded' = HasEnded
    BY <1>1, <2>1, SameAt
  <2>7. HasHeard' = [HasHeard EXCEPT ![c] = TRUE]
    <3>1. unread'[s] < Len(out'[s])
      BY <1>1, <1>2, <2>2
    <3>. QED  BY <1>4, <2>1, <3>1, OneClient
  <2>8. CASE HasHeard[c]
    <3>1. HasHeard' = HasHeard
      <4>1. unread'[s] < Len(out'[s]) /\ unread[s] < Len(out[s])
        BY <1>1, <1>2, <1>4, <2>2, <2>8, AtClient
      <4>. QED  BY <1>4, <2>1, <4>1, SameAt
    <3>2. HasData' = [HasData EXCEPT ![c] = FALSE] \/ HasData' = HasData
      <4>1. CASE Coming(out[s], unread'[s])
        <5>1. Coming(out[s], unread[s])
          BY <1>1, <2>2, <4>1 DEF Coming
        <5>. QED  BY <1>1, <1>4, <2>1, <4>1, <5>1, SameAt
      <4>2. CASE ~ Coming(out[s], unread'[s])
        BY <1>1, <1>4, <2>1, <4>2, OneClient
      <4>. QED  BY <4>1, <4>2
    <3>. QED  BY <2>5, <2>6, <3>1, <3>2 DEF Talks, Talk!Next, Talk!Drain
  <2>9. CASE ~ HasHeard[c]
    <3>1. unread[s] = Len(out[s])
      BY <1>4, <2>2, <2>9, AtClient
    <3>2. Coming(out'[s], unread'[s]) <=> Coming(out[s], unread[s])
      BY <1>1, <1>2, <2>2, <3>1 DEF Coming
    <3>3. HasData' = HasData
      BY <1>4, <2>1, <3>2, SameAt
    <3>. QED  BY <2>4, <2>5, <2>6, <2>7, <3>3 DEF Talks, Talk!Next, Talk!Hear
  <2>. QED  BY <2>8, <2>9
<1>. QED  BY <1>3, <1>4

\* The client sends data: it has read the answer.
LEMMA TalkSends ==
  ASSUME IInv, IInv', NEW s \in Socks, PeerSends(s)
  PROVE  Talks
<1>1. /\ sent' = [sent EXCEPT ![s] = @ + 1] /\ UNCHANGED <<request, phase, out, unread>>
      /\ s[2] = "client" => unread[s] < Len(out[s])
  BY DEF PeerSends
<1>2. sent'[s] = sent[s] + 1 /\ sent[s] \in Nat /\ \A r \in Socks \ {s} : sent'[r] = sent[r]
  BY <1>1, ServerAssumption DEF IInv, TypeOK
<1>3. CASE \A d \in Conns : Client(d) # s
  <2>1. \A d \in Conns : Quiet(d)
    BY <1>1, <1>2, <1>3, PairForm DEF Quiet
  <2>. QED  BY <2>1, TalkQuiet
<1>4. ASSUME NEW c \in Conns, s = Client(c)  PROVE Talks
  <2>1. \A d \in Conns \ {c} : Quiet(d)
    BY <1>1, <1>2, <1>4, PairForm, ConnsApart DEF Quiet
  <2>2. HasHeard[c]
    BY <1>1, <1>4, PairForm, AtClient
  <2>3. HasSent' = [HasSent EXCEPT ![c] = TRUE]
    <3>1. sent'[s] > 0
      BY <1>2
    <3>. QED  BY <1>4, <2>1, <3>1, OneClient
  <2>4. HasAsked' = HasAsked /\ HasAnswer' = HasAnswer /\ HasHeard' = HasHeard
    BY <1>1, <2>1, SameAt
  <2>5. HasData' = HasData /\ HasEnded' = HasEnded
    BY <1>1, <2>1, SameAt
  <2>. QED  BY <2>2, <2>3, <2>4, <2>5 DEF Talks, Talk!Next, Talk!Up
<1>. QED  BY <1>3, <1>4

\* The destination's data go to a client that was answered and is not closed.
LEMMA TalkData ==
  ASSUME IInv, IInv', SendData
  PROVE  Talks
<1>1. pc = "send"
  BY DEF SendData
<1>2. CASE Die
  <2>1. UNCHANGED <<request, out, unread, sent, phase>>
    BY <1>2 DEF SendData, Die, Back, network
  <2>. QED  BY <2>1, TalkQuiet DEF Quiet
<1>3. CASE ~ Die
  <2>1. PICK p \in Socks, x \in Chunks \cup {Reply} :
          /\ p = cur.sfd /\ phase[p[1]] = "open" /\ p[1] \in Conns /\ x = <<cur.cfd, got[cur.cfd]>>
    <3>1. /\ cur.cfd \in Socks /\ cur.sfd = Other(cur.cfd) /\ phase[cur.cfd[1]] = "open"
      BY <1>1 DEF IInv, OnePair
    <3>2. cur.sfd \in Socks /\ cur.sfd[1] = cur.cfd[1] /\ cur.cfd[1] \in Conns
      BY <3>1, OtherForm, SockForm
    <3>3. got[cur.cfd] \in 1 .. MaxData
      <4>1. got[cur.cfd] \in 0 .. MaxData /\ Len(Data(cur.sfd)) + 1 = got[cur.cfd]
        BY <1>1, <3>1 DEF IInv, TypeOK, StreamsIntact, InHand
      <4>2. Len(Data(cur.sfd)) \in Nat
        <5>1. out[cur.sfd] \in Seq(Chunks \cup {Reply})
          BY <3>2 DEF IInv, TypeOK
        <5>. QED  BY <5>1 DEF Data
      <4>. QED  BY <4>1, <4>2, ServerAssumption
    <3>. QED  BY <3>1, <3>2, <3>3 DEF Chunks
  <2>2. /\ out' = [out EXCEPT ![p] = Append(out[p], x)]
        /\ unread' = [unread EXCEPT ![p] = @ + 1] /\ UNCHANGED <<request, phase, sent>>
    BY <1>3, <2>1 DEF SendData, Written
  <2>3. /\ out'[p] = Append(out[p], x) /\ unread'[p] = unread[p] + 1
        /\ \A r \in Socks \ {p} : out'[r] = out[r] /\ unread'[r] = unread[r]
    BY <2>2 DEF IInv, TypeOK
  <2>4. CASE \A d \in Conns : Client(d) # p
    <3>1. \A d \in Conns : Quiet(d)
      BY <2>2, <2>3, <2>4, PairForm DEF Quiet
    <3>. QED  BY <3>1, TalkQuiet
  <2>5. ASSUME NEW c \in Conns, p = Client(c)  PROVE Talks
    <3>1. \A d \in Conns \ {c} : Quiet(d)
      BY <2>2, <2>3, <2>5, PairForm, ConnsApart DEF Quiet
    <3>2. phase[c] = "open" /\ out[p] # <<>>
      <4>1. phase[c] = "open"
        BY <2>1, <2>5, PairForm
      <4>. QED  BY <2>5, <4>1 DEF IInv, Streams
    <3>3. unread[p] \in Nat /\ out[p] \in Seq(Chunks \cup {Reply}) /\ Len(out[p]) \in Nat
      <4>1. unread[p] \in 0 .. BufCap /\ out[p] \in Seq(Chunks \cup {Reply})
        BY DEF IInv, TypeOK
      <4>. QED  BY <4>1, ServerAssumption
    <3>4. Len(out'[p]) = Len(out[p]) + 1 /\ Len(out'[p]) >= 2 /\ out'[p] # <<>>
      <4>1. Len(Append(out[p], x)) = Len(out[p]) + 1 /\ Append(out[p], x) # <<>> /\ Len(out[p]) # 0
        BY <3>2, <3>3
      <4>. QED  BY <2>3, <3>3, <4>1
    <3>5. HasData' = [HasData EXCEPT ![c] = TRUE]
      <4>1. Coming(out'[p], unread'[p])
        BY <2>3, <3>3, <3>4 DEF Coming
      <4>. QED  BY <2>5, <3>1, <4>1, OneClient
    <3>6. HasAnswer[c] = "accept" /\ ~ HasEnded[c]
      BY <2>5, <3>2, AtClient DEF Answering
    <3>7. HasAnswer' = HasAnswer
      BY <2>5, <3>1, <3>2, <3>4, SameAt
    <3>8. HasHeard' = HasHeard
      <4>1. unread'[p] < Len(out'[p]) <=> unread[p] < Len(out[p])
        BY <2>3, <3>3, <3>4
      <4>. QED  BY <2>5, <3>1, <4>1, SameAt
    <3>9. HasAsked' = HasAsked /\ HasSent' = HasSent /\ HasEnded' = HasEnded
      BY <2>2, <3>1, SameAt
    <3>. QED  BY <3>5, <3>6, <3>7, <3>8, <3>9 DEF Talks, Talk!Next, Talk!Down
  <2>. QED  BY <2>4, <2>5
<1>. QED  BY <1>2, <1>3

\* The steps of handle_connection that do not write, and the join.
LEMMA TalkHandles ==
  ASSUME IInv, IInv', ReadHeader \/ ReadTlvs \/ ConnectServer \/ Register \/ Join
  PROVE  Talks
<1>. DEFINE c == cur.cfd[1]
<1>1. UNCHANGED <<request, out, unread, sent>>
  BY DEF ReadHeader, ReadTlvs, ConnectServer, Register, Join, Refuse, network
<1>2. \/ phase' = phase
      \/ \E x \in {"closed", "half"} : phase' = [phase EXCEPT ![c] = x]
      \/ pc \in Handling /\ \E x \in {"orphan", "open"} : phase' = [phase EXCEPT ![c] = x]
  BY DEF ReadHeader, ReadTlvs, ConnectServer, Register, Join, Refuse, network, Handling
<1>3. c \in Conns /\ (pc \in Handling => phase[c] = "handling")
  <2>1. CASE pc \in Handling
    BY <2>1, Handled
  <2>2. CASE pc = "join"
    BY <2>2, SockForm DEF IInv, OnePair, Handling
  <2>. QED  BY <2>1, <2>2 DEF ReadHeader, ReadTlvs, ConnectServer, Register, Join, Handling
<1>. HIDE DEF c
<1>4. \A d \in Conns \ {c} : Quiet(d)
  BY <1>1, <1>2 DEF IInv, TypeOK, Quiet
<1>5. CASE phase'[c] \in {"half", "closed"}
  BY <1>1, <1>3, <1>4, <1>5, TalkOver
<1>6. CASE phase'[c] \notin {"half", "closed"}
  <2>1. phase[c] \notin {"half", "closed"}
    BY <1>2, <1>3, <1>6 DEF IInv, TypeOK
  <2>2. \A d \in Conns : Quiet(d)
    BY <1>1, <1>4, <1>6, <2>1 DEF Quiet
  <2>. QED  BY <2>2, TalkQuiet
<1>. QED  BY <1>5, <1>6

\* The orphan whose last reference accept drops is over.
LEMMA TalkAccept ==
  ASSUME IInv, IInv', Accept
  PROVE  Talks
<1>1. UNCHANGED <<request, out, unread, sent>>
  BY DEF Accept, network
<1>2. CASE UNCHANGED phase
  BY <1>1, <1>2, TalkQuiet DEF Quiet
<1>3. CASE ~ UNCHANGED phase
  <2>1. PICK c \in Conns :
          /\ phase[c] = "backlog"
          /\ phase' = [d \in Conns |-> IF d = c THEN "handling"
                                       ELSE IF phase[d] = "orphan" THEN "closed" ELSE phase[d]]
    BY <1>3 DEF Accept, network
  <2>2. CASE \A d \in Conns : phase[d] # "orphan"
    <3>1. \A d \in Conns : Quiet(d)
      BY <1>1, <2>1, <2>2 DEF Quiet
    <3>. QED  BY <3>1, TalkQuiet
  <2>3. ASSUME NEW e \in Conns, phase[e] = "orphan"  PROVE Talks
    <3>1. \A d \in Conns : phase[d] = "orphan" => d = e
      BY <2>3 DEF IInv, OneHandled
    <3>2. \A d \in Conns \ {e} : Quiet(d)
      BY <1>1, <2>1, <3>1 DEF Quiet
    <3>3. phase'[e] = "closed"
      BY <2>1, <2>3
    <3>. QED  BY <1>1, <3>2, <3>3, TalkOver
  <2>. QED  BY <2>2, <2>3
<1>. QED  BY <1>2, <1>3

\* On every connection the server keeps the Converter's part of the protocol:
\* one answer, to a whole header, before any data, and nothing after the close.
THEOREM ProtocolKept == Spec => ConverterContract
<1>1. Init => Talk!Init
  <2>. SUFFICES ASSUME Init  PROVE Talk!Init
    OBVIOUS
  <2>1. \A c \in Conns : Client(c) \in Socks /\ out[Client(c)] = <<>> /\ unread[Client(c)] = 0
                         /\ sent[Client(c)] = 0
    BY PairForm DEF Init
  <2>2. Range(<<>>) = {} /\ Len(<<>>) = 0
    BY DEF Range
  <2>3. HasAnswer = [c \in Conns |-> "none"]
    BY <2>1, <2>2 DEF HasAnswer
  <2>4. HasAsked = [c \in Conns |-> FALSE] /\ HasEnded = [c \in Conns |-> FALSE]
    <3>1. \A c \in Conns : /\ (request[c] \notin {"none", "frag", "head"}) = FALSE
                            /\ (phase[c] \in {"half", "closed"}) = FALSE
      BY DEF Init
    <3>. QED  BY <3>1, Zenon DEF HasAsked, HasEnded
  <2>5. HasHeard = [c \in Conns |-> FALSE] /\ HasSent = [c \in Conns |-> FALSE]
    <3>1. \A c \in Conns : /\ (unread[Client(c)] < Len(out[Client(c)])) = FALSE
                            /\ (sent[Client(c)] > 0) = FALSE
      BY <2>1, <2>2
    <3>. QED  BY <3>1, Zenon DEF HasHeard, HasSent
  <2>6. HasData = [c \in Conns |-> FALSE]
    BY <2>1 DEF HasData
  <2>. QED  BY <2>3, <2>4, <2>5, <2>6 DEF Talk!Init, Talk!None
<1>2. IInv /\ IInv' /\ [Next]_vars => [Talk!Next]_(Talk!vars)
  <2>. SUFFICES ASSUME IInv, IInv', [Next]_vars  PROVE Talks
    BY DEF Talks, Talk!vars
  <2>1. CASE SendReply \/ SendData \/ Accept
    BY <2>1, TalkReply, TalkData, TalkAccept
  <2>2. CASE ReadHeader \/ ReadTlvs \/ ConnectServer \/ Register \/ Join
    BY <2>2, TalkHandles
  <2>3. CASE \E c \in Conns : ClientRequests(c)
    BY <2>3, TalkRequests
  <2>4. CASE \E s \in Socks : PeerSends(s) \/ PeerReads(s)
    BY <2>4, TalkSends, TalkReads
  <2>5. CASE \E c \in Conns : ClientConnects(c)
    <3>1. PICK c \in Conns : ClientConnects(c)
      BY <2>5
    <3>2. \A d \in Conns : Quiet(d)
      BY <3>1 DEF ClientConnects, Quiet, IInv, TypeOK
    <3>. QED  BY <3>2, TalkQuiet
  <2>6. CASE \/ Select \/ EndLoop \/ ReadAndForward \/ UNCHANGED vars
             \/ \E c \in Conns : LoggerEnds(c) \/ LoggerFails(c)
             \/ \E s \in Socks : PeerCloses(s) \/ PeerResets(s)
    <3>1. UNCHANGED <<request, out, unread, sent, phase>>
      BY <2>6 DEF Select, EndLoop, ReadAndForward, Cleanup, LoggerEnds, LoggerFails, PeerCloses,
                  PeerResets, vars, network
    <3>. QED  BY <3>1, TalkQuiet DEF Quiet
  <2>. QED  BY <2>1, <2>2, <2>3, <2>4, <2>5, <2>6 DEF Next, ServerStep
<1>. QED  BY <1>1, <1>2, Invariance, PTL DEF Spec, ConverterContract, Talk!Spec
=============================================================================

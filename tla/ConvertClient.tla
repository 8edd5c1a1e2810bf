--------------------------- MODULE ConvertClient ---------------------------
(***************************************************************************)
(* lib_convert, the LD_PRELOAD library that redirects an application's     *)
(* MPTCP connections to a Transport Converter                              *)
(* (src/lib_convert/convert_client.c).                                     *)
(*                                                                         *)
(* The library intercepts socket, connect, recv, send and close.  For each *)
(* MPTCP socket it allocates a socket_state_t and links it in a hash table *)
(* guarded by one mutex.  connect() connects to the Converter instead of   *)
(* the destination, sends a Convert header naming the destination, reads   *)
(* the Converter's answer with _read_convert and frees the state.  The     *)
(* mutex covers only the list operations: a call keeps the bare pointer    *)
(* _lookup returned while it blocks in the kernel.                         *)
(*                                                                         *)
(* A step of a thread is what runs between two points where other threads  *)
(* or the network can interfere: one critical section, one system call,    *)
(* one free().  The kernel's sockets are external to the library and are   *)
(* modelled from how it uses them.                                         *)
(***************************************************************************)
EXTENDS Naturals, Sequences

CONSTANTS
  Threads,       \* the application's threads
  Fds,           \* the descriptors the kernel hands out
  Cells,         \* the heap cells malloc returns for socket_state_t
  Nil,           \* NULL
  NUM_BUCKETS,   \* the size of the hash table (1024 in the code)
  CookieFits,    \* the Convert header, cookie included, fits buf[1024]
  AsyncConnect,  \* connect() may return -1 and go on: O_NONBLOCK or EINTR
  Overlaps,      \* the application may make two calls on one descriptor at once
  RawIO,         \* the application may also use read(), not intercepted
  Replies,       \* the answers a Converter may give, as chunks of its stream
  MaxSent,       \* bound: chunks written to one socket
  MaxQueue       \* bound: chunks in one receive queue

Chunk == {"hdr0", "hdrN", "badHdr", "tlvOk", "tlvError", "tlvBad", "data"}

ASSUME ClientAssumption ==
  /\ Fds \subseteq Nat
  /\ NUM_BUCKETS \in Nat \ {0}
  /\ Nil \notin Fds /\ Nil \notin Cells
  /\ CookieFits \in BOOLEAN /\ AsyncConnect \in BOOLEAN
  /\ Overlaps \in BOOLEAN /\ RawIO \in BOOLEAN
  /\ Replies \subseteq Seq(Chunk \ {"data"})
  /\ MaxSent \in Nat /\ MaxQueue \in Nat

VARIABLES
  kind,      \* kind[fd]: what the kernel's descriptor fd is
  net,       \* net[fd]: the kernel's socket behind fd
  obj,       \* obj[cell]: the fd field of an allocated state, Nil when free
  htable,    \* htable[b]: the states linked in bucket b
  call,      \* call[t]: the intercepted call thread t is in
  overlap,   \* two calls on one descriptor have been in progress at once
  memerr,    \* a freed or unlinked state was used: undefined behaviour
  told,      \* told[fd]: what connect() returned to the application
  verdict,   \* verdict[fd]: what _read_convert made of the answer
  exposed    \* the sockets whose Convert bytes the application received

vars == <<kind, net, obj, htable, call, overlap, memerr, told, verdict, exposed>>

Pcs == {"idle", "alloc", "redirect", "sendhdr", "rdhdr", "rdtlv", "rderr",
        "unlink", "free", "lconnect", "lrecv", "lsend", "lclose"}
\* The points at which the thread is about to use its socket_state_t pointer.
Holding == {"redirect", "sendhdr", "rdhdr", "rdtlv", "rderr", "unlink", "free"}
\* What follows _free_state.
Conts == {"lconnect", "skip", "run", "lclose"}

Buckets == 0 .. (NUM_BUCKETS - 1)

Sock == [peer : {"none", "converter", "server"}, sent : Seq({"hdr", "data"}),
         rq : Seq(Chunk), answer : {"none", "accept", "refuse"},
         eof : BOOLEAN, nolinger : BOOLEAN]

FreshSock == [peer |-> "none", sent |-> <<>>, rq |-> <<>>, answer |-> "none",
              eof |-> FALSE, nolinger |-> FALSE]

Calls == [pc : Pcs, op : {"none", "socket", "connect", "recv", "send", "close"},
          fd : Fds \cup {Nil}, st : Cells \cup {Nil}, then : Conts]

NoCall == [pc |-> "idle", op |-> "none", fd |-> Nil, st |-> Nil, then |-> "skip"]

\* A thread that is in a call has a descriptor.
CallsOK ==
  /\ call \in [Threads -> Calls]
  /\ \A t \in Threads : call[t].pc # "idle" => call[t].fd \in Fds

TypeOK ==
  /\ kind \in [Fds -> {"closed", "mptcp", "other"}]
  /\ net \in [Fds -> Sock]
  /\ obj \in [Cells -> Fds \cup {Nil}]
  /\ htable \in [Buckets -> SUBSET Cells]
  /\ CallsOK
  /\ overlap \in BOOLEAN
  /\ memerr \in BOOLEAN
  /\ told \in [Fds -> {"nothing", "connected", "failed"}]
  /\ verdict \in [Fds -> {"none", "accepted", "rejected"}]
  /\ exposed \in SUBSET Fds

Init ==
  /\ kind = [f \in Fds |-> "closed"]
  /\ net = [f \in Fds |-> FreshSock]
  /\ obj = [s \in Cells |-> Nil]
  /\ htable = [b \in Buckets |-> {}]
  /\ call = [t \in Threads |-> NoCall]
  /\ overlap = FALSE
  /\ memerr = FALSE
  /\ told = [f \in Fds |-> "nothing"]
  /\ verdict = [f \in Fds |-> "none"]
  /\ exposed = {}

-----------------------------------------------------------------------------
(***************************************************************************)
(* The table of socket states.                                             *)
(***************************************************************************)
Hash(fd) == fd % NUM_BUCKETS

Matches(fd) == {s \in htable[Hash(fd)] : obj[s] = fd}

\* _lookup, as the set of pointers it may return.  It takes the first match
\* of the bucket's list; OneStatePerSocket says there is at most one.
Lookup(fd) == IF Matches(fd) = {} THEN {Nil} ELSE Matches(fd)

Linked(s) == \E b \in Buckets : s \in htable[b]

InUse(fd, t) == \E u \in Threads \ {t} : call[u].pc # "idle" /\ call[u].fd = fd

\* The pointer thread t holds may be used: the state has not been freed, and
\* LIST_REMOVE is applied to a state that is linked.
Valid(t) ==
  LET s == call[t].st
  IN  /\ s # Nil
      /\ obj[s] # Nil
      /\ call[t].pc = "unlink" => Linked(s)

\* What the kernel does to the socket of fd: it connects it to p, queues x for
\* the other end, gives the caller the next chunk, or sets SO_LINGER to zero.
Attach(fd, p) == net' = [net EXCEPT ![fd].peer = p]
Put(fd, x) == net' = [net EXCEPT ![fd].sent = Append(@, x)]
Take(fd) == net[fd].rq # <<>> /\ net' = [net EXCEPT ![fd].rq = Tail(@)]
SetNoLinger(fd) == net' = [net EXCEPT ![fd].nolinger = kind[fd] # "closed"]

At(t, p) == ~memerr /\ call[t].pc = p
Goto(t, p) == call' = [call EXCEPT ![t].pc = p]
Return(t) == call' = [call EXCEPT ![t] = NoCall]

\* goto the code that calls _free_state and then goes on with k.
FreeThen(t, k) == call' = [call EXCEPT ![t] = [@ EXCEPT !.pc = "unlink", !.then = k]]

-----------------------------------------------------------------------------
(***************************************************************************)
(* The intercepted calls.                                                  *)
(***************************************************************************)

\* Mutant: socket() does not look at the protocol before it calls _alloc.
Socket_AnyProtocol(t, fd) ==
  /\ At(t, "idle")
  /\ kind[fd] = "closed"
  /\ \E k \in {"mptcp", "other"} : kind' = [kind EXCEPT ![fd] = k]
  /\ call' = [call EXCEPT ![t] =
                [NoCall EXCEPT !.pc = "alloc", !.op = "socket", !.fd = fd]]
  /\ net' = [net EXCEPT ![fd] = FreshSock]
  /\ told' = [told EXCEPT ![fd] = "nothing"]
  /\ verdict' = [verdict EXCEPT ![fd] = "none"]
  /\ exposed' = exposed \ {fd}
  /\ UNCHANGED <<obj, htable, overlap, memerr>>

\* socket(): the lsocket() call.  Only SOCK_STREAM/IPPROTO_MPTCP sockets
\* ("mptcp") go on to _alloc.  A failed lsocket changes nothing.
Socket(t, fd) ==
  /\ At(t, "idle")
  /\ kind[fd] = "closed"
  /\ \E k \in {"mptcp", "other"} :
       /\ kind' = [kind EXCEPT ![fd] = k]
       /\ call' = IF k = "other" THEN call ELSE
                  [call EXCEPT ![t] = [NoCall EXCEPT !.pc = "alloc",
                                       !.op = "socket", !.fd = fd]]
  /\ net' = [net EXCEPT ![fd] = FreshSock]
  /\ told' = [told EXCEPT ![fd] = "nothing"]
  /\ verdict' = [verdict EXCEPT ![fd] = "none"]
  /\ exposed' = exposed \ {fd}
  /\ UNCHANGED <<obj, htable, overlap, memerr>>

\* socket(): _alloc.  malloc() may fail: the socket is then not managed.
Alloc(t) ==
  /\ At(t, "alloc")
  /\ Return(t)
  /\ \/ \E s \in Cells :
          /\ obj[s] = Nil
          /\ obj' = [obj EXCEPT ![s] = call[t].fd]
          /\ htable' = [htable EXCEPT ![Hash(call[t].fd)] = @ \cup {s}]
     \/ UNCHANGED <<obj, htable>>
  /\ UNCHANGED <<kind, net, overlap, memerr, told, verdict, exposed>>

\* Thread t enters call o on fd: the call begins with _lookup(fd), goes to hit
\* when there is a state and to miss when there is none.
Enter(t, o, fd, hit, miss, k) ==
  /\ At(t, "idle")
  /\ kind[fd] # "closed"
  /\ Overlaps \/ ~InUse(fd, t)
  /\ \E s \in Lookup(fd) :
       call' = [call EXCEPT ![t] =
                  [pc |-> IF s = Nil THEN miss ELSE hit, op |-> o, fd |-> fd,
                   st |-> s, then |-> k]]
  /\ overlap' = (overlap \/ InUse(fd, t))
  /\ UNCHANGED <<kind, net, obj, htable, memerr, told, verdict, exposed>>

\* connect() to an address whose family is AF_INET or AF_INET6, or another one.
Connect(t, fd) == \E inet \in BOOLEAN :
  Enter(t, "connect", fd, IF inet THEN "redirect" ELSE "unlink", "lconnect", "lconnect")

\* Mutant: recv does not look at the state.
Recv_Direct(t, fd) == Enter(t, "recv", fd, "lrecv", "lrecv", "skip")

Recv(t, fd) == Enter(t, "recv", fd, "rdhdr", "lrecv", "skip")

\* Mutant: send does not look at the state.
Send_Direct(t, fd) ==
  /\ told[fd] # "failed"
  /\ Enter(t, "send", fd, "lsend", "lsend", "skip")

\* An application does not send on a socket whose connect() returned -1.
Send(t, fd) ==
  /\ told[fd] # "failed"
  /\ Enter(t, "send", fd, "rdhdr", "lsend", "skip")

\* Mutant: close does not free the state.
Close_NoFree(t, fd) == Enter(t, "close", fd, "lclose", "lclose", "lclose")

Close(t, fd) == Enter(t, "close", fd, "unlink", "lclose", "lclose")

CanConnect(fd) == kind[fd] # "closed" /\ net[fd].peer = "none"

\* Mutant: _redirect returns as soon as it is connected.
Redirect_NoHeader(t) ==
  LET fd == obj[call[t].st] IN
  /\ At(t, "redirect") /\ Valid(t)
  /\ \/ /\ CookieFits /\ CanConnect(fd)
        /\ Attach(fd, "converter")
        /\ Goto(t, "rdhdr")
     \/ FreeThen(t, "lconnect") /\ UNCHANGED net
  /\ UNCHANGED <<kind, obj, htable, overlap, memerr, told, verdict, exposed>>

\* _redirect: build the Convert header, then connect to the Converter.
Redirect(t) ==
  LET fd == obj[call[t].st] IN
  /\ At(t, "redirect") /\ Valid(t)
  /\ \/ /\ CookieFits /\ CanConnect(fd)
        /\ Attach(fd, "converter")
        /\ \/ Goto(t, "sendhdr")
           \/ AsyncConnect /\ FreeThen(t, "lconnect")
     \/ FreeThen(t, "lconnect") /\ UNCHANGED net
  /\ UNCHANGED <<kind, obj, htable, overlap, memerr, told, verdict, exposed>>

\* _redirect: send the Convert header.  lsend never returns 0 here, since the
\* header is not empty, so connect()'s "return -ECONNREFUSED" is not reached.
SendHdr(t) ==
  LET fd == obj[call[t].st] IN
  /\ At(t, "sendhdr") /\ Valid(t)
  /\ \/ /\ net[fd].peer # "none" /\ Len(net[fd].sent) < MaxSent
        /\ Put(fd, "hdr")
        /\ Goto(t, "rdhdr")
     \/ FreeThen(t, "lconnect") /\ UNCHANGED net
  /\ UNCHANGED <<kind, obj, htable, overlap, memerr, told, verdict, exposed>>

\* Mutant: a failed connect() returns -ECONNREFUSED, neither 0 nor -1.
Skipped_RawErrno(t) ==
  told' = IF call[t].op = "connect"
          THEN [told EXCEPT ![call[t].fd] = "-ECONNREFUSED"] ELSE told

\* _read_convert returns SYSCALL_SKIP: connect, recv and send all return 0.
\* connect()'s caller is thus told the connection is made.
Skipped(t) ==
  told' = IF call[t].op = "connect"
          THEN [told EXCEPT ![call[t].fd] = "connected"] ELSE told

\* _read_convert: the recvfrom of the header.  An error (EAGAIN, EINTR, ...)
\* returns SYSCALL_SKIP and keeps the state, so that a later recv or send tries
\* again; end of file, or a header that does not parse, is an error.
RdHdr(t) ==
  LET fd == obj[call[t].st]
      q == net[fd].rq IN
  /\ At(t, "rdhdr") /\ Valid(t)
  /\ \/ /\ Skipped(t) /\ Return(t)
        /\ UNCHANGED <<net, verdict>>
     \/ /\ q = <<>> /\ net[fd].eof
        /\ Goto(t, "rderr")
        /\ UNCHANGED <<net, told, verdict>>
     \/ /\ Take(fd)
        /\ \/ /\ Head(q) = "hdr0" /\ FreeThen(t, "run")
              /\ verdict' = [verdict EXCEPT ![fd] = "accepted"]
           \/ /\ Head(q) = "hdrN" /\ Goto(t, "rdtlv")
              /\ UNCHANGED verdict
           \/ /\ Head(q) \notin {"hdr0", "hdrN"} /\ Goto(t, "rderr")
              /\ UNCHANGED verdict
        /\ UNCHANGED told
  /\ UNCHANGED <<kind, obj, htable, overlap, memerr, exposed>>

\* _read_convert: the recvfrom of the TLVs and convert_parse_tlvs.  Any failure
\* is an error.
RdTlv(t) ==
  LET fd == obj[call[t].st]
      q == net[fd].rq IN
  /\ At(t, "rdtlv") /\ Valid(t)
  /\ \/ /\ Goto(t, "rderr")
        /\ UNCHANGED <<net, verdict>>
     \/ /\ Take(fd)
        /\ \/ /\ Head(q) = "tlvOk"
              /\ FreeThen(t, "run")
              /\ verdict' = [verdict EXCEPT ![fd] = "accepted"]
           \/ /\ Head(q) # "tlvOk" /\ Goto(t, "rderr")
              /\ UNCHANGED verdict
  /\ UNCHANGED <<kind, obj, htable, overlap, memerr, told, exposed>>

\* Mutant: the error label does not free the state.
RdErr_NoFree(t) ==
  LET fd == obj[call[t].st] IN
  /\ At(t, "rderr") /\ Valid(t)
  /\ SetNoLinger(fd)
  /\ verdict' = [verdict EXCEPT ![fd] = "rejected"]
  /\ Skipped(t) /\ Return(t)
  /\ UNCHANGED <<kind, obj, htable, overlap, memerr, exposed>>

\* _read_convert: the error label, up to _free_state.
RdErr(t) ==
  LET fd == obj[call[t].st] IN
  /\ At(t, "rderr") /\ Valid(t)
  /\ SetNoLinger(fd)
  /\ verdict' = [verdict EXCEPT ![fd] = "rejected"]
  /\ FreeThen(t, "skip")
  /\ UNCHANGED <<kind, obj, htable, overlap, memerr, told, exposed>>

\* Mutant: _free_state only removes the state from the list.
Unlink_NoFree(t) ==
  /\ At(t, "unlink") /\ Valid(t)
  /\ htable' = [b \in Buckets |-> htable[b] \ {call[t].st}]
  /\ IF call[t].then \in {"lconnect", "lclose"} THEN Goto(t, call[t].then) ELSE Return(t)
  /\ UNCHANGED <<kind, net, obj, overlap, memerr, told, verdict, exposed>>

\* _free_state: LIST_REMOVE under the mutex.
Unlink(t) ==
  /\ At(t, "unlink") /\ Valid(t)
  /\ htable' = [b \in Buckets |-> htable[b] \ {call[t].st}]
  /\ Goto(t, "free")
  /\ UNCHANGED <<kind, net, obj, overlap, memerr, told, verdict, exposed>>

\* _free_state: free(), and what the caller does with the outcome.  After
\* SYSCALL_RUN connect() returns 1, recv and send make the real call.
AfterRun(t) ==
  CASE call[t].op = "recv" -> Goto(t, "lrecv")
    [] call[t].op = "send" -> Goto(t, "lsend")
    [] OTHER -> Return(t)

\* Mutant: connect() takes _read_convert's failure for one of _redirect, and
\* goes to its own error label.
Free_ErrorTwice(t) ==
  /\ At(t, "free") /\ Valid(t)
  /\ obj' = [obj EXCEPT ![call[t].st] = Nil]
  /\ \/ call[t].then \in {"lconnect", "lclose"} /\ Goto(t, call[t].then)
     \/ call[t].then = "skip" /\ FreeThen(t, "lconnect")
     \/ call[t].then = "run" /\ AfterRun(t)
  /\ UNCHANGED <<kind, net, htable, overlap, memerr, told, verdict, exposed>>

Free(t) ==
  /\ At(t, "free") /\ Valid(t)
  /\ obj' = [obj EXCEPT ![call[t].st] = Nil]
  /\ \/ call[t].then \in {"lconnect", "lclose"} /\ Goto(t, call[t].then) /\ UNCHANGED told
     \/ call[t].then = "skip" /\ Return(t) /\ Skipped(t)
     \/ call[t].then = "run" /\ AfterRun(t) /\ Skipped(t)
  /\ UNCHANGED <<kind, net, htable, overlap, memerr, verdict, exposed>>

\* Using a state that another call has freed, or removing it from the list a
\* second time, is undefined behaviour: nothing is said of what follows.
UseFreed(t) ==
  /\ ~memerr /\ call[t].pc \in Holding /\ ~Valid(t)
  /\ memerr' = TRUE
  /\ UNCHANGED <<kind, net, obj, htable, call, overlap, told, verdict, exposed>>

-----------------------------------------------------------------------------
(***************************************************************************)
(* The real calls, on the descriptor the application passed.               *)
(***************************************************************************)

\* Linux answers 0 to the connect() that follows a connection which was still
\* being made and has completed since, whatever address it names.
LConnect(t) ==
  LET fd == call[t].fd IN
  /\ At(t, "lconnect")
  /\ \/ /\ CanConnect(fd)
        /\ Attach(fd, "server")
        /\ told' = [told EXCEPT ![fd] = "connected"]
     \/ /\ AsyncConnect /\ net[fd].peer # "none" /\ told[fd] # "connected"
        /\ told' = [told EXCEPT ![fd] = "connected"]
        /\ UNCHANGED net
     \/ told' = [told EXCEPT ![fd] = "failed"] /\ UNCHANGED net
  /\ Return(t)
  /\ UNCHANGED <<kind, obj, htable, overlap, memerr, verdict, exposed>>

\* The application takes the next chunk of fd's receive queue.
Deliver(fd) ==
  /\ Take(fd)
  /\ exposed' = IF Head(net[fd].rq) = "data" THEN exposed ELSE exposed \cup {fd}

LRecv(t) ==
  /\ At(t, "lrecv")
  /\ Deliver(call[t].fd) \/ UNCHANGED <<net, exposed>>
  /\ Return(t)
  /\ UNCHANGED <<kind, obj, htable, overlap, memerr, told, verdict>>

LSend(t) ==
  LET fd == call[t].fd IN
  /\ At(t, "lsend")
  /\ \/ /\ net[fd].peer # "none" /\ Len(net[fd].sent) < MaxSent
        /\ Put(fd, "data")
     \/ UNCHANGED net
  /\ Return(t)
  /\ UNCHANGED <<kind, obj, htable, overlap, memerr, told, verdict, exposed>>

LClose(t) ==
  LET fd == call[t].fd IN
  /\ At(t, "lclose")
  /\ kind' = [kind EXCEPT ![fd] = "closed"]
  /\ net' = [net EXCEPT ![fd] = FreshSock]
  /\ told' = [told EXCEPT ![fd] = "nothing"]
  /\ verdict' = [verdict EXCEPT ![fd] = "none"]
  /\ exposed' = exposed \ {fd}
  /\ Return(t)
  /\ UNCHANGED <<obj, htable, overlap, memerr>>

\* read(), which the library does not intercept.
RawRead(t, fd) ==
  /\ RawIO /\ At(t, "idle") /\ told[fd] = "connected"
  /\ Deliver(fd)
  /\ UNCHANGED <<kind, obj, htable, call, overlap, memerr, told, verdict>>

-----------------------------------------------------------------------------
(***************************************************************************)
(* The other end of a socket: a Converter, or the destination itself.      *)
(***************************************************************************)
Accepting(r) == r[Len(r)] \in {"hdr0", "tlvOk"}

Answer(fd) ==
  /\ net[fd].peer = "converter" /\ net[fd].answer = "none" /\ ~net[fd].eof
  /\ net[fd].sent # <<>> /\ Head(net[fd].sent) = "hdr"
  /\ \E r \in Replies :
       net' = [net EXCEPT ![fd] = [net[fd] EXCEPT !.rq = @ \o r,
                 !.answer = IF Accepting(r) THEN "accept" ELSE "refuse"]]

PeerData(fd) ==
  /\ net[fd].peer = "server" \/ net[fd].answer = "accept"
  /\ ~net[fd].eof /\ Len(net[fd].rq) < MaxQueue
  /\ net' = [net EXCEPT ![fd].rq = Append(@, "data")]

PeerClose(fd) ==
  /\ net[fd].peer # "none" /\ ~net[fd].eof
  /\ net' = [net EXCEPT ![fd].eof = TRUE]

Peer(fd) ==
  /\ ~memerr
  /\ Answer(fd) \/ PeerData(fd) \/ PeerClose(fd)
  /\ UNCHANGED <<kind, obj, htable, call, overlap, memerr, told, verdict, exposed>>

-----------------------------------------------------------------------------
Library(t) ==
  \/ Alloc(t) \/ Redirect(t) \/ SendHdr(t) \/ RdHdr(t) \/ RdTlv(t) \/ RdErr(t)
  \/ Unlink(t) \/ Free(t) \/ UseFreed(t)
  \/ LConnect(t) \/ LRecv(t) \/ LSend(t) \/ LClose(t)

Application(t, fd) ==
  \/ Socket(t, fd) \/ Connect(t, fd) \/ Recv(t, fd) \/ Send(t, fd) \/ Close(t, fd)
  \/ RawRead(t, fd)

Next ==
  \/ \E t \in Threads : Library(t)
  \/ \E t \in Threads, fd \in Fds : Application(t, fd)
  \/ \E fd \in Fds : Peer(fd)

Spec == Init /\ [][Next]_vars

-----------------------------------------------------------------------------
(***************************************************************************)
(* Properties.  The library promises nothing to an application that has    *)
(* two calls on one descriptor in progress at once; the first property     *)
(* says that this is all that can go wrong with its memory, the others     *)
(* are about applications that keep to one call at a time per descriptor.  *)
(***************************************************************************)
Busy(fd) == \E t \in Threads : call[t].pc # "idle" /\ call[t].fd = fd

\* A socket_state_t is used after it is freed, or freed twice, only when the
\* application overlaps two calls on one descriptor: the pointer that _lookup
\* returns stays valid after the mutex is released otherwise, whatever other
\* threads do with other descriptors, and through every error path.
UseAfterFreeNeedsOverlap == memerr => overlap

\* _free before lclose: a state in the table is the state of a descriptor that
\* is open and is an MPTCP socket, so a descriptor number that the kernel
\* hands out again never inherits the state of its predecessor.
TableMatchesKernel ==
  ~overlap => \A b \in Buckets : \A s \in htable[b] :
                 obj[s] # Nil /\ b = Hash(obj[s]) /\ kind[obj[s]] = "mptcp"

\* _lookup is unambiguous: a descriptor has at most one state, although close,
\* the failing connect and _read_convert each free it on a path of their own.
OneStatePerSocket ==
  ~overlap => \A b, c \in Buckets : \A s \in htable[b], u \in htable[c] :
                 obj[s] = obj[u] => s = u

\* Every allocated state is in the table, or is about to be freed by the one
\* call that took it out.
NoLostState ==
  ~overlap => \A s \in Cells :
                 obj[s] # Nil => \/ Linked(s)
                                \/ \E t \in Threads : call[t].pc = "free" /\ call[t].st = s

\* Once _read_convert has judged the Converter's answer the descriptor is no
\* longer managed: after the call, no later recv or send looks for an answer.
VerdictSettles ==
  ~overlap => \A fd \in Fds : verdict[fd] # "none" /\ ~Busy(fd) => Matches(fd) = {}

\* What a Converter receives on a connection begins with the one Convert
\* header; application data follow it.
HeaderBeforeData ==
  ~overlap => \A fd \in Fds :
    net[fd].peer = "converter" =>
      \A i \in 1 .. Len(net[fd].sent) : (net[fd].sent[i] = "hdr") <=> (i = 1)

\* recv gives the application bytes of the Converter's answer only when that
\* answer was rejected, or when the application goes on after a second
\* connect(), on a descriptor already connected, has failed and has dropped
\* the state: a recv that finds the answer still pending reads it first.
ConvertBytesHidden ==
  ~overlap => \A fd \in exposed : verdict[fd] = "rejected" \/ told[fd] = "failed"

-----------------------------------------------------------------------------
(***************************************************************************)
(* The contract with the Transport Converter, as the network sees it.      *)
(***************************************************************************)
Redirected(fd) == net[fd].peer = "converter"
Sent(fd, x) == \E i \in 1 .. Len(net[fd].sent) : net[fd].sent[i] = x
Queued(fd, x) == \E i \in 1 .. Len(net[fd].rq) : net[fd].rq[i] = x

HasAsked == [fd \in Fds |-> Redirected(fd) /\ Sent(fd, "hdr")]
HasAnswer == [fd \in Fds |-> net[fd].answer]
HasHeard == [fd \in Fds |-> verdict[fd] # "none"]
HasSent == [fd \in Fds |-> Redirected(fd) /\ Sent(fd, "data")]
HasData == [fd \in Fds |-> Redirected(fd) /\ Queued(fd, "data")]
HasEnded == [fd \in Fds |-> Redirected(fd) /\ net[fd].eof]

Talk == INSTANCE Conversation WITH
  Conns <- Fds, asked <- HasAsked, answer <- HasAnswer, heard <- HasHeard,
  up <- HasSent, down <- HasData, over <- HasEnded

\* The library keeps the client's part of the contract TCServer relies on: one
\* header per connection, nothing before the answer is known, and it survives
\* EAGAIN in the middle, a refusal, and a descriptor closed and handed out
\* again.  An application that lets connect() go on without it is excluded.
ClientContract == Talk!Spec

\* The states in the table, and what _lookup returned to each call.
Owner == [s \in Cells |-> IF Linked(s) THEN obj[s] ELSE Nil]
Found == [t \in Threads |-> IF call[t].pc \in {"idle", "alloc"} THEN [fd |-> Nil, st |-> Nil]
                            ELSE [fd |-> call[t].fd, st |-> call[t].st]]

\* The set-valued buckets of this module implement the table that the linked
\* lists of ConvertProcess implement too.
States == INSTANCE StateTable WITH owner <- Owner, found <- Found

\* Each descriptor has one state at most, a call finds it when there is one, and
\* of the calls that found a state only one removes it, along every path that
\* leads to _free_state.
TableContract == States!Spec

-----------------------------------------------------------------------------
(***************************************************************************)
(* What comments of the code say and the code does not do.                 *)
(***************************************************************************)

\* convert_client.c:341, "if we receive the TLV error we need to inform the
\* app": connect() does not report success for a refused connection.
ErrorsReachTheApp ==
  \A fd \in Fds : verdict[fd] = "rejected" /\ ~Busy(fd) => told[fd] # "connected"

\* convert_client.c:418-421, "Clear it and behave like we never handled that
\* file descriptor": a descriptor cleared by a failed redirection has no
\* connection to the Converter.
ClearedLikeNeverHandled ==
  \A fd \in Fds :
    kind[fd] = "mptcp" /\ ~Busy(fd) /\ Matches(fd) = {} /\ verdict[fd] = "none"
      => net[fd].peer # "converter"
=============================================================================

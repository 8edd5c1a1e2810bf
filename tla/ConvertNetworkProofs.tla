------------------------ MODULE ConvertNetworkProofs ------------------------
(***************************************************************************)
(* Theorems about what lib_convert sends to a Converter and what it lets   *)
(* the application see of its answer, for any number of threads,           *)
(* descriptors and heap cells, and about the specifications ConvertClient  *)
(* implements.                                                             *)
(*                                                                         *)
(* ConvertClientProofs shows that, while no two calls overlap on a         *)
(* descriptor, its state belongs to the one call on it.  The invariant     *)
(* here is about one descriptor and that call: Good relates the socket k,  *)
(* the verdict v, what connect() told the application (w), whether the     *)
(* table has no state for the descriptor (g), whether Convert bytes were   *)
(* exposed (x) and where the call is: at p, with c to follow.              *)
(***************************************************************************)
EXTENDS ConvertClientProofs

\* The descriptor has no state in the table.
Gone(fd) == \A s \in htable[Hash(fd)] : obj[s] # fd

On(t, fd) == call[t].pc # "idle" /\ call[t].fd = fd

\* The one Convert header comes first.
HeaderFirst(q) == \A i \in 1 .. Len(q) : (q[i] = "hdr") <=> (i = 1)

AllData(q) == \A i \in 1 .. Len(q) : q[i] = "data"

\* The call gives the descriptor up: it frees the state and goes on to lconnect,
\* which fails on a connected socket, or to lclose.
Leaving(p, c) == \/ p \in {"unlink", "free"} /\ c \in {"lconnect", "lclose"}
                 \/ p \in {"lconnect", "lclose"}

\* The state, the verdict and what the application was told.
Managed(v, w, g, p, c) ==
  /\ p \in {"alloc", "free", "lconnect", "lrecv", "lsend", "lclose"} => g
  /\ p \in Holding \ {"free"} => ~g
  /\ p \in Holding \cup {"alloc", "lsend"} => w # "failed"
  /\ w = "failed" => g
  /\ p \in {"unlink", "free"} /\ c \in {"skip", "run"} => v # "none"
  /\ v # "none" => g \/ p = "unlink"

\* The socket, by what it is connected to.
Unconnected(k, v, x) ==
  /\ k.sent = <<>> /\ k.rq = <<>> /\ k.answer = "none" /\ ~k.eof
  /\ v = "none" /\ ~x
Direct(k, v, g, x) == g /\ k.answer = "none" /\ AllData(k.rq) /\ v = "none" /\ ~x
Converted(k, v, w, g, p, c) ==
  /\ k.answer = "none" => k.rq = <<>>
  /\ HeaderFirst(k.sent)
  /\ k.sent = <<>> => v = "none" /\ (g \/ Leaving(p, c) \/ p = "sendhdr")
  /\ g /\ v = "none" => w = "failed" \/ Leaving(p, c)

Good(k, v, w, g, x, p, c) ==
  /\ Managed(v, w, g, p, c)
  /\ k.peer = "none" => Unconnected(k, v, x)
  /\ k.peer = "server" => Direct(k, v, g, x)
  /\ k.peer = "converter" => Converted(k, v, w, g, p, c)
  /\ p = "alloc" => k.peer = "none"
  /\ p = "sendhdr" => k.peer = "converter" /\ k.sent = <<>>
  /\ p \in {"rdtlv", "rderr"} => k.peer = "converter" /\ (k.answer # "none" \/ k.eof)

GoodAt(fd, p, c) == Good(net[fd], verdict[fd], told[fd], Gone(fd), fd \in exposed, p, c)

FdOK(fd) == /\ \A t \in Threads : On(t, fd) => GoodAt(fd, call[t].pc, call[t].then)
            /\ ~Busy(fd) => GoodAt(fd, "idle", "skip")

NInv == IInv /\ (~overlap => \A fd \in Fds : FdOK(fd))

(***************************************************************************)
(* A Converter answers with a header and the TLV that its length field     *)
(* announces.                                                              *)
(***************************************************************************)
Answers == {<<"hdr0">>, <<"badHdr">>} \cup {<<"hdrN", x>> : x \in {"tlvOk", "tlvError", "tlvBad"}}

\* Only the first item, and the second after a header that announces it, are not
\* data.
AnswerFirst(q) == \A i \in 2 .. Len(q) : q[i] # "data" => i = 2 /\ q[1] = "hdrN"
\* Only the first item, which a header announced, may not be data.
DataNext(q) == \A i \in 2 .. Len(q) : q[i] = "data"

Hidden(k, v, w, x, p) ==
  /\ x => v = "rejected" \/ w = "failed"
  /\ k.peer = "converter" /\ w # "failed" =>
       /\ v # "none" => k.answer # "none" \/ k.eof
       /\ v = "accepted" => AllData(k.rq)
       /\ v = "none" => /\ p = "rdtlv" => DataNext(k.rq)
                        /\ p \notin {"rdtlv", "rderr"} => AnswerFirst(k.rq)

HiddenAt(fd, p) == Hidden(net[fd], verdict[fd], told[fd], fd \in exposed, p)

HidesOK(fd) == /\ \A t \in Threads : On(t, fd) => HiddenAt(fd, call[t].pc)
               /\ ~Busy(fd) => HiddenAt(fd, "idle")

HInv == NInv /\ (~overlap => \A fd \in Fds : HidesOK(fd))

-----------------------------------------------------------------------------
(***************************************************************************)
(* What the kernel's operations change of a socket.                        *)
(***************************************************************************)

\* The connection is made; the rest of the socket stays.
LEMMA AttachFacts ==
  ASSUME TypeOK, NEW fd \in Fds, NEW p, Attach(fd, p)
  PROVE  /\ net'[fd].peer = p /\ net'[fd].sent = net[fd].sent /\ net'[fd].rq = net[fd].rq
         /\ net'[fd].answer = net[fd].answer /\ net'[fd].eof = net[fd].eof
         /\ \A f \in Fds \ {fd} : net'[f] = net[f]
BY DEF TypeOK, Sock, Attach

\* An item is sent.
LEMMA PutFacts ==
  ASSUME TypeOK, NEW fd \in Fds, NEW x \in {"hdr", "data"}, Put(fd, x)
  PROVE  /\ net'[fd].peer = net[fd].peer /\ net'[fd].sent = Append(net[fd].sent, x) /\ net'[fd].rq = net[fd].rq
         /\ net'[fd].answer = net[fd].answer /\ net'[fd].eof = net[fd].eof
         /\ \A f \in Fds \ {fd} : net'[f] = net[f]
BY DEF TypeOK, Sock, Put

\* An item is received.
LEMMA TakeFacts ==
  ASSUME TypeOK, NEW fd \in Fds, Take(fd)
  PROVE  /\ net'[fd].peer = net[fd].peer /\ net'[fd].sent = net[fd].sent
         /\ net[fd].rq # <<>> /\ net'[fd].rq = Tail(net[fd].rq)
         /\ net'[fd].answer = net[fd].answer /\ net'[fd].eof = net[fd].eof
         /\ \A f \in Fds \ {fd} : net'[f] = net[f]
BY DEF TypeOK, Sock, Take

\* SO_LINGER.
LEMMA LingerFacts ==
  ASSUME TypeOK, NEW fd \in Fds, SetNoLinger(fd)
  PROVE  /\ net'[fd].peer = net[fd].peer /\ net'[fd].sent = net[fd].sent /\ net'[fd].rq = net[fd].rq
         /\ net'[fd].answer = net[fd].answer /\ net'[fd].eof = net[fd].eof
         /\ \A f \in Fds \ {fd} : net'[f] = net[f]
BY DEF TypeOK, Sock, SetNoLinger

\* What is left of received data is data.
LEMMA DataLeft ==
  ASSUME NEW q \in Seq(Chunk), q # <<>>, AllData(q)
  PROVE  AllData(Tail(q)) /\ Head(q) = "data"
<1>1. Len(q) \in Nat /\ Len(q) > 0 /\ Len(Tail(q)) = Len(q) - 1 /\ Head(q) = q[1]
  OBVIOUS
<1>2. \A i \in 1 .. Len(Tail(q)) : Tail(q)[i] = q[i + 1] /\ i + 1 \in 1 .. Len(q)
  BY <1>1
<1>. QED  BY <1>1, <1>2 DEF AllData

\* More data.
LEMMA DataMore ==
  ASSUME NEW q \in Seq(Chunk)
  PROVE  AllData(q) => AllData(Append(q, "data"))
<1>1. "data" \in Chunk
  BY DEF Chunk
<1>2. /\ Len(Append(q, "data")) = Len(q) + 1 /\ Len(q) \in Nat
      /\ \A i \in 1 .. Len(q) : Append(q, "data")[i] = q[i]
      /\ Append(q, "data")[Len(q) + 1] = "data"
  BY <1>1
<1>. QED  BY <1>2 DEF AllData

\* Data are sent after the header.
LEMMA HeaderThenData ==
  ASSUME NEW q \in Seq({"hdr", "data"}), HeaderFirst(q), q # <<>>
  PROVE  HeaderFirst(Append(q, "data")) /\ Append(q, "data") # <<>>
<1>1. /\ Len(Append(q, "data")) = Len(q) + 1 /\ Len(q) \in Nat /\ Len(q) > 0
      /\ \A i \in 1 .. Len(q) : Append(q, "data")[i] = q[i]
      /\ Append(q, "data")[Len(q) + 1] = "data"
  OBVIOUS
<1>2. Append(q, "data") # <<>>
  OBVIOUS
<1>. QED  BY <1>1, <1>2 DEF HeaderFirst

\* The header alone.
LEMMA HeaderAlone == HeaderFirst(<<>>) /\ HeaderFirst(Append(<<>>, "hdr")) /\ Append(<<>>, "hdr") # <<>>
<1>1. Append(<<>>, "hdr") = <<"hdr">>
  OBVIOUS
<1>2. HeaderFirst(<<"hdr">>) /\ HeaderFirst(<<>>)
  BY DEF HeaderFirst
<1>. QED  BY <1>1, <1>2

\* A socket that the kernel has just made.
LEMMA FreshForm ==
  /\ FreshSock.peer = "none" /\ FreshSock.sent = <<>> /\ FreshSock.rq = <<>>
  /\ FreshSock.answer = "none" /\ FreshSock.eof = FALSE
BY DEF FreshSock

(***************************************************************************)
(* The table, seen from one descriptor.                                    *)
(***************************************************************************)

\* It is the same as long as the table is.
LEMMA GoneSame ==
  ASSUME UNCHANGED <<obj, htable>>
  PROVE  \A f : Gone(f)' <=> Gone(f)
BY DEF Gone

\* _alloc makes the state of one descriptor.
LEMMA GoneAlloc ==
  ASSUME TypeOK, Owned, NEW fd \in Fds, NEW s \in Cells, obj[s] = Nil,
         obj' = [obj EXCEPT ![s] = fd], htable' = [htable EXCEPT ![Hash(fd)] = @ \cup {s}]
  PROVE  ~Gone(fd)' /\ \A f \in Fds \ {fd} : Gone(f)' <=> Gone(f)
<1>1. Hash(fd) \in Buckets
  BY HashType
<1>2. /\ obj'[s] = fd /\ \A c \in Cells \ {s} : obj'[c] = obj[c]
      /\ htable'[Hash(fd)] = htable[Hash(fd)] \cup {s}
      /\ \A b \in Buckets \ {Hash(fd)} : htable'[b] = htable[b]
  BY <1>1 DEF TypeOK
<1>3. \A b \in Buckets : htable[b] \subseteq Cells \ {s}
  BY DEF TypeOK, Owned, TableSound
<1>4. ~Gone(fd)'
  BY <1>2 DEF Gone
<1>5. ASSUME NEW f \in Fds \ {fd}  PROVE Gone(f)' <=> Gone(f)
  <2>1. Hash(f) \in Buckets
    BY HashType
  <2>2. \A c \in htable[Hash(f)] : c \in htable'[Hash(f)] /\ obj'[c] = obj[c]
    BY <1>2, <1>3, <2>1
  <2>3. \A c \in htable'[Hash(f)] : c = s \/ c \in htable[Hash(f)]
    BY <1>2, <2>1
  <2>. QED  BY <1>2, <2>2, <2>3 DEF Gone
<1>. QED  BY <1>4, <1>5

\* LIST_REMOVE takes the state of one descriptor out of the table.
LEMMA GoneUnlink ==
  ASSUME TypeOK, Owned, NEW fd \in Fds, NEW s \in Cells, obj[s] = fd, UNCHANGED obj,
         htable' = [b \in Buckets |-> htable[b] \ {s}]
  PROVE  \A f \in Fds \ {fd} : Gone(f)' <=> Gone(f)
<1>. TAKE f \in Fds \ {fd}
<1>1. Hash(f) \in Buckets
  BY HashType
<1>. QED  BY <1>1 DEF Gone

\* free() is of a state that is not in the table.
LEMMA GoneFree ==
  ASSUME TypeOK, Owned, NEW s \in Cells, \A b \in Buckets : s \notin htable[b],
         obj' = [obj EXCEPT ![s] = Nil], UNCHANGED htable
  PROVE  \A f \in Fds : Gone(f)' <=> Gone(f)
<1>. TAKE f \in Fds
<1>1. Hash(f) \in Buckets
  BY HashType
<1>2. \A c \in htable[Hash(f)] : c \in Cells /\ obj'[c] = obj[c]
  BY <1>1 DEF TypeOK
<1>. QED  BY <1>2 DEF Gone

(***************************************************************************)
(* Steps, seen from one descriptor.                                        *)
(***************************************************************************)

\* What a descriptor depends on.
LEMMA OtherKeeps ==
  ASSUME NEW f \in Fds, FdOK(f), net'[f] = net[f], verdict'[f] = verdict[f], told'[f] = told[f],
         f \in exposed' <=> f \in exposed, Gone(f)' <=> Gone(f),
         \A u \in Threads : call'[u] = call[u] \/ (~On(u, f) /\ ~On(u, f)')
  PROVE  FdOK(f)'
<1>1. \A p, c : GoodAt(f, p, c) <=> GoodAt(f, p, c)'
  BY DEF GoodAt, Good, Managed, Unconnected, Direct, Converted
<1>2. \A u \in Threads : On(u, f)' => On(u, f) /\ call'[u] = call[u]
  BY DEF On
<1>3. \A u \in Threads : On(u, f) => On(u, f)'
  BY DEF On
<1>4. Busy(f) => Busy(f)'
  BY <1>3 DEF Busy, On
<1>. QED  BY <1>1, <1>2, <1>4 DEF FdOK

\* A step of the one call on a descriptor, to p with c to follow.
LEMMA ThreadStep ==
  ASSUME TypeOK, NEW t \in Threads, NEW fd \in Fds, NEW p, NEW c,
         \A f \in Fds : FdOK(f),
         call[t].pc = "idle" \/ call[t].fd = fd,
         call'[t].pc = p, p # "idle" => call'[t].fd = fd /\ call'[t].then = c,
         \A u \in Threads \ {t} : call'[u] = call[u] /\ ~On(u, fd),
         \A f \in Fds \ {fd} : /\ net'[f] = net[f] /\ verdict'[f] = verdict[f] /\ told'[f] = told[f]
                               /\ f \in exposed' <=> f \in exposed
                               /\ Gone(f)' <=> Gone(f),
         GoodAt(fd, p, c)'
  PROVE  \A f \in Fds : FdOK(f)'
<1>. TAKE f \in Fds
<1>1. CASE f # fd
  <2>1. ~On(t, f) /\ ~On(t, f)'
    BY <1>1 DEF On
  <2>. QED  BY <1>1, <2>1, OtherKeeps
<1>2. CASE f = fd
  <2>1. \A u \in Threads \ {t} : ~On(u, fd)'
    BY DEF On
  <2>2. CASE p = "idle"
    <3>1. GoodAt(fd, "idle", "skip")'
      BY <2>2 DEF GoodAt, Good, Managed, Converted, Leaving
    <3>2. ~On(t, fd)'
      BY <2>2 DEF On
    <3>. QED  BY <1>2, <2>1, <3>1, <3>2 DEF FdOK
  <2>3. CASE p # "idle"
    <3>1. Busy(fd)'
      BY <2>3 DEF Busy
    <3>. QED  BY <1>2, <2>1, <2>3, <3>1 DEF FdOK
  <2>. QED  BY <2>2, <2>3
<1>. QED  BY <1>1, <1>2

\* A step of the other end, or one that is not intercepted: whatever call is on
\* the descriptor.
LEMMA NetStep ==
  ASSUME NEW fd \in Fds, \A f \in Fds : FdOK(f), UNCHANGED <<call, obj, htable, verdict, told>>,
         \A f \in Fds \ {fd} : net'[f] = net[f] /\ (f \in exposed' <=> f \in exposed),
         \A p, c : GoodAt(fd, p, c) => GoodAt(fd, p, c)'
  PROVE  \A f \in Fds : FdOK(f)'
<1>. TAKE f \in Fds
<1>1. CASE f # fd
  BY <1>1, OtherKeeps, GoneSame
<1>2. CASE f = fd
  BY <1>2 DEF FdOK, On, Busy
<1>. QED  BY <1>1, <1>2

\* The call in progress on a descriptor is the only one.
LEMMA AtFd ==
  ASSUME NInv, ~overlap, NEW t \in Threads, call[t].pc # "idle"
  PROVE  /\ TypeOK /\ Owned /\ \A f \in Fds : FdOK(f)
         /\ call[t].fd \in Fds /\ GoodAt(call[t].fd, call[t].pc, call[t].then)
         /\ \A u \in Threads \ {t} : ~On(u, call[t].fd)
<1>1. TypeOK /\ Owned /\ \A f \in Fds : FdOK(f)
  BY DEF NInv, IInv
<1>2. call[t].fd \in Fds
  BY <1>1 DEF TypeOK, CallsOK
<1>3. \A u \in Threads \ {t} : ~On(u, call[t].fd)
  BY <1>1 DEF Owned, Exclusive, On
<1>. QED  BY <1>1, <1>2, <1>3 DEF FdOK, On

\* The state it holds is the descriptor's.
LEMMA HeldState ==
  ASSUME NInv, ~overlap, NEW t \in Threads, call[t].pc \in Holding
  PROVE  obj[call[t].st] = call[t].fd /\ call[t].st \in Cells /\ call[t].pc # "idle"
BY DEF NInv, IInv, Owned, PointersLive, Holding

\* The initial state.
LEMMA NInvInit == Init => NInv
<1>. SUFFICES ASSUME Init  PROVE NInv
  OBVIOUS
<1>1. IInv
  BY IInvInit
<1>2. ASSUME NEW fd \in Fds  PROVE FdOK(fd)
  <2>1. \A t \in Threads : call[t].pc = "idle"
    <3>1. NoCall.pc = "idle"
      BY DEF NoCall
    <3>. QED  BY <3>1 DEF Init
  <2>2. /\ net[fd].peer = "none" /\ Unconnected(net[fd], verdict[fd], fd \in exposed) /\ told[fd] = "nothing"
        /\ verdict[fd] = "none"
    BY FreshForm DEF Init, Unconnected
  <2>3. GoodAt(fd, "idle", "skip")
    BY <2>2 DEF GoodAt, Good, Managed, Holding
  <2>. QED  BY <2>1, <2>3 DEF FdOK, On
<1>. QED  BY <1>1, <1>2 DEF NInv

-----------------------------------------------------------------------------
(***************************************************************************)
(* The calls.                                                              *)
(***************************************************************************)

\* What follows a call's next step.
LEMMA NextFacts ==
  ASSUME TypeOK, NEW t \in Threads
  PROVE  /\ \A p : Goto(t, p) => call'[t].then = call[t].then
         /\ \A k : FreeThen(t, k) => call'[t].then = k
BY DEF TypeOK, CallsOK, Calls, Goto, FreeThen

\* socket(): the number the kernel hands out has no state and no call.
LEMMA SocketGood ==
  ASSUME NInv, ~overlap, NEW t \in Threads, NEW fd \in Fds, Socket(t, fd)
  PROVE  \A f \in Fds : FdOK(f)'
<1>1. TypeOK /\ Owned /\ \A f \in Fds : FdOK(f)
  BY DEF NInv, IInv
<1>2. PICK k \in {"mptcp", "other"} :
        call' = IF k = "other" THEN call ELSE
                [call EXCEPT ![t] = [NoCall EXCEPT !.pc = "alloc", !.op = "socket", !.fd = fd]]
  BY DEF Socket
<1>3. /\ call[t].pc = "idle" /\ kind[fd] = "closed" /\ UNCHANGED <<obj, htable>>
      /\ net' = [net EXCEPT ![fd] = FreshSock] /\ told' = [told EXCEPT ![fd] = "nothing"]
      /\ verdict' = [verdict EXCEPT ![fd] = "none"] /\ exposed' = exposed \ {fd}
  BY DEF Socket, At
<1>4. /\ net'[fd] = FreshSock /\ told'[fd] = "nothing" /\ verdict'[fd] = "none" /\ fd \notin exposed'
      /\ \A f \in Fds \ {fd} : /\ net'[f] = net[f] /\ verdict'[f] = verdict[f] /\ told'[f] = told[f]
                               /\ f \in exposed' <=> f \in exposed
  BY <1>1, <1>3 DEF TypeOK
<1>5. \A u \in Threads \ {t} : call'[u] = call[u] /\ ~On(u, fd)
  BY <1>1, <1>2, <1>3 DEF Owned, CallsOnOpen, On, TypeOK, CallsOK
<1>6. \/ call'[t].pc = "idle"
      \/ call'[t].pc = "alloc" /\ call'[t].fd = fd /\ call'[t].then = "skip"
  BY <1>1, <1>2, <1>3 DEF TypeOK, CallsOK, NoCall
<1>7. Gone(fd)' /\ \A f \in Fds : Gone(f)' <=> Gone(f)
  <2>1. Gone(fd)
    BY <1>1, <1>3, HashType DEF Owned, TableSound, Gone
  <2>. QED  BY <1>3, <2>1, GoneSame
<1>8. ASSUME NEW p \in {"idle", "alloc"}  PROVE GoodAt(fd, p, "skip")'
  BY <1>4, <1>7, <1>8, FreshForm DEF GoodAt, Good, Managed, Unconnected, Holding
<1>. QED  BY <1>1, <1>3, <1>4, <1>5, <1>6, <1>7, <1>8, ThreadStep

\* socket(): _alloc.
LEMMA AllocGood ==
  ASSUME NInv, ~overlap, NEW t \in Threads, Alloc(t)
  PROVE  \A f \in Fds : FdOK(f)'
<1>1. PICK fd : fd = call[t].fd
  OBVIOUS
<1>2. call[t].pc = "alloc" /\ Return(t) /\ UNCHANGED <<net, told, verdict, exposed>>
  BY DEF Alloc, At
<1>3. /\ TypeOK /\ Owned /\ (\A f \in Fds : FdOK(f)) /\ fd \in Fds /\ GoodAt(fd, "alloc", call[t].then)
      /\ \A u \in Threads \ {t} : ~On(u, fd)
  BY <1>1, <1>2, AtFd
<1>4. call'[t].pc = "idle" /\ \A u \in Threads \ {t} : call'[u] = call[u]
  BY <1>2, <1>3, ReturnFacts
<1>5. \A f \in Fds \ {fd} : Gone(f)' <=> Gone(f)
  BY <1>1, <1>3, GoneSame, GoneAlloc DEF Alloc
<1>6. net[fd].peer = "none" /\ Unconnected(net[fd], verdict[fd], fd \in exposed) /\ told[fd] # "failed"
  BY <1>3 DEF GoodAt, Good, Managed
<1>7. GoodAt(fd, "idle", "skip")'
  BY <1>2, <1>6 DEF GoodAt, Good, Managed, Unconnected, Holding
<1>. QED  BY <1>1, <1>2, <1>3, <1>4, <1>5, <1>7, ThreadStep

\* A call begins with _lookup, which finds the state if there is one.
LEMMA EnterGood ==
  ASSUME NInv, ~overlap', NEW t \in Threads, NEW fd \in Fds, NEW o, NEW hit, NEW miss, NEW k,
         Enter(t, o, fd, hit, miss, k),
         \/ hit \in {"redirect", "rdhdr"}
         \/ hit = "unlink" /\ k \in {"lconnect", "lclose"},
         miss \in {"lconnect", "lrecv", "lclose"} \/ (miss = "lsend" /\ told[fd] # "failed")
  PROVE  \A f \in Fds : FdOK(f)'
<1>1. PICK s \in Lookup(fd) :
        call' = [call EXCEPT ![t] = [pc |-> IF s = Nil THEN miss ELSE hit, op |-> o, fd |-> fd,
                                     st |-> s, then |-> k]]
  BY DEF Enter
<1>2. /\ call[t].pc = "idle" /\ ~overlap /\ ~InUse(fd, t)
      /\ UNCHANGED <<net, obj, htable, told, verdict, exposed>>
  BY DEF Enter, At
<1>3. TypeOK /\ Owned /\ \A f \in Fds : FdOK(f)
  BY <1>2 DEF NInv, IInv
<1>4. PICK p : p = IF s = Nil THEN miss ELSE hit
  OBVIOUS
<1>5. /\ call'[t].pc = p /\ call'[t].fd = fd /\ call'[t].then = k
      /\ \A u \in Threads \ {t} : call'[u] = call[u] /\ ~On(u, fd)
  BY <1>1, <1>2, <1>3, <1>4 DEF TypeOK, CallsOK, InUse, On
<1>6. \/ Gone(fd) /\ p = miss
      \/ ~Gone(fd) /\ p = hit
  BY <1>3, <1>4, HashType, ClientAssumption DEF Lookup, Matches, TypeOK, Gone
<1>7. GoodAt(fd, "idle", "skip")
  BY <1>2, <1>3 DEF FdOK, Busy, InUse
<1>8. GoodAt(fd, p, k)
  <2>1. CASE Gone(fd) /\ p = miss
    BY <1>7, <2>1 DEF GoodAt, Good, Managed, Converted, Leaving, Holding
  <2>2. CASE ~Gone(fd) /\ p = hit
    BY <1>7, <2>2 DEF GoodAt, Good, Managed, Converted, Leaving, Holding
  <2>. QED  BY <1>6, <2>1, <2>2
<1>9. \A f \in Fds : Gone(f)' <=> Gone(f)
  BY <1>2, GoneSame
<1>10. GoodAt(fd, p, k)'
  BY <1>2, <1>8, <1>9 DEF GoodAt, Good, Managed, Unconnected, Direct, Converted
<1>. QED  BY <1>2, <1>3, <1>5, <1>9, <1>10, ThreadStep

\* _redirect connects the socket, or gives it up.
LEMMA RedirectGood ==
  ASSUME NInv, ~overlap, NEW t \in Threads, Redirect(t), ~AsyncConnect
  PROVE  \A f \in Fds : FdOK(f)'
<1>1. PICK fd : fd = call[t].fd
  OBVIOUS
<1>2. /\ call[t].pc = "redirect" /\ UNCHANGED <<obj, htable, told, verdict, exposed>>
      /\ \/ CanConnect(fd) /\ Attach(fd, "converter") /\ Goto(t, "sendhdr")
         \/ FreeThen(t, "lconnect") /\ UNCHANGED net
  BY <1>1, HeldState DEF Redirect, At, Holding
<1>3. /\ TypeOK /\ Owned /\ (\A f \in Fds : FdOK(f)) /\ fd \in Fds /\ GoodAt(fd, "redirect", call[t].then)
      /\ \A u \in Threads \ {t} : ~On(u, fd)
  BY <1>1, <1>2, AtFd
<1>4. \A f : Gone(f)' <=> Gone(f)
  BY <1>2, GoneSame
<1>5. CASE CanConnect(fd) /\ Attach(fd, "converter") /\ Goto(t, "sendhdr")
  <2>1. /\ net'[fd].peer = "converter" /\ net'[fd].sent = net[fd].sent /\ net'[fd].rq = net[fd].rq
        /\ net'[fd].answer = net[fd].answer /\ net'[fd].eof = net[fd].eof
        /\ \A f \in Fds \ {fd} : net'[f] = net[f]
    BY <1>3, <1>5, AttachFacts
  <2>2. /\ call'[t].pc = "sendhdr" /\ call'[t].fd = fd /\ call'[t].then = call[t].then
        /\ \A u \in Threads \ {t} : call'[u] = call[u]
    BY <1>1, <1>3, <1>5, GotoFacts, NextFacts
  <2>3. Unconnected(net[fd], verdict[fd], fd \in exposed)
    BY <1>3, <1>5 DEF CanConnect, GoodAt, Good
  <2>4. PICK c : c = call[t].then
    OBVIOUS
  <2>5. GoodAt(fd, "sendhdr", c)'
    <3>1. Managed(verdict[fd], told[fd], Gone(fd), "redirect", c)
      BY <1>3, <2>4 DEF GoodAt, Good
    <3>2. Managed(verdict[fd], told[fd], Gone(fd), "sendhdr", c)'
      BY <1>2, <1>4, <3>1 DEF Managed, Holding
    <3>3. Converted(net[fd], verdict[fd], told[fd], Gone(fd), "sendhdr", c)'
      BY <1>2, <1>4, <2>1, <2>3, <3>1, HeaderAlone DEF Converted, Unconnected, Managed, Holding
    <3>. QED  BY <2>1, <2>3, <3>2, <3>3 DEF GoodAt, Good, Unconnected
  <2>. QED  BY <1>1, <1>2, <1>3, <1>4, <2>1, <2>2, <2>4, <2>5, ThreadStep
<1>6. CASE FreeThen(t, "lconnect") /\ UNCHANGED net
  <2>1. /\ call'[t].pc = "unlink" /\ call'[t].fd = fd /\ call'[t].then = "lconnect"
        /\ \A u \in Threads \ {t} : call'[u] = call[u]
    BY <1>1, <1>3, <1>6, FreeThenFacts, NextFacts
  <2>2. GoodAt(fd, "unlink", "lconnect")'
    BY <1>2, <1>3, <1>4, <1>6
       DEF GoodAt, Good, Managed, Unconnected, Direct, Converted, Leaving, Holding
  <2>. QED  BY <1>1, <1>2, <1>3, <1>4, <1>6, <2>1, <2>2, ThreadStep
<1>. QED  BY <1>2, <1>5, <1>6

\* _redirect sends the one header, or gives the socket up.
LEMMA SendHdrGood ==
  ASSUME NInv, ~overlap, NEW t \in Threads, SendHdr(t)
  PROVE  \A f \in Fds : FdOK(f)'
<1>1. PICK fd, c : fd = call[t].fd /\ c = call[t].then
  OBVIOUS
<1>2. /\ call[t].pc = "sendhdr" /\ UNCHANGED <<obj, htable, told, verdict, exposed>>
      /\ \/ Put(fd, "hdr") /\ Goto(t, "rdhdr")
         \/ FreeThen(t, "lconnect") /\ UNCHANGED net
  BY <1>1, HeldState DEF SendHdr, At, Holding
<1>3. /\ TypeOK /\ Owned /\ (\A f \in Fds : FdOK(f)) /\ fd \in Fds /\ GoodAt(fd, "sendhdr", c)
      /\ \A u \in Threads \ {t} : ~On(u, fd)
  BY <1>1, <1>2, AtFd
<1>4. \A f : Gone(f)' <=> Gone(f)
  BY <1>2, GoneSame
<1>5. CASE Put(fd, "hdr") /\ Goto(t, "rdhdr")
  <2>1. /\ net'[fd].peer = net[fd].peer /\ net'[fd].sent = Append(net[fd].sent, "hdr") /\ net'[fd].rq = net[fd].rq
        /\ net'[fd].answer = net[fd].answer /\ net'[fd].eof = net[fd].eof
        /\ \A f \in Fds \ {fd} : net'[f] = net[f]
    BY <1>3, <1>5, PutFacts
  <2>2. /\ call'[t].pc = "rdhdr" /\ call'[t].fd = fd /\ call'[t].then = c
        /\ \A u \in Threads \ {t} : call'[u] = call[u]
    BY <1>1, <1>3, <1>5, GotoFacts, NextFacts
  <2>3. net[fd].peer = "converter" /\ net[fd].sent = <<>>
    BY <1>3 DEF GoodAt, Good
  <2>4. HeaderFirst(net'[fd].sent) /\ net'[fd].sent # <<>>
    BY <2>1, <2>3, HeaderAlone
  <2>5. GoodAt(fd, "rdhdr", c)'
    <3>1. Managed(verdict[fd], told[fd], Gone(fd), "sendhdr", c)
      BY <1>3 DEF GoodAt, Good
    <3>2. Managed(verdict[fd], told[fd], Gone(fd), "rdhdr", c)' /\ ~Gone(fd)'
      BY <1>2, <1>4, <3>1 DEF Managed, Holding
    <3>3. net[fd].answer = "none" => net[fd].rq = <<>>
      BY <1>3, <2>3 DEF GoodAt, Good, Converted
    <3>4. Converted(net[fd], verdict[fd], told[fd], Gone(fd), "rdhdr", c)'
      BY <2>1, <2>4, <3>2, <3>3 DEF Converted
    <3>. QED  BY <2>1, <2>3, <3>2, <3>4 DEF GoodAt, Good
  <2>. QED  BY <1>1, <1>2, <1>3, <1>4, <2>1, <2>2, <2>5, ThreadStep
<1>6. CASE FreeThen(t, "lconnect") /\ UNCHANGED net
  <2>1. /\ call'[t].pc = "unlink" /\ call'[t].fd = fd /\ call'[t].then = "lconnect"
        /\ \A u \in Threads \ {t} : call'[u] = call[u]
    BY <1>1, <1>3, <1>6, FreeThenFacts, NextFacts
  <2>2. GoodAt(fd, "unlink", "lconnect")'
    BY <1>2, <1>3, <1>4, <1>6
       DEF GoodAt, Good, Managed, Unconnected, Direct, Converted, Leaving, Holding
  <2>. QED  BY <1>1, <1>2, <1>3, <1>4, <1>6, <2>1, <2>2, ThreadStep
<1>. QED  BY <1>2, <1>5, <1>6

\* Skipped tells at most the call's own descriptor, and never of a failure.
LEMMA SkippedFacts ==
  ASSUME TypeOK, NEW t \in Threads, call[t].fd \in Fds, Skipped(t)
  PROVE  /\ \A f \in Fds \ {call[t].fd} : told'[f] = told[f]
         /\ told'[call[t].fd] \in {told[call[t].fd], "connected"}
BY DEF TypeOK, Skipped

\* A call that reads the answer: it waits on, goes on reading, or judges it and
\* frees the state.
LEMMA ReadGood ==
  ASSUME NInv, ~overlap, NEW t \in Threads, NEW fd, fd = call[t].fd,
         call[t].pc \in {"rdhdr", "rdtlv", "rderr"}, UNCHANGED <<obj, htable, exposed>>,
         NEW p, NEW c, call'[t].pc = p, p # "idle" => call'[t].fd = fd /\ call'[t].then = c,
         \A u \in Threads \ {t} : call'[u] = call[u],
         /\ net'[fd].peer = net[fd].peer /\ net'[fd].sent = net[fd].sent
         /\ net'[fd].answer = net[fd].answer /\ net'[fd].eof = net[fd].eof
         /\ \A f \in Fds \ {fd} : net'[f] = net[f],
         net'[fd].rq = net[fd].rq \/ net[fd].rq # <<>>,
         \A f \in Fds \ {fd} : told'[f] = told[f] /\ verdict'[f] = verdict[f],
         told'[fd] \in {told[fd], "connected"},
         \/ p \in {"idle", "rdtlv", "rderr"} /\ verdict'[fd] = verdict[fd]
         \/ p = "unlink" /\ c \in {"skip", "run"} /\ verdict'[fd] # "none",
         p # "idle" => net[fd].rq # <<>> \/ net[fd].eof \/ call[t].pc \in {"rdtlv", "rderr"}
  PROVE  \A f \in Fds : FdOK(f)'
<1>1. call[t].pc \in Holding /\ call[t].pc # "idle"
  BY DEF Holding
<1>2. PICK q, b : q = call[t].pc /\ b = call[t].then
  OBVIOUS
<1>3. /\ TypeOK /\ Owned /\ (\A f \in Fds : FdOK(f)) /\ fd \in Fds /\ GoodAt(fd, q, b)
      /\ \A u \in Threads \ {t} : ~On(u, fd)
  BY <1>1, <1>2, AtFd
<1>4. \A f : Gone(f)' <=> Gone(f)
  BY GoneSame
<1>5. ~Gone(fd) /\ told[fd] # "failed" /\ verdict[fd] = "none"
  BY <1>2, <1>3 DEF GoodAt, Good, Managed, Holding
<1>6. ~Gone(fd)' /\ told'[fd] # "failed"
  BY <1>4, <1>5
<1>7. net[fd].peer # "server"
  BY <1>3, <1>5 DEF GoodAt, Good, Direct
<1>8. CASE net[fd].peer = "none"
  <2>1. Unconnected(net[fd], verdict[fd], fd \in exposed) /\ q \notin {"rdtlv", "rderr"}
    BY <1>3, <1>8 DEF GoodAt, Good
  <2>2. p = "idle" /\ verdict'[fd] = verdict[fd] /\ net'[fd].rq = net[fd].rq
    BY <1>2, <2>1 DEF Unconnected
  <2>3. GoodAt(fd, p, c)'
    BY <1>5, <1>6, <1>8, <2>1, <2>2 DEF GoodAt, Good, Managed, Unconnected, Holding
  <2>. QED  BY <1>2, <1>3, <1>4, <2>3, ThreadStep
<1>9. CASE net[fd].peer = "converter"
  <2>1. Converted(net[fd], verdict[fd], told[fd], Gone(fd), q, b)
    BY <1>3, <1>9 DEF GoodAt, Good
  <2>2. net[fd].sent # <<>> /\ HeaderFirst(net[fd].sent) /\ (net[fd].answer = "none" => net[fd].rq = <<>>)
    BY <1>2, <1>5, <2>1 DEF Converted, Leaving
  <2>3. Converted(net[fd], verdict[fd], told[fd], Gone(fd), p, c)'
    BY <1>6, <2>2 DEF Converted
  <2>4. p # "idle" => net[fd].answer # "none" \/ net[fd].eof
    BY <1>2, <1>3, <2>2 DEF GoodAt, Good
  <2>5. Managed(verdict[fd], told[fd], Gone(fd), p, c)'
    BY <1>5, <1>6 DEF Managed, Holding
  <2>6. GoodAt(fd, p, c)'
    BY <1>9, <2>3, <2>4, <2>5 DEF GoodAt, Good
  <2>. QED  BY <1>2, <1>3, <1>4, <2>6, ThreadStep
<1>10. net[fd].peer \in {"none", "converter", "server"}
  BY <1>3 DEF TypeOK, Sock
<1>. QED  BY <1>7, <1>8, <1>9, <1>10

\* _read_convert: the header.
LEMMA RdHdrGood ==
  ASSUME NInv, ~overlap, NEW t \in Threads, RdHdr(t)
  PROVE  \A f \in Fds : FdOK(f)'
<1>1. PICK fd, b : fd = call[t].fd /\ b = call[t].then
  OBVIOUS
<1>2. call[t].pc = "rdhdr" /\ UNCHANGED <<obj, htable, exposed>> /\ obj[call[t].st] = fd
  BY <1>1, HeldState DEF RdHdr, At, Holding
<1>3. TypeOK /\ fd \in Fds
  BY <1>1, <1>2, AtFd
<1>4. CASE Skipped(t) /\ Return(t) /\ UNCHANGED <<net, verdict>>
  <2>1. call'[t].pc = "idle" /\ \A u \in Threads \ {t} : call'[u] = call[u]
    BY <1>3, <1>4, ReturnFacts
  <2>2. told'[fd] \in {told[fd], "connected"} /\ \A f \in Fds \ {fd} : told'[f] = told[f]
    BY <1>1, <1>3, <1>4, SkippedFacts
  <2>. QED  BY <1>1, <1>2, <1>4, <2>1, <2>2, ReadGood
<1>5. CASE net[fd].rq = <<>> /\ net[fd].eof /\ Goto(t, "rderr") /\ UNCHANGED <<net, told, verdict>>
  <2>1. /\ call'[t].pc = "rderr" /\ call'[t].fd = fd /\ call'[t].then = b
        /\ \A u \in Threads \ {t} : call'[u] = call[u]
    BY <1>1, <1>2, <1>3, <1>5, GotoFacts, NextFacts
  <2>. QED  BY <1>1, <1>2, <1>5, <2>1, ReadGood
<1>6. CASE /\ Take(fd) /\ UNCHANGED told
           /\ \/ FreeThen(t, "run") /\ verdict' = [verdict EXCEPT ![fd] = "accepted"]
              \/ (Goto(t, "rdtlv") \/ Goto(t, "rderr")) /\ UNCHANGED verdict
  <2>1. /\ net'[fd].peer = net[fd].peer /\ net'[fd].sent = net[fd].sent /\ net[fd].rq # <<>>
        /\ net'[fd].answer = net[fd].answer /\ net'[fd].eof = net[fd].eof
        /\ \A f \in Fds \ {fd} : net'[f] = net[f]
    BY <1>3, <1>6, TakeFacts
  <2>2. CASE FreeThen(t, "run") /\ verdict' = [verdict EXCEPT ![fd] = "accepted"]
    <3>1. /\ call'[t].pc = "unlink" /\ call'[t].fd = fd /\ call'[t].then = "run"
          /\ \A u \in Threads \ {t} : call'[u] = call[u]
      BY <1>1, <1>2, <1>3, <2>2, FreeThenFacts, NextFacts
    <3>2. verdict'[fd] # "none" /\ \A f \in Fds \ {fd} : verdict'[f] = verdict[f]
      BY <1>3, <2>2 DEF TypeOK
    <3>. QED  BY <1>1, <1>2, <1>6, <2>1, <3>1, <3>2, ReadGood
  <2>3. ASSUME NEW p \in {"rdtlv", "rderr"}, Goto(t, p), UNCHANGED verdict
        PROVE  \A f \in Fds : FdOK(f)'
    <3>1. /\ call'[t].pc = p /\ call'[t].fd = fd /\ call'[t].then = b
          /\ \A u \in Threads \ {t} : call'[u] = call[u]
      BY <1>1, <1>2, <1>3, <2>3, GotoFacts, NextFacts
    <3>. QED  BY <1>1, <1>2, <1>6, <2>1, <2>3, <3>1, ReadGood
  <2>. QED  BY <1>6, <2>2, <2>3
<1>. QED  BY <1>2, <1>4, <1>5, <1>6 DEF RdHdr

\* _read_convert: the TLVs.
LEMMA RdTlvGood ==
  ASSUME NInv, ~overlap, NEW t \in Threads, RdTlv(t)
  PROVE  \A f \in Fds : FdOK(f)'
<1>1. PICK fd, b : fd = call[t].fd /\ b = call[t].then
  OBVIOUS
<1>2. call[t].pc = "rdtlv" /\ UNCHANGED <<obj, htable, told, exposed>> /\ obj[call[t].st] = fd
  BY <1>1, HeldState DEF RdTlv, At, Holding
<1>3. TypeOK /\ fd \in Fds
  BY <1>1, <1>2, AtFd
<1>4. /\ net'[fd].peer = net[fd].peer /\ net'[fd].sent = net[fd].sent
      /\ net'[fd].answer = net[fd].answer /\ net'[fd].eof = net[fd].eof
      /\ \A f \in Fds \ {fd} : net'[f] = net[f]
      /\ net'[fd].rq = net[fd].rq \/ net[fd].rq # <<>>
  <2>1. Take(fd) \/ UNCHANGED net
    BY <1>2 DEF RdTlv
  <2>. QED  BY <1>3, <2>1, TakeFacts
<1>5. CASE Goto(t, "rderr") /\ UNCHANGED verdict
  <2>1. /\ call'[t].pc = "rderr" /\ call'[t].fd = fd /\ call'[t].then = b
        /\ \A u \in Threads \ {t} : call'[u] = call[u]
    BY <1>1, <1>2, <1>3, <1>5, GotoFacts, NextFacts
  <2>. QED  BY <1>1, <1>2, <1>4, <1>5, <2>1, ReadGood
<1>6. CASE FreeThen(t, "run") /\ verdict' = [verdict EXCEPT ![fd] = "accepted"]
  <2>1. /\ call'[t].pc = "unlink" /\ call'[t].fd = fd /\ call'[t].then = "run"
        /\ \A u \in Threads \ {t} : call'[u] = call[u]
    BY <1>1, <1>2, <1>3, <1>6, FreeThenFacts, NextFacts
  <2>2. verdict'[fd] # "none" /\ \A f \in Fds \ {fd} : verdict'[f] = verdict[f]
    BY <1>3, <1>6 DEF TypeOK
  <2>. QED  BY <1>1, <1>2, <1>4, <2>1, <2>2, ReadGood
<1>. QED  BY <1>2, <1>5, <1>6 DEF RdTlv

\* _read_convert: the error label.
LEMMA RdErrGood ==
  ASSUME NInv, ~overlap, NEW t \in Threads, RdErr(t)
  PROVE  \A f \in Fds : FdOK(f)'
<1>1. PICK fd : fd = call[t].fd
  OBVIOUS
<1>2. /\ call[t].pc = "rderr" /\ UNCHANGED <<obj, htable, told, exposed>> /\ SetNoLinger(fd)
      /\ verdict' = [verdict EXCEPT ![fd] = "rejected"] /\ FreeThen(t, "skip")
  BY <1>1, HeldState DEF RdErr, At, Holding
<1>3. TypeOK /\ fd \in Fds
  BY <1>1, <1>2, AtFd
<1>4. /\ call'[t].pc = "unlink" /\ call'[t].fd = fd /\ call'[t].then = "skip"
      /\ \A u \in Threads \ {t} : call'[u] = call[u]
  BY <1>1, <1>2, <1>3, FreeThenFacts, NextFacts
<1>5. verdict'[fd] # "none" /\ \A f \in Fds \ {fd} : verdict'[f] = verdict[f]
  BY <1>2, <1>3 DEF TypeOK
<1>6. /\ net'[fd].peer = net[fd].peer /\ net'[fd].sent = net[fd].sent /\ net'[fd].rq = net[fd].rq
      /\ net'[fd].answer = net[fd].answer /\ net'[fd].eof = net[fd].eof
      /\ \A f \in Fds \ {fd} : net'[f] = net[f]
  BY <1>2, <1>3, LingerFacts
<1>. QED  BY <1>1, <1>2, <1>4, <1>5, <1>6, ReadGood

\* _free_state: LIST_REMOVE.
LEMMA UnlinkGood ==
  ASSUME NInv, ~overlap, NEW t \in Threads, Unlink(t)
  PROVE  \A f \in Fds : FdOK(f)'
<1>1. PICK fd, c, s : fd = call[t].fd /\ c = call[t].then /\ s = call[t].st
  OBVIOUS
<1>2. /\ call[t].pc = "unlink" /\ UNCHANGED <<net, obj, told, verdict, exposed>> /\ Goto(t, "free")
      /\ obj[s] = fd /\ s \in Cells /\ htable' = [b \in Buckets |-> htable[b] \ {s}]
  BY <1>1, HeldState DEF Unlink, At, Holding
<1>3. /\ TypeOK /\ Owned /\ (\A f \in Fds : FdOK(f)) /\ fd \in Fds /\ GoodAt(fd, "unlink", c)
      /\ \A u \in Threads \ {t} : ~On(u, fd)
  BY <1>1, <1>2, AtFd
<1>4. /\ call'[t].pc = "free" /\ call'[t].fd = fd /\ call'[t].then = c
      /\ \A u \in Threads \ {t} : call'[u] = call[u]
  BY <1>1, <1>2, <1>3, GotoFacts, NextFacts
<1>5. \A f \in Fds \ {fd} : Gone(f)' <=> Gone(f)
  BY <1>2, <1>3, GoneUnlink
<1>6. Gone(fd)'
  <2>1. Hash(fd) \in Buckets
    BY <1>3, HashType
  <2>2. s \in htable[Hash(fd)]
    BY <1>1, <1>2, <1>3 DEF Owned, PointersLive, Holding
  <2>3. \A b \in htable[Hash(fd)] : obj[b] = fd => b = s
    BY <1>2, <1>3, <2>1, <2>2 DEF Owned, TableInjective
  <2>. QED  BY <1>2, <2>1, <2>3 DEF Gone
<1>7. GoodAt(fd, "free", c)'
  <2>1. /\ Managed(verdict[fd], told[fd], Gone(fd), "unlink", c) /\ net[fd].peer # "server"
        /\ net[fd].peer = "none" => Unconnected(net[fd], verdict[fd], fd \in exposed)
        /\ net[fd].peer = "converter" =>
              Converted(net[fd], verdict[fd], told[fd], Gone(fd), "unlink", c)
    BY <1>3 DEF GoodAt, Good, Direct, Managed, Holding
  <2>2. Managed(verdict[fd], told[fd], Gone(fd), "free", c)'
    BY <1>2, <1>6, <2>1 DEF Managed, Holding
  <2>3. c \in {"lconnect", "lclose"} \/ verdict[fd] # "none"
    BY <1>1, <1>3, <2>1 DEF TypeOK, CallsOK, Calls, Conts, Managed
  <2>4. net[fd].peer = "converter" =>
          Converted(net[fd], verdict[fd], told[fd], Gone(fd), "free", c)'
    BY <1>2, <1>6, <2>1, <2>3 DEF Converted, Leaving
  <2>. QED  BY <1>2, <2>1, <2>2, <2>4 DEF GoodAt, Good, Unconnected
<1>. QED  BY <1>1, <1>2, <1>3, <1>4, <1>5, <1>7, ThreadStep

\* _free_state: free().
LEMMA FreeGood ==
  ASSUME NInv, ~overlap, NEW t \in Threads, Free(t)
  PROVE  \A f \in Fds : FdOK(f)'
<1>1. PICK fd, c, s : fd = call[t].fd /\ c = call[t].then /\ s = call[t].st
  OBVIOUS
<1>2. /\ call[t].pc = "free" /\ UNCHANGED <<net, htable, verdict, exposed>>
      /\ obj[s] = fd /\ s \in Cells /\ obj' = [obj EXCEPT ![s] = Nil]
  BY <1>1, HeldState DEF Free, At, Holding
<1>3. /\ TypeOK /\ Owned /\ (\A f \in Fds : FdOK(f)) /\ fd \in Fds /\ GoodAt(fd, "free", c)
      /\ \A u \in Threads \ {t} : ~On(u, fd)
  BY <1>1, <1>2, AtFd
<1>4. \A f \in Fds : Gone(f)' <=> Gone(f)
  <2>1. \A b \in Buckets : s \notin htable[b]
    BY <1>1, <1>2, <1>3 DEF Owned, TableSound, Untabled
  <2>. QED  BY <1>2, <1>3, <2>1, GoneFree
<1>5. Gone(fd) /\ told[fd] # "failed" /\ Gone(fd)'
  BY <1>3, <1>4 DEF GoodAt, Good, Managed, Holding
<1>6. CASE c \in {"lconnect", "lclose"} /\ Goto(t, c) /\ UNCHANGED told
  <2>1. /\ call'[t].pc = c /\ call'[t].fd = fd /\ call'[t].then = c
        /\ \A u \in Threads \ {t} : call'[u] = call[u]
    BY <1>1, <1>3, <1>6, GotoFacts, NextFacts
  <2>2. GoodAt(fd, c, c)'
    BY <1>2, <1>3, <1>5, <1>6
       DEF GoodAt, Good, Managed, Unconnected, Direct, Converted, Leaving, Holding
  <2>. QED  BY <1>1, <1>2, <1>3, <1>4, <1>6, <2>1, <2>2, ThreadStep
<1>7. CASE /\ c \in {"skip", "run"} /\ Skipped(t)
           /\ Return(t) \/ Goto(t, "lrecv") \/ Goto(t, "lsend")
  <2>1. PICK p \in {"idle", "lrecv", "lsend"} :
          /\ call'[t].pc = p
          /\ p # "idle" => call'[t].fd = fd /\ call'[t].then = c
          /\ \A u \in Threads \ {t} : call'[u] = call[u]
    BY <1>1, <1>3, <1>7, GotoFacts, ReturnFacts, NextFacts
  <2>2. told'[fd] \in {told[fd], "connected"} /\ \A f \in Fds \ {fd} : told'[f] = told[f]
    BY <1>1, <1>3, <1>7, SkippedFacts
  <2>3. verdict[fd] # "none"
    BY <1>3, <1>7 DEF GoodAt, Good, Managed
  <2>4. net[fd].peer \notin {"none", "server"} /\ Managed(verdict[fd], told[fd], Gone(fd), p, c)'
    BY <1>2, <1>3, <1>5, <2>2, <2>3 DEF GoodAt, Good, Unconnected, Direct, Managed, Holding
  <2>5. net[fd].peer = "converter" => Converted(net[fd], verdict[fd], told[fd], Gone(fd), p, c)'
    BY <1>2, <1>3, <2>3 DEF GoodAt, Good, Converted
  <2>6. GoodAt(fd, p, c)'
    BY <1>2, <2>4, <2>5 DEF GoodAt, Good
  <2>7. \A f \in Fds \ {fd} : /\ net'[f] = net[f] /\ verdict'[f] = verdict[f] /\ told'[f] = told[f]
                              /\ f \in exposed' <=> f \in exposed
                              /\ Gone(f)' <=> Gone(f)
    BY <1>2, <1>4, <2>2
  <2>. QED  BY <1>1, <1>2, <1>3, <2>1, <2>6, <2>7, ThreadStep
<1>. QED  BY <1>1, <1>6, <1>7 DEF Free, AfterRun

\* The real connect().
LEMMA LConnectGood ==
  ASSUME NInv, ~overlap, NEW t \in Threads, LConnect(t), ~AsyncConnect
  PROVE  \A f \in Fds : FdOK(f)'
<1>1. PICK fd, c : fd = call[t].fd /\ c = call[t].then
  OBVIOUS
<1>2. /\ call[t].pc = "lconnect" /\ UNCHANGED <<obj, htable, verdict, exposed>> /\ Return(t)
      /\ \/ CanConnect(fd) /\ Attach(fd, "server") /\ told' = [told EXCEPT ![fd] = "connected"]
         \/ told' = [told EXCEPT ![fd] = "failed"] /\ UNCHANGED net
  BY <1>1 DEF LConnect, At
<1>3. /\ TypeOK /\ Owned /\ (\A f \in Fds : FdOK(f)) /\ fd \in Fds /\ GoodAt(fd, "lconnect", c)
      /\ \A u \in Threads \ {t} : ~On(u, fd)
  BY <1>1, <1>2, AtFd
<1>4. call'[t].pc = "idle" /\ \A u \in Threads \ {t} : call'[u] = call[u]
  BY <1>2, <1>3, ReturnFacts
<1>5. (\A f : Gone(f)' <=> Gone(f)) /\ Gone(fd) /\ Gone(fd)'
  BY <1>2, <1>3, GoneSame DEF GoodAt, Good, Managed
<1>6. CASE CanConnect(fd) /\ Attach(fd, "server") /\ told' = [told EXCEPT ![fd] = "connected"]
  <2>1. /\ net'[fd].peer = "server" /\ net'[fd].rq = net[fd].rq /\ net'[fd].answer = net[fd].answer
        /\ \A f \in Fds \ {fd} : net'[f] = net[f]
    BY <1>3, <1>6, AttachFacts
  <2>2. told'[fd] = "connected" /\ \A f \in Fds \ {fd} : told'[f] = told[f]
    BY <1>3, <1>6 DEF TypeOK
  <2>3. Unconnected(net[fd], verdict[fd], fd \in exposed)
    BY <1>3, <1>6 DEF CanConnect, GoodAt, Good
  <2>4. AllData(<<>>)
    BY DEF AllData
  <2>5. Direct(net[fd], verdict[fd], Gone(fd), fd \in exposed)'
    BY <1>2, <1>5, <2>1, <2>3, <2>4 DEF Direct, Unconnected
  <2>6. GoodAt(fd, "idle", c)'
    BY <1>5, <2>1, <2>2, <2>5 DEF GoodAt, Good, Managed, Holding
  <2>7. \A f \in Fds \ {fd} : /\ net'[f] = net[f] /\ verdict'[f] = verdict[f] /\ told'[f] = told[f]
                              /\ f \in exposed' <=> f \in exposed
                              /\ Gone(f)' <=> Gone(f)
    BY <1>2, <1>5, <2>1, <2>2
  <2>8. /\ TypeOK /\ fd \in Fds /\ call[t].fd = fd /\ call'[t].pc = "idle"
        /\ (\A f \in Fds : FdOK(f)) /\ \A u \in Threads \ {t} : call'[u] = call[u] /\ ~On(u, fd)
    BY <1>1, <1>3, <1>4
  <2>. QED  BY <2>6, <2>7, <2>8, ThreadStep
<1>7. CASE told' = [told EXCEPT ![fd] = "failed"] /\ UNCHANGED net
  <2>1. told'[fd] = "failed" /\ \A f \in Fds \ {fd} : told'[f] = told[f]
    BY <1>3, <1>7 DEF TypeOK
  <2>2. GoodAt(fd, "idle", c)'
    BY <1>2, <1>3, <1>5, <1>7, <2>1
       DEF GoodAt, Good, Managed, Unconnected, Direct, Converted, Holding
  <2>. QED  BY <1>1, <1>2, <1>3, <1>4, <1>5, <1>7, <2>1, <2>2, ThreadStep
<1>. QED  BY <1>2, <1>6, <1>7

\* The other end's items are data unless it is a Converter.
LEMMA DeliverFacts ==
  ASSUME TypeOK, NEW fd \in Fds, Deliver(fd), NEW p, NEW c, GoodAt(fd, p, c)
  PROVE  /\ net'[fd].peer = net[fd].peer /\ net'[fd].sent = net[fd].sent
         /\ net'[fd].rq = Tail(net[fd].rq) /\ net[fd].rq # <<>>
         /\ net'[fd].answer = net[fd].answer /\ net'[fd].eof = net[fd].eof
         /\ \A f \in Fds \ {fd} : net'[f] = net[f] /\ (f \in exposed' <=> f \in exposed)
         /\ net[fd].peer # "none"
         /\ net[fd].peer = "server" => AllData(net'[fd].rq) /\ exposed' = exposed
<1>1. Take(fd) /\ exposed' = IF Head(net[fd].rq) = "data" THEN exposed ELSE exposed \cup {fd}
  BY DEF Deliver
<1>2. /\ net'[fd].peer = net[fd].peer /\ net'[fd].sent = net[fd].sent
      /\ net'[fd].rq = Tail(net[fd].rq) /\ net[fd].rq # <<>>
      /\ net'[fd].answer = net[fd].answer /\ net'[fd].eof = net[fd].eof
      /\ \A f \in Fds \ {fd} : net'[f] = net[f]
  BY <1>1, TakeFacts
<1>3. net[fd].rq \in Seq(Chunk)
  BY DEF TypeOK, Sock
<1>4. net[fd].peer # "none"
  BY <1>2 DEF GoodAt, Good, Unconnected
<1>5. CASE net[fd].peer = "server"
  <2>1. AllData(net[fd].rq)
    BY <1>5 DEF GoodAt, Good, Direct
  <2>2. AllData(net'[fd].rq) /\ Head(net[fd].rq) = "data"
    BY <1>2, <1>3, <2>1, DataLeft
  <2>. QED  BY <1>1, <1>2, <1>4, <2>2
<1>. QED  BY <1>1, <1>2, <1>4, <1>5

\* The real recv().
LEMMA LRecvGood ==
  ASSUME NInv, ~overlap, NEW t \in Threads, LRecv(t)
  PROVE  \A f \in Fds : FdOK(f)'
<1>1. PICK fd, c : fd = call[t].fd /\ c = call[t].then
  OBVIOUS
<1>2. /\ call[t].pc = "lrecv" /\ UNCHANGED <<obj, htable, told, verdict>> /\ Return(t)
      /\ Deliver(fd) \/ UNCHANGED <<net, exposed>>
  BY <1>1 DEF LRecv, At
<1>3. /\ TypeOK /\ Owned /\ (\A f \in Fds : FdOK(f)) /\ fd \in Fds /\ GoodAt(fd, "lrecv", c)
      /\ \A u \in Threads \ {t} : ~On(u, fd)
  BY <1>1, <1>2, AtFd
<1>4. call'[t].pc = "idle" /\ \A u \in Threads \ {t} : call'[u] = call[u]
  BY <1>2, <1>3, ReturnFacts
<1>5. \A f : Gone(f)' <=> Gone(f)
  BY <1>2, GoneSame
<1>6. CASE Deliver(fd)
  <2>1. /\ net'[fd].peer = net[fd].peer /\ net'[fd].sent = net[fd].sent /\ net[fd].rq # <<>>
        /\ net'[fd].answer = net[fd].answer
        /\ \A f \in Fds \ {fd} : net'[f] = net[f] /\ (f \in exposed' <=> f \in exposed)
        /\ net[fd].peer # "none"
        /\ net[fd].peer = "server" => AllData(net'[fd].rq) /\ exposed' = exposed
    BY <1>3, <1>6, DeliverFacts
  <2>2. GoodAt(fd, "idle", c)'
    BY <1>2, <1>3, <1>5, <2>1 DEF GoodAt, Good, Managed, Direct, Converted, Leaving, Holding
  <2>. QED  BY <1>1, <1>2, <1>3, <1>4, <1>5, <2>1, <2>2, ThreadStep
<1>7. CASE UNCHANGED <<net, exposed>>
  <2>1. GoodAt(fd, "idle", c)'
    BY <1>2, <1>3, <1>5, <1>7
       DEF GoodAt, Good, Managed, Unconnected, Direct, Converted, Leaving, Holding
  <2>. QED  BY <1>1, <1>2, <1>3, <1>4, <1>5, <1>7, <2>1, ThreadStep
<1>. QED  BY <1>2, <1>6, <1>7

\* The real send(): a socket whose call got this far has sent its header.
LEMMA LSendGood ==
  ASSUME NInv, ~overlap, NEW t \in Threads, LSend(t)
  PROVE  \A f \in Fds : FdOK(f)'
<1>1. PICK fd, c : fd = call[t].fd /\ c = call[t].then
  OBVIOUS
<1>2. /\ call[t].pc = "lsend" /\ UNCHANGED <<obj, htable, told, verdict, exposed>> /\ Return(t)
      /\ (net[fd].peer # "none" /\ Put(fd, "data")) \/ UNCHANGED net
  BY <1>1 DEF LSend, At
<1>3. /\ TypeOK /\ Owned /\ (\A f \in Fds : FdOK(f)) /\ fd \in Fds /\ GoodAt(fd, "lsend", c)
      /\ \A u \in Threads \ {t} : ~On(u, fd)
  BY <1>1, <1>2, AtFd
<1>4. call'[t].pc = "idle" /\ \A u \in Threads \ {t} : call'[u] = call[u]
  BY <1>2, <1>3, ReturnFacts
<1>5. \A f : Gone(f)' <=> Gone(f)
  BY <1>2, GoneSame
<1>6. CASE net[fd].peer # "none" /\ Put(fd, "data")
  <2>1. /\ net'[fd].peer = net[fd].peer /\ net'[fd].sent = Append(net[fd].sent, "data")
        /\ net'[fd].rq = net[fd].rq /\ net'[fd].answer = net[fd].answer
        /\ \A f \in Fds \ {fd} : net'[f] = net[f]
    BY <1>3, <1>6, PutFacts
  <2>2. CASE net[fd].peer = "server"
    <3>1. GoodAt(fd, "idle", c)'
      BY <1>2, <1>3, <1>5, <2>1, <2>2 DEF GoodAt, Good, Managed, Direct, Holding
    <3>. QED  BY <1>1, <1>2, <1>3, <1>4, <1>5, <2>1, <3>1, ThreadStep
  <2>3. CASE net[fd].peer = "converter"
    <3>1. HeaderFirst(net[fd].sent) /\ net[fd].sent # <<>> /\ verdict[fd] # "none"
      BY <1>3, <2>3 DEF GoodAt, Good, Managed, Converted, Leaving
    <3>2. net[fd].sent \in Seq({"hdr", "data"})
      BY <1>3 DEF TypeOK, Sock
    <3>3. HeaderFirst(net'[fd].sent) /\ net'[fd].sent # <<>>
      BY <2>1, <3>1, <3>2, HeaderThenData
    <3>4. GoodAt(fd, "idle", c)'
      BY <1>2, <1>3, <1>5, <2>1, <2>3, <3>1, <3>3 DEF GoodAt, Good, Managed, Converted, Holding
    <3>. QED  BY <1>1, <1>2, <1>3, <1>4, <1>5, <2>1, <3>4, ThreadStep
  <2>4. net[fd].peer \in {"none", "converter", "server"}
    BY <1>3 DEF TypeOK, Sock
  <2>. QED  BY <1>6, <2>2, <2>3, <2>4
<1>7. CASE UNCHANGED net
  <2>1. GoodAt(fd, "idle", c)'
    BY <1>2, <1>3, <1>5, <1>7
       DEF GoodAt, Good, Managed, Unconnected, Direct, Converted, Leaving, Holding
  <2>. QED  BY <1>1, <1>2, <1>3, <1>4, <1>5, <1>7, <2>1, ThreadStep
<1>. QED  BY <1>2, <1>6, <1>7

\* The real close().
LEMMA LCloseGood ==
  ASSUME NInv, ~overlap, NEW t \in Threads, LClose(t)
  PROVE  \A f \in Fds : FdOK(f)'
<1>1. PICK fd, c : fd = call[t].fd /\ c = call[t].then
  OBVIOUS
<1>2. /\ call[t].pc = "lclose" /\ UNCHANGED <<obj, htable>> /\ Return(t)
      /\ net' = [net EXCEPT ![fd] = FreshSock] /\ told' = [told EXCEPT ![fd] = "nothing"]
      /\ verdict' = [verdict EXCEPT ![fd] = "none"] /\ exposed' = exposed \ {fd}
  BY <1>1 DEF LClose, At
<1>3. /\ TypeOK /\ Owned /\ (\A f \in Fds : FdOK(f)) /\ fd \in Fds /\ GoodAt(fd, "lclose", c)
      /\ \A u \in Threads \ {t} : ~On(u, fd)
  BY <1>1, <1>2, AtFd
<1>4. call'[t].pc = "idle" /\ \A u \in Threads \ {t} : call'[u] = call[u]
  BY <1>2, <1>3, ReturnFacts
<1>5. (\A f : Gone(f)' <=> Gone(f)) /\ Gone(fd)'
  BY <1>2, <1>3, GoneSame DEF GoodAt, Good, Managed
<1>6. /\ net'[fd] = FreshSock /\ told'[fd] = "nothing" /\ verdict'[fd] = "none" /\ fd \notin exposed'
      /\ \A f \in Fds \ {fd} : /\ net'[f] = net[f] /\ verdict'[f] = verdict[f] /\ told'[f] = told[f]
                               /\ f \in exposed' <=> f \in exposed
  BY <1>2, <1>3 DEF TypeOK
<1>7. GoodAt(fd, "idle", c)'
  BY <1>5, <1>6, FreshForm DEF GoodAt, Good, Managed, Unconnected, Holding
<1>8. \A f \in Fds \ {fd} : /\ net'[f] = net[f] /\ verdict'[f] = verdict[f] /\ told'[f] = told[f]
                            /\ f \in exposed' <=> f \in exposed
                            /\ Gone(f)' <=> Gone(f)
  BY <1>5, <1>6
<1>9. \A u \in Threads \ {t} : call'[u] = call[u] /\ ~On(u, fd)
  BY <1>3, <1>4
<1>. QED  BY <1>1, <1>3, <1>4, <1>7, <1>8, <1>9, ThreadStep

(***************************************************************************)
(* The other end, and read().                                              *)
(***************************************************************************)

\* The answer of a Converter.
LEMMA AnswerFacts ==
  ASSUME TypeOK, NEW fd \in Fds, Answer(fd)
  PROVE  /\ net[fd].peer = "converter" /\ net[fd].answer = "none" /\ ~net[fd].eof
         /\ net[fd].sent # <<>> /\ Head(net[fd].sent) = "hdr"
         /\ net'[fd].peer = net[fd].peer /\ net'[fd].sent = net[fd].sent /\ net'[fd].eof = net[fd].eof
         /\ \A f \in Fds \ {fd} : net'[f] = net[f]
         /\ \E r \in Replies : /\ net'[fd].rq = net[fd].rq \o r
                               /\ net'[fd].answer = IF Accepting(r) THEN "accept" ELSE "refuse"
<1>1. PICK r \in Replies :
        net' = [net EXCEPT ![fd] = [net[fd] EXCEPT !.rq = net[fd].rq \o r,
                  !.answer = IF Accepting(r) THEN "accept" ELSE "refuse"]]
  BY DEF Answer, TypeOK
<1>2. net[fd] \in Sock /\ net \in [Fds -> Sock]
  BY DEF TypeOK
<1>3. /\ net'[fd].peer = net[fd].peer /\ net'[fd].sent = net[fd].sent /\ net'[fd].eof = net[fd].eof
      /\ net'[fd].rq = net[fd].rq \o r
      /\ net'[fd].answer = IF Accepting(r) THEN "accept" ELSE "refuse"
      /\ \A f \in Fds \ {fd} : net'[f] = net[f]
  BY <1>1, <1>2 DEF Sock
<1>. QED  BY <1>3 DEF Answer

\* Data from the other end.
LEMMA PeerDataFacts ==
  ASSUME TypeOK, NEW fd \in Fds, PeerData(fd)
  PROVE  /\ net'[fd].peer = net[fd].peer /\ net'[fd].sent = net[fd].sent /\ net'[fd].eof = net[fd].eof
         /\ net'[fd].rq = Append(net[fd].rq, "data") /\ net'[fd].answer = net[fd].answer
         /\ \A f \in Fds \ {fd} : net'[f] = net[f]
BY DEF TypeOK, Sock, PeerData

\* The other end closes.
LEMMA PeerCloseFacts ==
  ASSUME TypeOK, NEW fd \in Fds, PeerClose(fd)
  PROVE  /\ net'[fd].peer = net[fd].peer /\ net'[fd].sent = net[fd].sent /\ net'[fd].eof = TRUE
         /\ net'[fd].rq = net[fd].rq /\ net'[fd].answer = net[fd].answer
         /\ \A f \in Fds \ {fd} : net'[f] = net[f]
BY DEF TypeOK, Sock, PeerClose

\* A step of the other end.
LEMMA PeerGood ==
  ASSUME NInv, ~overlap, NEW fd \in Fds, Peer(fd)
  PROVE  \A f \in Fds : FdOK(f)'
<1>1. TypeOK /\ \A f \in Fds : FdOK(f)
  BY DEF NInv, IInv
<1>2. UNCHANGED <<obj, htable, call, told, verdict, exposed>>
  BY DEF Peer
<1>3. Gone(fd)' <=> Gone(fd)
  BY <1>2, GoneSame
<1>4. CASE Answer(fd)
  <2>1. /\ net[fd].peer = "converter" /\ net'[fd].answer # "none"
        /\ net'[fd].peer = net[fd].peer /\ net'[fd].sent = net[fd].sent /\ net'[fd].eof = net[fd].eof
        /\ \A f \in Fds \ {fd} : net'[f] = net[f]
    BY <1>1, <1>4, AnswerFacts
  <2>2. ASSUME NEW p, NEW c, GoodAt(fd, p, c)  PROVE GoodAt(fd, p, c)'
    BY <1>2, <1>3, <2>1, <2>2 DEF GoodAt, Good, Managed, Converted
  <2>. QED  BY <1>1, <1>2, <2>1, <2>2, NetStep
<1>5. CASE PeerData(fd)
  <2>1. /\ net'[fd].peer = net[fd].peer /\ net'[fd].sent = net[fd].sent /\ net'[fd].eof = net[fd].eof
        /\ net'[fd].rq = Append(net[fd].rq, "data") /\ net'[fd].answer = net[fd].answer
        /\ \A f \in Fds \ {fd} : net'[f] = net[f]
    BY <1>1, <1>5, PeerDataFacts
  <2>2. net[fd].peer = "server" \/ net[fd].answer = "accept"
    BY <1>5 DEF PeerData
  <2>3. AllData(net[fd].rq) => AllData(net'[fd].rq)
    BY <1>1, <2>1, DataMore DEF TypeOK, Sock
  <2>4. ASSUME NEW p, NEW c, GoodAt(fd, p, c)  PROVE GoodAt(fd, p, c)'
    BY <1>2, <1>3, <2>1, <2>2, <2>3, <2>4
       DEF GoodAt, Good, Managed, Unconnected, Direct, Converted
  <2>. QED  BY <1>1, <1>2, <2>1, <2>4, NetStep
<1>6. CASE PeerClose(fd)
  <2>1. /\ net'[fd].peer = net[fd].peer /\ net'[fd].sent = net[fd].sent /\ net'[fd].eof = TRUE
        /\ net'[fd].rq = net[fd].rq /\ net'[fd].answer = net[fd].answer
        /\ \A f \in Fds \ {fd} : net'[f] = net[f]
    BY <1>1, <1>6, PeerCloseFacts
  <2>2. net[fd].peer # "none"
    BY <1>6 DEF PeerClose
  <2>3. ASSUME NEW p, NEW c, GoodAt(fd, p, c)  PROVE GoodAt(fd, p, c)'
    BY <1>2, <1>3, <2>1, <2>2, <2>3 DEF GoodAt, Good, Managed, Direct, Converted
  <2>. QED  BY <1>1, <1>2, <2>1, <2>3, NetStep
<1>. QED  BY <1>4, <1>5, <1>6 DEF Peer

\* read().
LEMMA RawReadGood ==
  ASSUME NInv, ~overlap, NEW t \in Threads, NEW fd \in Fds, RawRead(t, fd)
  PROVE  \A f \in Fds : FdOK(f)'
<1>1. TypeOK /\ \A f \in Fds : FdOK(f)
  BY DEF NInv, IInv
<1>2. UNCHANGED <<obj, htable, call, told, verdict>> /\ Deliver(fd)
  BY DEF RawRead
<1>3. Gone(fd)' <=> Gone(fd)
  BY <1>2, GoneSame
<1>4. ASSUME NEW p, NEW c, GoodAt(fd, p, c)  PROVE GoodAt(fd, p, c)'
  <2>1. /\ net'[fd].peer = net[fd].peer /\ net'[fd].sent = net[fd].sent /\ net[fd].rq # <<>>
        /\ net'[fd].answer = net[fd].answer /\ net'[fd].eof = net[fd].eof
        /\ net[fd].peer # "none"
        /\ net[fd].peer = "server" => AllData(net'[fd].rq) /\ exposed' = exposed
    BY <1>1, <1>2, <1>4, DeliverFacts
  <2>. QED  BY <1>2, <1>3, <1>4, <2>1 DEF GoodAt, Good, Managed, Direct, Converted
<1>5. \A f \in Fds \ {fd} : net'[f] = net[f] /\ (f \in exposed' <=> f \in exposed)
  BY <1>1, <1>2, TakeFacts DEF Deliver
<1>. QED  BY <1>1, <1>2, <1>4, <1>5, NetStep

(***************************************************************************)
(* The invariant of the sockets.                                           *)
(***************************************************************************)

\* Every step of a call inside the library keeps it.
LEMMA LibraryGood ==
  ASSUME NInv, ~overlap, NEW t \in Threads, Library(t), ~AsyncConnect
  PROVE  \A f \in Fds : FdOK(f)'
<1>1. ~UseFreed(t)
  BY PointersValid DEF UseFreed, NInv, IInv
<1>. QED
  BY <1>1, AllocGood, RedirectGood, SendHdrGood, RdHdrGood, RdTlvGood, RdErrGood, UnlinkGood,
     FreeGood, LConnectGood, LRecvGood, LSendGood, LCloseGood DEF Library

\* Every call the application makes keeps it.
LEMMA ApplicationGood ==
  ASSUME NInv, ~overlap', NEW t \in Threads, NEW fd \in Fds, Application(t, fd)
  PROVE  \A f \in Fds : FdOK(f)'
<1>1. CASE Socket(t, fd)
  BY <1>1, SocketGood DEF Socket
<1>2. CASE RawRead(t, fd)
  BY <1>2, RawReadGood DEF RawRead
<1>3. CASE Connect(t, fd)
  BY <1>3, EnterGood DEF Connect
<1>4. CASE Recv(t, fd)
  BY <1>4, EnterGood DEF Recv
<1>5. CASE Send(t, fd)
  BY <1>5, EnterGood DEF Send
<1>6. CASE Close(t, fd)
  BY <1>6, EnterGood DEF Close
<1>. QED  BY <1>1, <1>2, <1>3, <1>4, <1>5, <1>6 DEF Application

\* Every step keeps it, in an application that lets connect() finish.
LEMMA NInvStep ==
  ASSUME ~AsyncConnect
  PROVE  NInv /\ [Next]_vars => NInv'
<1>. SUFFICES ASSUME NInv, [Next]_vars
              PROVE  NInv'
  OBVIOUS
<1>1. IInv'
  BY IInvStep DEF NInv
<1>. SUFFICES ASSUME ~overlap'  PROVE \A f \in Fds : FdOK(f)'
  BY <1>1 DEF NInv
<1>2. CASE UNCHANGED vars
  <2>1. ~overlap /\ \A f \in Fds : FdOK(f)
    BY <1>2 DEF vars, NInv
  <2>. QED  BY <1>2, <2>1, GoneSame, OtherKeeps DEF vars
<1>3. ASSUME NEW t \in Threads, Library(t)
      PROVE  \A f \in Fds : FdOK(f)'
  <2>1. overlap' = overlap
    BY <1>3 DEF Library, Alloc, Redirect, SendHdr, RdHdr, RdTlv, RdErr, Unlink, Free,
                UseFreed, LConnect, LRecv, LSend, LClose
  <2>. QED  BY <1>3, <2>1, LibraryGood
<1>4. ASSUME NEW t \in Threads, NEW fd \in Fds, Application(t, fd)
      PROVE  \A f \in Fds : FdOK(f)'
  BY <1>4, ApplicationGood
<1>5. ASSUME NEW fd \in Fds, Peer(fd)
      PROVE  \A f \in Fds : FdOK(f)'
  BY <1>5, PeerGood DEF Peer
<1>. QED  BY <1>2, <1>3, <1>4, <1>5 DEF Next

\* NInv is an invariant of the library.
LEMMA NInvAlways ==
  ASSUME ~AsyncConnect
  PROVE  Spec => []NInv
<1>1. NInv /\ [Next]_vars => NInv'
  BY NInvStep
<1>. QED  BY <1>1, NInvInit, PTL DEF Spec

\* A socket in a good state has sent what it should.
LEMMA NInvHeader == NInv => HeaderBeforeData
<1>. SUFFICES ASSUME NInv, ~overlap, NEW fd \in Fds, net[fd].peer = "converter"
              PROVE  HeaderFirst(net[fd].sent)
  BY DEF HeaderBeforeData, HeaderFirst
<1>1. PICK p, c : GoodAt(fd, p, c)
  BY DEF NInv, FdOK, Busy, On
<1>. QED  BY <1>1 DEF GoodAt, Good, Converted

\* In an application that lets connect() finish, whatever its threads do with
\* other descriptors and however often recv or send is retried: the Converter
\* gets the one Convert header first, and data only after it.
THEOREM HeaderComesFirst ==
  ASSUME ~AsyncConnect
  PROVE  Spec => []HeaderBeforeData
BY NInvAlways, NInvHeader, PTL

-----------------------------------------------------------------------------
(***************************************************************************)
(* What the application sees.                                              *)
(***************************************************************************)

\* A step of thread t that changes nothing but descriptor fd, on which no other
\* thread has a call.
Touches(t, fd) ==
  /\ call[t].pc = "idle" \/ call[t].fd = fd
  /\ call'[t].pc = "idle" \/ call'[t].fd = fd
  /\ \A u \in Threads \ {t} : call'[u] = call[u] /\ ~On(u, fd)
  /\ \A f \in Fds \ {fd} : /\ net'[f] = net[f] /\ verdict'[f] = verdict[f] /\ told'[f] = told[f]
                           /\ f \in exposed' <=> f \in exposed

\* A step of a call inside the library is one.
LEMMA LibraryTouches ==
  ASSUME NInv, ~overlap, NEW t \in Threads, Library(t), NEW fd, fd = call[t].fd
  PROVE  Touches(t, fd) /\ fd \in Fds /\ call[t].pc # "idle"
<1>1. ~UseFreed(t)
  BY PointersValid DEF UseFreed, NInv, IInv
<1>2. call[t].pc # "idle"
  BY <1>1 DEF Library, Alloc, Redirect, SendHdr, RdHdr, RdTlv, RdErr, Unlink, Free,
              LConnect, LRecv, LSend, LClose, At
<1>3. TypeOK /\ fd \in Fds /\ \A u \in Threads \ {t} : ~On(u, fd)
  BY <1>2, AtFd
<1>4. \/ Goto(t, call'[t].pc) \/ FreeThen(t, call'[t].then) \/ Return(t)
  <2>1. \A p : Goto(t, p) => Goto(t, call'[t].pc)
    BY <1>3, GotoFacts
  <2>2. \A k : FreeThen(t, k) => FreeThen(t, call'[t].then)
    BY <1>3, NextFacts
  <2>. QED  BY <1>1, <2>1, <2>2
            DEF Library, Alloc, Redirect, SendHdr, RdHdr, RdTlv, RdErr, Unlink, Free, AfterRun,
                LConnect, LRecv, LSend, LClose
<1>5. /\ call'[t].pc = "idle" \/ call'[t].fd = fd
      /\ \A u \in Threads \ {t} : call'[u] = call[u]
  BY <1>3, <1>4, GotoFacts, FreeThenFacts, ReturnFacts
<1>6. call[t].pc \in Holding => obj[call[t].st] = fd
  BY HeldState
<1>7. \A f \in Fds \ {fd} : net'[f] = net[f]
  <2>1. CASE Redirect(t) \/ SendHdr(t)
    BY <1>3, <1>6, <2>1, AttachFacts, PutFacts DEF Redirect, SendHdr, At, Holding
  <2>2. CASE RdHdr(t) \/ RdTlv(t) \/ RdErr(t)
    BY <1>3, <1>6, <2>2, TakeFacts, LingerFacts DEF RdHdr, RdTlv, RdErr, At, Holding
  <2>3. CASE Alloc(t) \/ Unlink(t) \/ Free(t)
    BY <2>3 DEF Alloc, Unlink, Free
  <2>4. CASE LConnect(t) \/ LSend(t)
    BY <1>3, <2>4, AttachFacts, PutFacts DEF LConnect, LSend
  <2>5. CASE LRecv(t)
    BY <1>3, <2>5, TakeFacts DEF LRecv, Deliver
  <2>6. CASE LClose(t)
    BY <1>3, <2>6 DEF LClose, TypeOK
  <2>. QED  BY <1>1, <2>1, <2>2, <2>3, <2>4, <2>5, <2>6 DEF Library
<1>8. \A f \in Fds \ {fd} : verdict'[f] = verdict[f]
  <2>1. CASE RdHdr(t) \/ RdTlv(t) \/ RdErr(t)
    BY <1>3, <1>6, <2>1 DEF RdHdr, RdTlv, RdErr, At, Holding, TypeOK
  <2>2. CASE LClose(t)
    BY <1>3, <2>2 DEF LClose, TypeOK
  <2>. QED  BY <1>1, <2>1, <2>2
            DEF Library, Alloc, Redirect, SendHdr, Unlink, Free, LConnect, LRecv, LSend
<1>9. \A f \in Fds \ {fd} : told'[f] = told[f]
  <2>1. CASE RdHdr(t) \/ Free(t)
    BY <1>3, <2>1, SkippedFacts DEF RdHdr, Free
  <2>2. CASE LClose(t) \/ LConnect(t)
    BY <1>3, <2>2 DEF LClose, LConnect, TypeOK
  <2>. QED  BY <1>1, <2>1, <2>2
            DEF Library, Alloc, Redirect, SendHdr, RdTlv, RdErr, Unlink, LRecv, LSend
<1>10. \A f \in Fds \ {fd} : f \in exposed' <=> f \in exposed
  BY <1>1 DEF Library, Alloc, Redirect, SendHdr, RdHdr, RdTlv, RdErr, Unlink, Free,
              LConnect, LRecv, LSend, LClose, Deliver
<1>. QED  BY <1>2, <1>3, <1>5, <1>7, <1>8, <1>9, <1>10 DEF Touches

\* A step of one call keeps what the other descriptors show.
LEMMA TouchHides ==
  ASSUME \A f \in Fds : HidesOK(f), NEW t \in Threads, NEW fd \in Fds, Touches(t, fd),
         NEW p, p = call'[t].pc, HiddenAt(fd, p)'
  PROVE  \A f \in Fds : HidesOK(f)'
<1>. TAKE f \in Fds
<1>. USE DEF Touches
<1>1. CASE f # fd
  <2>1. \A q : HiddenAt(f, q) <=> HiddenAt(f, q)'
    BY <1>1 DEF HiddenAt, Hidden
  <2>2. ~On(t, f) /\ ~On(t, f)'
    BY <1>1 DEF On
  <2>3. \A u \in Threads : (On(u, f)' <=> On(u, f)) /\ (On(u, f) => call'[u] = call[u])
    BY <2>2 DEF On
  <2>4. Busy(f) <=> Busy(f)'
    BY <2>3 DEF Busy, On
  <2>. QED  BY <2>1, <2>3, <2>4 DEF HidesOK
<1>2. CASE f = fd
  <2>1. \A u \in Threads \ {t} : ~On(u, fd)'
    BY DEF On
  <2>2. CASE p = "idle"
    BY <1>2, <2>1, <2>2 DEF HidesOK, On
  <2>3. CASE p # "idle"
    <3>1. Busy(fd)'
      BY <2>3 DEF Busy
    <3>. QED  BY <1>2, <2>1, <3>1 DEF HidesOK
  <2>. QED  BY <2>2, <2>3
<1>. QED  BY <1>1, <1>2

\* What is left of the answer after its first item.
LEMMA AnswerTail ==
  ASSUME NEW q \in Seq(Chunk), q # <<>>, AnswerFirst(q)
  PROVE  DataNext(Tail(q)) /\ (Head(q) # "hdrN" => AllData(Tail(q)))
<1>1. Len(q) \in Nat /\ Len(q) > 0 /\ Len(Tail(q)) = Len(q) - 1 /\ Head(q) = q[1]
  OBVIOUS
<1>2. \A i \in 1 .. Len(Tail(q)) : Tail(q)[i] = q[i + 1] /\ i + 1 \in 2 .. Len(q)
  BY <1>1
<1>. QED  BY <1>1, <1>2 DEF AnswerFirst, DataNext, AllData

\* What is left of the TLVs and the data.
LEMMA NextTail ==
  ASSUME NEW q \in Seq(Chunk), q # <<>>, DataNext(q)
  PROVE  AllData(Tail(q))
<1>1. Len(q) \in Nat /\ Len(q) > 0 /\ Len(Tail(q)) = Len(q) - 1
  OBVIOUS
<1>2. \A i \in 1 .. Len(Tail(q)) : Tail(q)[i] = q[i + 1] /\ i + 1 \in 2 .. Len(q)
  BY <1>1
<1>. QED  BY <1>1, <1>2 DEF DataNext, AllData

\* More data after the answer.
LEMMA NextMore ==
  ASSUME NEW q \in Seq(Chunk)
  PROVE  /\ AnswerFirst(q) => AnswerFirst(Append(q, "data"))
         /\ DataNext(q) => DataNext(Append(q, "data"))
<1>1. "data" \in Chunk
  BY DEF Chunk
<1>2. /\ Len(Append(q, "data")) = Len(q) + 1 /\ Len(q) \in Nat
      /\ \A i \in 1 .. Len(q) : Append(q, "data")[i] = q[i]
      /\ Append(q, "data")[Len(q) + 1] = "data"
  BY <1>1
<1>3. \A i \in 2 .. Len(Append(q, "data")) :
        \/ i \in 2 .. Len(q) /\ 1 \in 1 .. Len(q) /\ i \in 1 .. Len(q)
        \/ i = Len(q) + 1
  BY <1>2
<1>. QED  BY <1>2, <1>3 DEF AnswerFirst, DataNext

\* A Converter's whole answer.
LEMMA AnswerWhole ==
  ASSUME NEW r \in Answers
  PROVE  AnswerFirst(<<>> \o r)
<1>1. CASE r = <<"hdr0">> \/ r = <<"badHdr">>
  BY <1>1 DEF AnswerFirst
<1>2. ASSUME NEW x \in {"tlvOk", "tlvError", "tlvBad"}, r = <<"hdrN", x>>
      PROVE  AnswerFirst(<<>> \o r)
  BY <1>2 DEF AnswerFirst
<1>. QED  BY <1>1, <1>2 DEF Answers

\* Nothing is left.
LEMMA NothingLeft == AllData(<<>>) /\ AnswerFirst(<<>>) /\ DataNext(<<>>)
BY DEF AllData, AnswerFirst, DataNext

\* What a call knows of its descriptor.
LEMMA AtHidden ==
  ASSUME HInv, ~overlap, NEW t \in Threads, call[t].pc # "idle", NEW fd, fd = call[t].fd
  PROVE  /\ TypeOK /\ (\A f \in Fds : HidesOK(f)) /\ fd \in Fds /\ net[fd] \in Sock
         /\ HiddenAt(fd, call[t].pc) /\ GoodAt(fd, call[t].pc, call[t].then)
         /\ net[fd].peer \in {"none", "converter", "server"} /\ net[fd].rq \in Seq(Chunk)
<1>1. /\ TypeOK /\ fd \in Fds /\ GoodAt(fd, call[t].pc, call[t].then)
      /\ \A f \in Fds : HidesOK(f)
  BY AtFd DEF HInv
<1>. QED  BY <1>1 DEF HidesOK, On, TypeOK, Sock

\* A step that leaves the receive queue alone and does not judge the answer.
LEMMA QuietHides ==
  ASSUME HInv, ~overlap, NEW t \in Threads, Library(t),
         call[t].pc \notin {"rdtlv", "rderr"}, call'[t].pc # "rdtlv",
         UNCHANGED <<verdict, exposed>>,
         \A f \in Fds : /\ net'[f].peer = net[f].peer /\ net'[f].rq = net[f].rq
                        /\ net'[f].answer = net[f].answer /\ net'[f].eof = net[f].eof
                        /\ told'[f] = told[f] \/ told'[f] = "failed" \/ told[f] # "failed"
  PROVE  \A f \in Fds : HidesOK(f)'
<1>1. PICK fd, p : fd = call[t].fd /\ p = call'[t].pc
  OBVIOUS
<1>2. Touches(t, fd) /\ fd \in Fds /\ call[t].pc # "idle"
  BY <1>1, LibraryTouches DEF HInv
<1>3. (\A f \in Fds : HidesOK(f)) /\ HiddenAt(fd, call[t].pc)
  BY <1>1, <1>2, AtHidden
<1>4. HiddenAt(fd, p)'
  BY <1>1, <1>2, <1>3 DEF HiddenAt, Hidden
<1>. QED  BY <1>1, <1>2, <1>3, <1>4, TouchHides

\* Calls that neither read nor connect.
LEMMA OtherHides ==
  ASSUME HInv, ~overlap, NEW t \in Threads,
         Alloc(t) \/ SendHdr(t) \/ Unlink(t) \/ Free(t) \/ LSend(t)
  PROVE  \A f \in Fds : HidesOK(f)'
<1>1. PICK fd : fd = call[t].fd
  OBVIOUS
<1>2. Library(t) /\ call[t].pc \notin {"idle", "rdtlv", "rderr"} /\ UNCHANGED <<verdict, exposed>>
  BY DEF Library, Alloc, SendHdr, Unlink, Free, LSend, At
<1>3. TypeOK /\ fd \in Fds /\ GoodAt(fd, call[t].pc, call[t].then)
  BY <1>1, <1>2, AtHidden
<1>4. call'[t].pc # "rdtlv"
  <2>1. CASE Alloc(t) \/ LSend(t)
    BY <1>3, <2>1, ReturnFacts DEF Alloc, LSend
  <2>2. CASE SendHdr(t)
    BY <1>3, <2>2, GotoFacts, FreeThenFacts DEF SendHdr
  <2>3. CASE Unlink(t) \/ Free(t)
    BY <1>3, <2>3, GotoFacts, ReturnFacts DEF Unlink, Free, AfterRun
  <2>. QED  BY <2>1, <2>2, <2>3
<1>5. \A f \in Fds : /\ net'[f].peer = net[f].peer /\ net'[f].rq = net[f].rq
                     /\ net'[f].answer = net[f].answer /\ net'[f].eof = net[f].eof
  <2>1. UNCHANGED net \/ \E x \in {"hdr", "data"} : Put(fd, x)
    BY <1>1, <1>2, HeldState DEF Alloc, SendHdr, Unlink, Free, LSend, HInv, At, Holding
  <2>2. ASSUME NEW x \in {"hdr", "data"}, Put(fd, x)
        PROVE  \A f \in Fds : /\ net'[f].peer = net[f].peer /\ net'[f].rq = net[f].rq
                              /\ net'[f].answer = net[f].answer /\ net'[f].eof = net[f].eof
    BY <1>3, <2>2, PutFacts
  <2>. QED  BY <2>1, <2>2
<1>6. \A f \in Fds : told'[f] = told[f] \/ told[f] # "failed"
  <2>1. CASE Free(t)
    <3>1. call[t].pc = "free"
      BY <2>1 DEF Free, At
    <3>2. told[fd] # "failed"
      BY <1>3, <3>1 DEF GoodAt, Good, Managed, Holding
    <3>3. Touches(t, fd)
      BY <1>1, <1>2, LibraryTouches DEF HInv
    <3>. QED  BY <3>2, <3>3 DEF Touches
  <2>. QED  BY <2>1 DEF Alloc, SendHdr, Unlink, LSend
<1>. QED  BY <1>2, <1>4, <1>5, <1>6, QuietHides

\* _redirect.
LEMMA RedirectHides ==
  ASSUME HInv, ~overlap, NEW t \in Threads, Redirect(t), ~AsyncConnect
  PROVE  \A f \in Fds : HidesOK(f)'
<1>1. PICK fd : fd = call[t].fd
  OBVIOUS
<1>2. /\ Library(t) /\ call[t].pc = "redirect" /\ UNCHANGED <<told, verdict, exposed>>
      /\ \/ CanConnect(fd) /\ Attach(fd, "converter") /\ Goto(t, "sendhdr")
         \/ FreeThen(t, "lconnect") /\ UNCHANGED net
  BY <1>1, HeldState DEF Redirect, Library, At, Holding, HInv
<1>3. /\ TypeOK /\ fd \in Fds /\ GoodAt(fd, call[t].pc, call[t].then)
      /\ \A f \in Fds : HidesOK(f)
  BY <1>1, <1>2, AtHidden
<1>4. CASE CanConnect(fd) /\ Attach(fd, "converter") /\ Goto(t, "sendhdr")
  <2>1. /\ net'[fd].rq = net[fd].rq /\ call'[t].pc = "sendhdr"
    BY <1>3, <1>4, AttachFacts, GotoFacts
  <2>2. Unconnected(net[fd], verdict[fd], fd \in exposed)
    BY <1>3, <1>4 DEF CanConnect, GoodAt, Good
  <2>3. HiddenAt(fd, "sendhdr")'
    BY <1>2, <2>1, <2>2, NothingLeft DEF Unconnected, HiddenAt, Hidden
  <2>4. Touches(t, fd)
    BY <1>1, <1>2, LibraryTouches DEF HInv
  <2>. QED  BY <1>3, <2>1, <2>3, <2>4, TouchHides
<1>5. CASE FreeThen(t, "lconnect") /\ UNCHANGED net
  <2>1. call'[t].pc = "unlink"
    BY <1>3, <1>5, FreeThenFacts
  <2>. QED  BY <1>2, <1>5, <2>1, QuietHides
<1>. QED  BY <1>2, <1>4, <1>5

\* _read_convert: the header is taken from the answer, not from the data.
LEMMA RdHdrHides ==
  ASSUME HInv, ~overlap, NEW t \in Threads, RdHdr(t)
  PROVE  \A f \in Fds : HidesOK(f)'
<1>1. PICK fd, q : fd = call[t].fd /\ q = net[fd].rq
  OBVIOUS
<1>2. Library(t) /\ call[t].pc = "rdhdr" /\ UNCHANGED exposed /\ obj[call[t].st] = fd
  BY <1>1, HeldState DEF RdHdr, Library, At, Holding, HInv
<1>3. /\ TypeOK /\ fd \in Fds /\ HiddenAt(fd, "rdhdr") /\ GoodAt(fd, "rdhdr", call[t].then)
      /\ q \in Seq(Chunk) /\ net[fd].peer \in {"none", "converter", "server"}
      /\ \A f \in Fds : HidesOK(f)
  BY <1>1, <1>2, AtHidden
<1>4. Touches(t, fd)
  BY <1>1, <1>2, LibraryTouches DEF HInv
<1>5. told[fd] # "failed" /\ verdict[fd] = "none" /\ net[fd].peer # "server"
  BY <1>3 DEF GoodAt, Good, Managed, Direct, Holding
<1>6. CASE Skipped(t) /\ Return(t) /\ UNCHANGED <<net, verdict>>
  <2>1. call'[t].pc = "idle"
    BY <1>3, <1>6, ReturnFacts
  <2>2. \A f \in Fds : told'[f] = told[f] \/ told[f] # "failed"
    BY <1>4, <1>5 DEF Touches
  <2>. QED  BY <1>2, <1>6, <2>1, <2>2, QuietHides
<1>7. CASE Goto(t, "rderr") /\ UNCHANGED <<net, told, verdict>>
  <2>1. call'[t].pc = "rderr"
    BY <1>3, <1>7, GotoFacts
  <2>. QED  BY <1>2, <1>7, <2>1, QuietHides
<1>8. CASE /\ Take(fd) /\ UNCHANGED told
           /\ \/ Head(q) = "hdr0" /\ FreeThen(t, "run") /\ verdict' = [verdict EXCEPT ![fd] = "accepted"]
              \/ (Goto(t, "rdtlv") \/ Goto(t, "rderr")) /\ UNCHANGED verdict
  <2>1. /\ net'[fd].peer = net[fd].peer /\ q # <<>> /\ net'[fd].rq = Tail(q)
        /\ net'[fd].answer = net[fd].answer
    BY <1>1, <1>3, <1>8, TakeFacts
  <2>2. net[fd].peer = "converter" /\ net[fd].answer # "none"
    BY <1>1, <1>3, <1>5, <2>1 DEF GoodAt, Good, Unconnected, Converted
  <2>3. AnswerFirst(q) /\ fd \notin exposed
    BY <1>1, <1>3, <1>5, <2>2 DEF HiddenAt, Hidden
  <2>4. DataNext(Tail(q)) /\ (Head(q) # "hdrN" => AllData(Tail(q)))
    BY <1>3, <2>1, <2>3, AnswerTail
  <2>5. CASE Head(q) = "hdr0" /\ FreeThen(t, "run") /\ verdict' = [verdict EXCEPT ![fd] = "accepted"]
    <3>1. call'[t].pc = "unlink" /\ verdict'[fd] = "accepted"
      BY <1>3, <2>5, FreeThenFacts DEF TypeOK
    <3>2. HiddenAt(fd, "unlink")'
      BY <1>2, <2>1, <2>2, <2>3, <2>4, <2>5, <3>1 DEF HiddenAt, Hidden
    <3>. QED  BY <1>3, <1>4, <3>1, <3>2, TouchHides
  <2>6. ASSUME NEW p \in {"rdtlv", "rderr"}, Goto(t, p), UNCHANGED verdict
        PROVE  \A f \in Fds : HidesOK(f)'
    <3>1. call'[t].pc = p
      BY <1>3, <2>6, GotoFacts
    <3>2. HiddenAt(fd, p)'
      BY <1>2, <1>5, <2>1, <2>3, <2>4, <2>6 DEF HiddenAt, Hidden
    <3>. QED  BY <1>3, <1>4, <3>1, <3>2, TouchHides
  <2>. QED  BY <1>8, <2>5, <2>6
<1>. QED  BY <1>1, <1>2, <1>6, <1>7, <1>8 DEF RdHdr

\* _read_convert: the TLVs.
LEMMA RdTlvHides ==
  ASSUME HInv, ~overlap, NEW t \in Threads, RdTlv(t)
  PROVE  \A f \in Fds : HidesOK(f)'
<1>1. PICK fd, q : fd = call[t].fd /\ q = net[fd].rq
  OBVIOUS
<1>2. Library(t) /\ call[t].pc = "rdtlv" /\ UNCHANGED <<told, exposed>> /\ obj[call[t].st] = fd
  BY <1>1, HeldState DEF RdTlv, Library, At, Holding, HInv
<1>3. /\ TypeOK /\ fd \in Fds /\ HiddenAt(fd, "rdtlv") /\ GoodAt(fd, "rdtlv", call[t].then)
      /\ q \in Seq(Chunk) /\ net[fd].peer \in {"none", "converter", "server"}
      /\ \A f \in Fds : HidesOK(f)
  BY <1>1, <1>2, AtHidden
<1>4. Touches(t, fd)
  BY <1>1, <1>2, LibraryTouches DEF HInv
<1>5. /\ told[fd] # "failed" /\ verdict[fd] = "none" /\ net[fd].peer = "converter"
      /\ net[fd].answer # "none" \/ net[fd].eof
  BY <1>3 DEF GoodAt, Good, Managed, Holding
<1>6. DataNext(q) /\ fd \notin exposed
  BY <1>1, <1>3, <1>5 DEF HiddenAt, Hidden
<1>7. CASE Goto(t, "rderr") /\ UNCHANGED verdict
  <2>1. call'[t].pc = "rderr"
    BY <1>3, <1>7, GotoFacts
  <2>2. HiddenAt(fd, "rderr")'
    BY <1>2, <1>5, <1>6, <1>7 DEF HiddenAt, Hidden
  <2>. QED  BY <1>3, <1>4, <2>1, <2>2, TouchHides
<1>8. CASE Take(fd) /\ FreeThen(t, "run") /\ verdict' = [verdict EXCEPT ![fd] = "accepted"]
  <2>1. /\ net'[fd].peer = net[fd].peer /\ q # <<>> /\ net'[fd].rq = Tail(q)
        /\ net'[fd].answer = net[fd].answer /\ net'[fd].eof = net[fd].eof
    BY <1>1, <1>3, <1>8, TakeFacts
  <2>2. AllData(Tail(q))
    BY <1>3, <1>6, <2>1, NextTail
  <2>3. call'[t].pc = "unlink" /\ verdict'[fd] = "accepted"
    BY <1>3, <1>8, FreeThenFacts DEF TypeOK
  <2>4. HiddenAt(fd, "unlink")'
    BY <1>2, <1>5, <1>6, <2>1, <2>2, <2>3 DEF HiddenAt, Hidden
  <2>. QED  BY <1>3, <1>4, <2>3, <2>4, TouchHides
<1>. QED  BY <1>2, <1>7, <1>8 DEF RdTlv

\* _read_convert: the error label.
LEMMA RdErrHides ==
  ASSUME HInv, ~overlap, NEW t \in Threads, RdErr(t)
  PROVE  \A f \in Fds : HidesOK(f)'
<1>1. PICK fd : fd = call[t].fd
  OBVIOUS
<1>2. /\ Library(t) /\ call[t].pc = "rderr" /\ SetNoLinger(fd) /\ FreeThen(t, "skip")
      /\ verdict' = [verdict EXCEPT ![fd] = "rejected"] /\ UNCHANGED <<told, exposed>>
  BY <1>1, HeldState DEF RdErr, Library, At, Holding, HInv
<1>3. /\ TypeOK /\ fd \in Fds /\ GoodAt(fd, "rderr", call[t].then)
      /\ \A f \in Fds : HidesOK(f)
  BY <1>1, <1>2, AtHidden
<1>4. Touches(t, fd)
  BY <1>1, <1>2, LibraryTouches DEF HInv
<1>5. net[fd].answer # "none" \/ net[fd].eof
  BY <1>3 DEF GoodAt, Good
<1>6. verdict'[fd] = "rejected" /\ call'[t].pc = "unlink"
  BY <1>2, <1>3, FreeThenFacts DEF TypeOK
<1>7. net'[fd].answer # "none" \/ net'[fd].eof
  BY <1>2, <1>3, <1>5, LingerFacts
<1>8. HiddenAt(fd, "unlink")'
  BY <1>6, <1>7 DEF HiddenAt, Hidden
<1>. QED  BY <1>3, <1>4, <1>6, <1>8, TouchHides

\* The real connect().
LEMMA LConnectHides ==
  ASSUME HInv, ~overlap, NEW t \in Threads, LConnect(t), ~AsyncConnect
  PROVE  \A f \in Fds : HidesOK(f)'
<1>1. PICK fd : fd = call[t].fd
  OBVIOUS
<1>2. /\ Library(t) /\ call[t].pc = "lconnect" /\ UNCHANGED <<verdict, exposed>> /\ Return(t)
      /\ \/ CanConnect(fd) /\ Attach(fd, "server")
         \/ told' = [told EXCEPT ![fd] = "failed"] /\ UNCHANGED net
  BY <1>1 DEF LConnect, At, Library
<1>3. /\ TypeOK /\ fd \in Fds /\ GoodAt(fd, "lconnect", call[t].then)
      /\ \A f \in Fds : HidesOK(f)
  BY <1>1, <1>2, AtHidden
<1>4. Touches(t, fd)
  BY <1>1, <1>2, LibraryTouches DEF HInv
<1>5. call'[t].pc = "idle"
  BY <1>2, <1>3, ReturnFacts
<1>6. HiddenAt(fd, "idle")'
  <2>1. CASE CanConnect(fd) /\ Attach(fd, "server")
    <3>1. net'[fd].peer = "server"
      BY <1>3, <2>1, AttachFacts
    <3>2. fd \notin exposed
      BY <1>3, <2>1 DEF CanConnect, GoodAt, Good, Unconnected
    <3>. QED  BY <1>2, <3>1, <3>2 DEF HiddenAt, Hidden
  <2>2. CASE told' = [told EXCEPT ![fd] = "failed"]
    <3>1. told'[fd] = "failed"
      BY <1>3, <2>2 DEF TypeOK
    <3>. QED  BY <3>1 DEF HiddenAt, Hidden
  <2>. QED  BY <1>2, <2>1, <2>2
<1>. QED  BY <1>3, <1>4, <1>5, <1>6, TouchHides

\* The real recv(): what a judged answer leaves in the queue is data.
LEMMA LRecvHides ==
  ASSUME HInv, ~overlap, NEW t \in Threads, LRecv(t)
  PROVE  \A f \in Fds : HidesOK(f)'
<1>1. PICK fd, q, c : fd = call[t].fd /\ q = net[fd].rq /\ c = call[t].then
  OBVIOUS
<1>2. /\ Library(t) /\ call[t].pc = "lrecv" /\ UNCHANGED <<verdict, told>> /\ Return(t)
      /\ Deliver(fd) \/ UNCHANGED <<net, exposed>>
  BY <1>1 DEF LRecv, At, Library
<1>3. /\ TypeOK /\ fd \in Fds /\ HiddenAt(fd, "lrecv") /\ GoodAt(fd, "lrecv", c)
      /\ q \in Seq(Chunk) /\ net[fd].peer \in {"none", "converter", "server"}
      /\ \A f \in Fds : HidesOK(f)
  BY <1>1, <1>2, AtHidden
<1>4. call'[t].pc = "idle"
  BY <1>2, <1>3, ReturnFacts
<1>5. CASE UNCHANGED <<net, exposed>>
  BY <1>2, <1>4, <1>5, QuietHides
<1>6. CASE Deliver(fd)
  <2>1. /\ net'[fd].peer = net[fd].peer /\ net'[fd].rq = Tail(q) /\ q # <<>>
        /\ net'[fd].answer = net[fd].answer /\ net'[fd].eof = net[fd].eof
        /\ net[fd].peer # "none"
        /\ net[fd].peer = "server" => exposed' = exposed
    BY <1>1, <1>3, <1>6, DeliverFacts
  <2>2. exposed' = IF Head(q) = "data" THEN exposed ELSE exposed \cup {fd}
    BY <1>1, <1>6 DEF Deliver
  <2>3. HiddenAt(fd, "idle")'
    <3>1. CASE net[fd].peer = "server"
      BY <1>2, <1>3, <2>1, <3>1 DEF HiddenAt, Hidden
    <3>2. CASE net[fd].peer = "converter" /\ told[fd] = "failed"
      BY <1>2, <3>2 DEF HiddenAt, Hidden
    <3>3. CASE net[fd].peer = "converter" /\ told[fd] # "failed"
      <4>1. verdict[fd] # "none"
        BY <1>3, <3>3 DEF GoodAt, Good, Managed, Converted, Leaving
      <4>2. verdict[fd] = "accepted" => AllData(q)
        BY <1>1, <1>3, <3>3 DEF HiddenAt, Hidden
      <4>3. verdict[fd] = "accepted" => AllData(Tail(q)) /\ exposed' = exposed
        BY <1>3, <2>1, <2>2, <4>2, DataLeft
      <4>4. verdict[fd] \in {"accepted", "rejected"}
        BY <1>3, <4>1 DEF TypeOK
      <4>. QED  BY <1>2, <1>3, <2>1, <3>3, <4>3, <4>4 DEF HiddenAt, Hidden
    <3>. QED  BY <1>3, <2>1, <3>1, <3>2, <3>3
  <2>4. Touches(t, fd)
    BY <1>1, <1>2, LibraryTouches DEF HInv
  <2>. QED  BY <1>3, <1>4, <2>3, <2>4, TouchHides
<1>. QED  BY <1>2, <1>5, <1>6

\* The real close().
LEMMA LCloseHides ==
  ASSUME HInv, ~overlap, NEW t \in Threads, LClose(t)
  PROVE  \A f \in Fds : HidesOK(f)'
<1>1. PICK fd : fd = call[t].fd
  OBVIOUS
<1>2. /\ Library(t) /\ call[t].pc = "lclose" /\ Return(t)
      /\ net' = [net EXCEPT ![fd] = FreshSock] /\ exposed' = exposed \ {fd}
  BY <1>1 DEF LClose, At, Library
<1>3. TypeOK /\ fd \in Fds /\ \A f \in Fds : HidesOK(f)
  BY <1>1, <1>2, AtHidden
<1>4. call'[t].pc = "idle"
  BY <1>2, <1>3, ReturnFacts
<1>5. HiddenAt(fd, "idle")'
  <2>1. net'[fd] = FreshSock /\ fd \notin exposed'
    BY <1>2, <1>3 DEF TypeOK
  <2>. QED  BY <2>1, FreshForm DEF HiddenAt, Hidden
<1>6. Touches(t, fd)
  BY <1>1, <1>2, LibraryTouches DEF HInv
<1>. QED  BY <1>3, <1>4, <1>5, <1>6, TouchHides

\* socket(): a new descriptor shows nothing.
LEMMA SocketHides ==
  ASSUME HInv, ~overlap, NEW t \in Threads, NEW fd \in Fds, Socket(t, fd)
  PROVE  \A f \in Fds : HidesOK(f)'
<1>1. TypeOK /\ Owned /\ \A f \in Fds : HidesOK(f)
  BY DEF HInv, NInv, IInv
<1>2. PICK k \in {"mptcp", "other"} :
        call' = IF k = "other" THEN call ELSE
                [call EXCEPT ![t] = [NoCall EXCEPT !.pc = "alloc", !.op = "socket", !.fd = fd]]
  BY DEF Socket
<1>3. /\ call[t].pc = "idle" /\ kind[fd] = "closed"
      /\ net' = [net EXCEPT ![fd] = FreshSock] /\ told' = [told EXCEPT ![fd] = "nothing"]
      /\ verdict' = [verdict EXCEPT ![fd] = "none"] /\ exposed' = exposed \ {fd}
  BY DEF Socket, At
<1>4. /\ net'[fd] = FreshSock /\ fd \notin exposed'
      /\ \A f \in Fds \ {fd} : /\ net'[f] = net[f] /\ verdict'[f] = verdict[f] /\ told'[f] = told[f]
                               /\ f \in exposed' <=> f \in exposed
  BY <1>1, <1>3 DEF TypeOK
<1>5. \A u \in Threads \ {t} : call'[u] = call[u] /\ ~On(u, fd)
  BY <1>1, <1>2, <1>3 DEF Owned, CallsOnOpen, On, TypeOK, CallsOK
<1>6. call'[t].pc = "idle" \/ call'[t].fd = fd
  BY <1>1, <1>2, <1>3 DEF TypeOK, CallsOK, NoCall
<1>7. Touches(t, fd)
  BY <1>3, <1>4, <1>5, <1>6 DEF Touches
<1>8. PICK p : p = call'[t].pc
  OBVIOUS
<1>9. HiddenAt(fd, p)'
  BY <1>4, FreshForm DEF HiddenAt, Hidden
<1>. QED  BY <1>1, <1>7, <1>8, <1>9, TouchHides

\* A call begins.
LEMMA EnterHides ==
  ASSUME HInv, ~overlap', NEW t \in Threads, NEW fd \in Fds, NEW o, NEW hit, NEW miss, NEW k,
         Enter(t, o, fd, hit, miss, k), hit # "rdtlv", miss # "rdtlv"
  PROVE  \A f \in Fds : HidesOK(f)'
<1>1. PICK s \in Lookup(fd) :
        call' = [call EXCEPT ![t] = [pc |-> IF s = Nil THEN miss ELSE hit, op |-> o, fd |-> fd,
                                     st |-> s, then |-> k]]
  BY DEF Enter
<1>2. /\ call[t].pc = "idle" /\ ~overlap /\ ~InUse(fd, t)
      /\ UNCHANGED <<net, told, verdict, exposed>>
  BY DEF Enter, At
<1>3. TypeOK /\ \A f \in Fds : HidesOK(f)
  BY <1>2 DEF HInv, NInv, IInv
<1>4. PICK p : p = IF s = Nil THEN miss ELSE hit
  OBVIOUS
<1>5. /\ call'[t].pc = p /\ call'[t].fd = fd /\ p # "rdtlv"
      /\ \A u \in Threads \ {t} : call'[u] = call[u] /\ ~On(u, fd)
  BY <1>1, <1>2, <1>3, <1>4 DEF TypeOK, CallsOK, InUse, On
<1>6. Touches(t, fd)
  BY <1>2, <1>5 DEF Touches
<1>7. HiddenAt(fd, "idle")
  BY <1>2, <1>3 DEF HidesOK, Busy, InUse
<1>8. HiddenAt(fd, p)'
  BY <1>2, <1>5, <1>7 DEF HiddenAt, Hidden
<1>. QED  BY <1>3, <1>5, <1>6, <1>8, TouchHides

\* A step of the other end.
LEMMA PeerHides ==
  ASSUME HInv, ~overlap, NEW fd \in Fds, Peer(fd), Replies \subseteq Answers
  PROVE  \A f \in Fds : HidesOK(f)'
<1>1. TypeOK /\ \A f \in Fds : FdOK(f) /\ HidesOK(f)
  BY DEF HInv, NInv, IInv
<1>2. UNCHANGED <<call, told, verdict, exposed>>
  BY DEF Peer
<1>3. \A f \in Fds \ {fd} : net'[f] = net[f]
  BY <1>1, AnswerFacts, PeerDataFacts, PeerCloseFacts DEF Peer
<1>4. ASSUME NEW p, NEW c, GoodAt(fd, p, c), HiddenAt(fd, p)
      PROVE  HiddenAt(fd, p)'
  <2>1. CASE Answer(fd)
    <3>1. PICK r \in Replies : net'[fd].rq = net[fd].rq \o r
      BY <1>1, <2>1, AnswerFacts
    <3>2. /\ net[fd].peer = "converter" /\ net[fd].answer = "none" /\ ~net[fd].eof
          /\ net'[fd].peer = "converter"
      BY <1>1, <2>1, AnswerFacts
    <3>3. net[fd].rq = <<>> /\ p \notin {"rdtlv", "rderr"}
      BY <1>4, <3>2 DEF GoodAt, Good, Converted
    <3>4. AnswerFirst(net'[fd].rq)
      BY <3>1, <3>3, AnswerWhole
    <3>5. told[fd] # "failed" => verdict[fd] = "none"
      BY <1>4, <3>2 DEF HiddenAt, Hidden
    <3>. QED  BY <1>2, <1>4, <3>3, <3>4, <3>5 DEF HiddenAt, Hidden
  <2>2. CASE PeerData(fd)
    <3>1. /\ net'[fd].peer = net[fd].peer /\ net'[fd].eof = net[fd].eof
          /\ net'[fd].rq = Append(net[fd].rq, "data") /\ net'[fd].answer = net[fd].answer
      BY <1>1, <2>2, PeerDataFacts
    <3>2. net[fd].rq \in Seq(Chunk)
      BY <1>1 DEF TypeOK, Sock
    <3>3. /\ AllData(net[fd].rq) => AllData(net'[fd].rq)
          /\ AnswerFirst(net[fd].rq) => AnswerFirst(net'[fd].rq)
          /\ DataNext(net[fd].rq) => DataNext(net'[fd].rq)
      BY <3>1, <3>2, DataMore, NextMore
    <3>. QED  BY <1>2, <1>4, <3>1, <3>3 DEF HiddenAt, Hidden
  <2>3. CASE PeerClose(fd)
    <3>1. /\ net'[fd].peer = net[fd].peer /\ net'[fd].eof = TRUE
          /\ net'[fd].rq = net[fd].rq /\ net'[fd].answer = net[fd].answer
      BY <1>1, <2>3, PeerCloseFacts
    <3>. QED  BY <1>2, <1>4, <3>1 DEF HiddenAt, Hidden
  <2>. QED  BY <2>1, <2>2, <2>3 DEF Peer
<1>. TAKE f \in Fds
<1>5. \A u \in Threads : (On(u, f)' <=> On(u, f)) /\ call'[u] = call[u]
  BY <1>2 DEF On
<1>6. Busy(f)' <=> Busy(f)
  BY <1>2 DEF Busy
<1>7. CASE f # fd
  <2>1. \A p : HiddenAt(f, p) => HiddenAt(f, p)'
    BY <1>2, <1>3, <1>7 DEF HiddenAt, Hidden
  <2>. QED  BY <1>1, <1>5, <1>6, <2>1 DEF HidesOK
<1>8. CASE f = fd
  BY <1>1, <1>4, <1>5, <1>6, <1>8 DEF HidesOK, FdOK
<1>. QED  BY <1>7, <1>8

\* Every step keeps HInv, in an application that lets connect() finish and reads
\* with recv only, with Converters whose answers are whole.
LEMMA HInvStep ==
  ASSUME ~AsyncConnect, ~RawIO, Replies \subseteq Answers
  PROVE  HInv /\ [Next]_vars => HInv'
<1>. SUFFICES ASSUME HInv, [Next]_vars
              PROVE  HInv'
  OBVIOUS
<1>1. NInv'
  BY NInvStep DEF HInv
<1>. SUFFICES ASSUME ~overlap'  PROVE \A f \in Fds : HidesOK(f)'
  BY <1>1 DEF HInv
<1>2. CASE UNCHANGED vars
  <2>1. ~overlap /\ \A f \in Fds : HidesOK(f)
    BY <1>2 DEF vars, HInv
  <2>2. UNCHANGED <<net, call, told, verdict, exposed>>
    BY <1>2 DEF vars
  <2>3. \A f \in Fds : HidesOK(f)' <=> HidesOK(f)
    BY <2>2 DEF HidesOK, HiddenAt, Hidden, On, Busy
  <2>. QED  BY <2>1, <2>3
<1>3. ASSUME NEW t \in Threads, Library(t)
      PROVE  \A f \in Fds : HidesOK(f)'
  <2>1. ~overlap
    BY <1>3 DEF Library, Alloc, Redirect, SendHdr, RdHdr, RdTlv, RdErr, Unlink, Free,
                UseFreed, LConnect, LRecv, LSend, LClose
  <2>2. ~UseFreed(t)
    BY <2>1, PointersValid DEF UseFreed, HInv, NInv, IInv
  <2>. QED
    BY <1>3, <2>1, <2>2, OtherHides, RedirectHides, RdHdrHides, RdTlvHides, RdErrHides,
       LConnectHides, LRecvHides, LCloseHides DEF Library
<1>4. ASSUME NEW t \in Threads, NEW fd \in Fds, Application(t, fd)
      PROVE  \A f \in Fds : HidesOK(f)'
  <2>1. CASE Socket(t, fd)
    BY <2>1, SocketHides DEF Socket
  <2>2. CASE Connect(t, fd)
    BY <2>2, EnterHides DEF Connect
  <2>3. CASE Recv(t, fd) \/ Send(t, fd) \/ Close(t, fd)
    BY <2>3, EnterHides DEF Recv, Send, Close
  <2>. QED  BY <1>4, <2>1, <2>2, <2>3 DEF Application, RawRead
<1>5. ASSUME NEW fd \in Fds, Peer(fd)
      PROVE  \A f \in Fds : HidesOK(f)'
  BY <1>5, PeerHides DEF Peer
<1>. QED  BY <1>2, <1>3, <1>4, <1>5 DEF Next

\* Initially nothing is connected.
LEMMA HInvInit == Init => HInv
<1>. SUFFICES ASSUME Init  PROVE HInv
  OBVIOUS
<1>1. ASSUME NEW fd \in Fds  PROVE HidesOK(fd)
  <2>1. net[fd].peer = "none" /\ fd \notin exposed
    BY FreshForm DEF Init
  <2>. QED  BY <2>1 DEF HidesOK, HiddenAt, Hidden
<1>. QED  BY <1>1, NInvInit DEF HInv

\* For any number of threads and descriptors, in an application that lets
\* connect() finish and reads with recv, with Converters that answer with a header
\* and the TLV it announces: recv hands it no byte of an answer it has accepted.
THEOREM AnswerHidden ==
  ASSUME ~AsyncConnect, ~RawIO, Replies \subseteq Answers
  PROVE  Spec => []ConvertBytesHidden
<1>1. HInv => ConvertBytesHidden
  <2>. SUFFICES ASSUME HInv, ~overlap, NEW fd \in exposed
                PROVE  verdict[fd] = "rejected" \/ told[fd] = "failed"
    BY DEF ConvertBytesHidden
  <2>1. fd \in Fds /\ HidesOK(fd)
    BY DEF HInv, NInv, IInv, TypeOK
  <2>2. PICK p : HiddenAt(fd, p)
    BY <2>1 DEF HidesOK, Busy, On
  <2>. QED  BY <2>2 DEF HiddenAt, Hidden
<1>2. HInv /\ [Next]_vars => HInv'
  BY HInvStep
<1>. QED  BY <1>1, <1>2, HInvInit, PTL DEF Spec

-----------------------------------------------------------------------------
(***************************************************************************)
(* The contract with the Converter.                                        *)
(***************************************************************************)

\* What the conversation shows of a socket.
Holds(q, x) == \E i \in 1 .. Len(q) : q[i] = x

Asks(k) == k.peer = "converter" /\ Holds(k.sent, "hdr")
Sends(k) == k.peer = "converter" /\ Holds(k.sent, "data")
Brings(k) == k.peer = "converter" /\ Holds(k.rq, "data")
Ends(k) == k.peer = "converter" /\ k.eof

\* An empty sequence holds nothing.
LEMMA HoldsNothing == \A x : ~Holds(<<>>, x)
BY DEF Holds

\* What a longer sequence holds.
LEMMA HoldsAppend ==
  ASSUME NEW S, NEW q \in Seq(S), NEW x \in S, NEW y
  PROVE  Holds(Append(q, x), y) <=> Holds(q, y) \/ x = y
<1>1. /\ Len(Append(q, x)) = Len(q) + 1 /\ Len(q) \in Nat
      /\ \A i \in 1 .. Len(q) : Append(q, x)[i] = q[i]
      /\ Append(q, x)[Len(q) + 1] = x
  OBVIOUS
<1>2. \A i \in 1 .. Len(q) : i \in 1 .. Len(Append(q, x))
  BY <1>1
<1>3. Len(q) + 1 \in 1 .. Len(Append(q, x))
  BY <1>1
<1>4. \A i \in 1 .. Len(Append(q, x)) : i \in 1 .. Len(q) \/ i = Len(q) + 1
  BY <1>1
<1>. QED  BY <1>1, <1>2, <1>3, <1>4 DEF Holds

\* What the rest of a sequence holds.
LEMMA HoldsTail ==
  ASSUME NEW S, NEW q \in Seq(S), q # <<>>, NEW y
  PROVE  /\ Holds(Tail(q), y) => Holds(q, y)
         /\ Head(q) # y /\ Holds(q, y) => Holds(Tail(q), y)
<1>1. Len(q) \in Nat /\ Len(q) > 0 /\ Len(Tail(q)) = Len(q) - 1 /\ Head(q) = q[1]
  OBVIOUS
<1>2. \A i \in 1 .. Len(Tail(q)) : Tail(q)[i] = q[i + 1] /\ i + 1 \in 1 .. Len(q)
  BY <1>1
<1>3. Holds(Tail(q), y) => Holds(q, y)
  BY <1>2 DEF Holds
<1>4. ASSUME Head(q) # y, NEW i \in 1 .. Len(q), q[i] = y  PROVE Holds(Tail(q), y)
  <2>1. PICK j : j = i - 1
    OBVIOUS
  <2>2. i # 1
    BY <1>1, <1>4
  <2>3. j \in 1 .. Len(Tail(q)) /\ j + 1 = i
    BY <1>1, <2>1, <2>2
  <2>. QED  BY <1>2, <1>4, <2>3 DEF Holds
<1>. QED  BY <1>3, <1>4 DEF Holds

\* The conversation in these terms.
LEMMA TalkForm ==
  /\ HasAsked = [f \in Fds |-> Asks(net[f])] /\ HasAnswer = [f \in Fds |-> net[f].answer]
  /\ HasHeard = [f \in Fds |-> verdict[f] # "none"] /\ HasSent = [f \in Fds |-> Sends(net[f])]
  /\ HasData = [f \in Fds |-> Brings(net[f])] /\ HasEnded = [f \in Fds |-> Ends(net[f])]
BY DEF HasAsked, HasAnswer, HasHeard, HasSent, HasData, HasEnded, Asks, Sends, Brings, Ends, Holds,
       Redirected, Sent, Queued

\* The same in the next state.
LEMMA TalkFormNext ==
  /\ HasAsked' = [f \in Fds |-> Asks(net'[f])] /\ HasAnswer' = [f \in Fds |-> net'[f].answer]
  /\ HasHeard' = [f \in Fds |-> verdict'[f] # "none"] /\ HasSent' = [f \in Fds |-> Sends(net'[f])]
  /\ HasData' = [f \in Fds |-> Brings(net'[f])] /\ HasEnded' = [f \in Fds |-> Ends(net'[f])]
BY DEF HasAsked, HasAnswer, HasHeard, HasSent, HasData, HasEnded, Asks, Sends, Brings, Ends, Holds,
       Redirected, Sent, Queued

\* Nothing but descriptor fd changes.
Only(fd) == \A f \in Fds \ {fd} : net'[f] = net[f] /\ verdict'[f] = verdict[f]

\* What changes for fd.
LEMMA OneSocket ==
  ASSUME NEW fd \in Fds, Only(fd)
  PROVE  /\ HasAsked' = [HasAsked EXCEPT ![fd] = Asks(net'[fd])]
         /\ HasAnswer' = [HasAnswer EXCEPT ![fd] = net'[fd].answer]
         /\ HasHeard' = [HasHeard EXCEPT ![fd] = verdict'[fd] # "none"]
         /\ HasSent' = [HasSent EXCEPT ![fd] = Sends(net'[fd])]
         /\ HasData' = [HasData EXCEPT ![fd] = Brings(net'[fd])]
         /\ HasEnded' = [HasEnded EXCEPT ![fd] = Ends(net'[fd])]
<1>1. HasAsked' = [HasAsked EXCEPT ![fd] = Asks(net'[fd])]
  BY TalkForm, TalkFormNext DEF Only
<1>2. HasAnswer' = [HasAnswer EXCEPT ![fd] = net'[fd].answer]
  BY TalkForm, TalkFormNext DEF Only
<1>3. HasHeard' = [HasHeard EXCEPT ![fd] = verdict'[fd] # "none"]
  BY TalkForm, TalkFormNext DEF Only
<1>4. HasSent' = [HasSent EXCEPT ![fd] = Sends(net'[fd])]
  BY TalkForm, TalkFormNext DEF Only
<1>5. HasData' = [HasData EXCEPT ![fd] = Brings(net'[fd])]
  BY TalkForm, TalkFormNext DEF Only
<1>6. HasEnded' = [HasEnded EXCEPT ![fd] = Ends(net'[fd])]
  BY TalkForm, TalkFormNext DEF Only
<1>. QED  BY <1>1, <1>2, <1>3, <1>4, <1>5, <1>6

\* What does not change for fd does not change.
LEMMA SameSocket ==
  ASSUME NEW fd \in Fds, Only(fd)
  PROVE  /\ (Asks(net'[fd]) <=> Asks(net[fd])) => HasAsked' = HasAsked
         /\ net'[fd].answer = net[fd].answer => HasAnswer' = HasAnswer
         /\ (verdict'[fd] # "none" <=> verdict[fd] # "none") => HasHeard' = HasHeard
         /\ (Sends(net'[fd]) <=> Sends(net[fd])) => HasSent' = HasSent
         /\ (Brings(net'[fd]) <=> Brings(net[fd])) => HasData' = HasData
         /\ (Ends(net'[fd]) <=> Ends(net[fd])) => HasEnded' = HasEnded
<1>1. (Asks(net'[fd]) <=> Asks(net[fd])) => HasAsked' = HasAsked
  BY TalkForm, TalkFormNext DEF Only, Asks
<1>2. net'[fd].answer = net[fd].answer => HasAnswer' = HasAnswer
  BY TalkForm, TalkFormNext DEF Only
<1>3. (verdict'[fd] # "none" <=> verdict[fd] # "none") => HasHeard' = HasHeard
  BY TalkForm, TalkFormNext DEF Only
<1>4. (Sends(net'[fd]) <=> Sends(net[fd])) => HasSent' = HasSent
  BY TalkForm, TalkFormNext DEF Only, Sends
<1>5. (Brings(net'[fd]) <=> Brings(net[fd])) => HasData' = HasData
  BY TalkForm, TalkFormNext DEF Only, Brings
<1>6. (Ends(net'[fd]) <=> Ends(net[fd])) => HasEnded' = HasEnded
  BY TalkForm, TalkFormNext DEF Only, Ends
<1>. QED  BY <1>1, <1>2, <1>3, <1>4, <1>5, <1>6

\* A step of the conversation, or none.
Talks == Talk!Next \/ UNCHANGED <<HasAsked, HasAnswer, HasHeard, HasSent, HasData, HasEnded>>

\* What fd has sent and whether it ended do not change.
Keeps(fd) ==
  /\ net'[fd].peer = net[fd].peer /\ net'[fd].sent = net[fd].sent
  /\ net'[fd].answer = net[fd].answer /\ net'[fd].eof = net[fd].eof

\* A step the conversation does not show.
LEMMA TalkStay ==
  ASSUME NEW fd \in Fds, Only(fd), Keeps(fd),
         net'[fd].rq = net[fd].rq, verdict'[fd] = verdict[fd]
  PROVE  Talks
<1>1. HasAsked' = HasAsked /\ HasSent' = HasSent
  BY SameSocket DEF Asks, Sends, Keeps
<1>2. HasAnswer' = HasAnswer /\ HasHeard' = HasHeard
  BY SameSocket DEF Keeps
<1>3. HasData' = HasData /\ HasEnded' = HasEnded
  BY SameSocket DEF Brings, Ends, Keeps
<1>. QED  BY <1>1, <1>2, <1>3 DEF Talks

\* An item is taken from the queue, and the answer is not judged.
LEMMA TalkTake ==
  ASSUME NEW fd \in Fds, Only(fd), Keeps(fd), net[fd].rq \in Seq(Chunk), net[fd].rq # <<>>,
         net'[fd].rq = Tail(net[fd].rq), verdict'[fd] = verdict[fd]
  PROVE  Talks
<1>1. HasAsked' = HasAsked /\ HasSent' = HasSent
  BY SameSocket DEF Asks, Sends, Keeps
<1>2. HasAnswer' = HasAnswer /\ HasHeard' = HasHeard
  BY SameSocket DEF Keeps
<1>3. HasEnded' = HasEnded
  BY SameSocket DEF Ends, Keeps
<1>4. Brings(net'[fd]) => Brings(net[fd])
  BY HoldsTail DEF Brings, Keeps
<1>5. CASE Brings(net'[fd])
  <2>1. HasData' = HasData
    BY <1>4, <1>5, SameSocket
  <2>. QED  BY <1>1, <1>2, <1>3, <2>1 DEF Talks
<1>6. CASE ~Brings(net'[fd])
  <2>1. HasData' = [HasData EXCEPT ![fd] = FALSE]
    <3>1. Brings(net'[fd]) = FALSE
      BY <1>6 DEF Brings
    <3>. QED  BY <3>1, OneSocket
  <2>. QED  BY <1>1, <1>2, <1>3, <2>1 DEF Talks, Talk!Next, Talk!Drain
<1>. QED  BY <1>5, <1>6

\* The answer is judged.
LEMMA TalkHear ==
  ASSUME NEW fd \in Fds, Only(fd), Keeps(fd), Brings(net'[fd]) <=> Brings(net[fd]),
         verdict'[fd] # "none", net[fd].answer # "none" \/ Ends(net[fd])
  PROVE  Talks
<1>1. HasAsked' = HasAsked /\ HasSent' = HasSent
  BY SameSocket DEF Asks, Sends, Keeps
<1>2. HasAnswer' = HasAnswer /\ HasData' = HasData
  BY SameSocket DEF Keeps
<1>3. HasEnded' = HasEnded
  BY SameSocket DEF Ends, Keeps
<1>4. HasHeard' = [HasHeard EXCEPT ![fd] = TRUE]
  <2>1. (verdict'[fd] # "none") = TRUE
    OBVIOUS
  <2>. QED  BY <2>1, OneSocket
<1>5. HasAnswer[fd] # "none" \/ HasEnded[fd]
  BY TalkForm
<1>. QED  BY <1>1, <1>2, <1>3, <1>4, <1>5 DEF Talks, Talk!Next, Talk!Hear

\* The socket is new.
LEMMA TalkRenew ==
  ASSUME NEW fd \in Fds, Only(fd), net'[fd] = FreshSock, verdict'[fd] = "none"
  PROVE  Talks
<1>1. /\ Asks(net'[fd]) = FALSE /\ Sends(net'[fd]) = FALSE /\ Brings(net'[fd]) = FALSE
      /\ Ends(net'[fd]) = FALSE
  BY FreshForm DEF Asks, Sends, Brings, Ends
<1>2. net'[fd].answer = "none" /\ (verdict'[fd] # "none") = FALSE
  BY FreshForm
<1>3. /\ HasAsked' = [HasAsked EXCEPT ![fd] = FALSE] /\ HasSent' = [HasSent EXCEPT ![fd] = FALSE]
      /\ HasData' = [HasData EXCEPT ![fd] = FALSE] /\ HasEnded' = [HasEnded EXCEPT ![fd] = FALSE]
  BY <1>1, OneSocket
<1>4. /\ HasAnswer' = [HasAnswer EXCEPT ![fd] = "none"]
      /\ HasHeard' = [HasHeard EXCEPT ![fd] = FALSE]
  BY <1>2, OneSocket
<1>. QED  BY <1>3, <1>4 DEF Talks, Talk!Next, Talk!Renew

\* A connection is made: nothing was sent on it or came from it yet.
LEMMA TalkConnect ==
  ASSUME TypeOK, NEW fd \in Fds, NEW p, Attach(fd, p), UNCHANGED verdict,
         net[fd].peer = "none", Unconnected(net[fd], verdict[fd], fd \in exposed)
  PROVE  Talks
<1>1. /\ net'[fd].sent = net[fd].sent /\ net'[fd].rq = net[fd].rq
      /\ net'[fd].answer = net[fd].answer /\ net'[fd].eof = net[fd].eof
      /\ Only(fd)
  BY AttachFacts DEF Only
<1>2. /\ ~Asks(net[fd]) /\ ~Asks(net'[fd]) /\ ~Sends(net[fd]) /\ ~Sends(net'[fd])
      /\ ~Brings(net[fd]) /\ ~Brings(net'[fd]) /\ ~Ends(net[fd]) /\ ~Ends(net'[fd])
  BY <1>1, HoldsNothing DEF Unconnected, Asks, Sends, Brings, Ends
<1>3. HasAsked' = HasAsked /\ HasSent' = HasSent
  BY <1>1, <1>2, SameSocket
<1>4. HasAnswer' = HasAnswer /\ HasHeard' = HasHeard
  BY <1>1, SameSocket
<1>5. HasData' = HasData /\ HasEnded' = HasEnded
  BY <1>1, <1>2, SameSocket
<1>. QED  BY <1>3, <1>4, <1>5 DEF Talks

\* An item is sent: the header first, data once the answer is known.
LEMMA TalkPut ==
  ASSUME TypeOK, NEW fd \in Fds, NEW x \in {"hdr", "data"}, Put(fd, x), UNCHANGED verdict,
         x = "hdr" => net[fd].sent = <<>>,
         x = "data" /\ net[fd].peer = "converter" => verdict[fd] # "none"
  PROVE  Talks
<1>1. /\ net'[fd].peer = net[fd].peer /\ net'[fd].sent = Append(net[fd].sent, x)
      /\ net'[fd].rq = net[fd].rq
      /\ net'[fd].answer = net[fd].answer /\ net'[fd].eof = net[fd].eof
      /\ Only(fd)
  BY PutFacts DEF Only
<1>2. \A y : Holds(net'[fd].sent, y) <=> Holds(net[fd].sent, y) \/ x = y
  <2>1. net[fd].sent \in Seq({"hdr", "data"})
    BY DEF TypeOK, Sock
  <2>. QED  BY <1>1, <2>1, HoldsAppend
<1>3. HasAnswer' = HasAnswer /\ HasHeard' = HasHeard
  BY <1>1, SameSocket
<1>4. HasData' = HasData /\ HasEnded' = HasEnded
  BY <1>1, SameSocket DEF Brings, Ends
<1>5. CASE net[fd].peer # "converter"
  <2>1. HasAsked' = HasAsked /\ HasSent' = HasSent
    BY <1>1, <1>5, SameSocket DEF Asks, Sends
  <2>. QED  BY <1>3, <1>4, <2>1 DEF Talks
<1>6. CASE net[fd].peer = "converter" /\ x = "hdr"
  <2>1. HasSent' = HasSent
    BY <1>1, <1>2, <1>6, SameSocket DEF Sends
  <2>2. ~HasAsked[fd]
    BY <1>6, TalkForm, HoldsNothing DEF Asks
  <2>3. HasAsked' = [HasAsked EXCEPT ![fd] = TRUE]
    <3>1. Asks(net'[fd]) = TRUE
      BY <1>1, <1>2, <1>6 DEF Asks
    <3>. QED  BY <1>1, <3>1, OneSocket
  <2>. QED  BY <1>3, <1>4, <2>1, <2>2, <2>3 DEF Talks, Talk!Next, Talk!Ask
<1>7. CASE net[fd].peer = "converter" /\ x = "data"
  <2>1. HasAsked' = HasAsked
    BY <1>1, <1>2, <1>7, SameSocket DEF Asks
  <2>2. HasHeard[fd]
    BY <1>7, TalkForm
  <2>3. HasSent' = [HasSent EXCEPT ![fd] = TRUE]
    <3>1. Sends(net'[fd]) = TRUE
      BY <1>1, <1>2, <1>7 DEF Sends
    <3>. QED  BY <1>1, <3>1, OneSocket
  <2>. QED  BY <1>3, <1>4, <2>1, <2>2, <2>3 DEF Talks, Talk!Next, Talk!Up
<1>. QED  BY <1>5, <1>6, <1>7

\* A step that leaves the sockets and the verdicts alone.
LEMMA TalkIdle ==
  ASSUME UNCHANGED <<net, verdict>>
  PROVE  Talks
<1>1. HasAsked' = HasAsked /\ HasAnswer' = HasAnswer /\ HasHeard' = HasHeard
  BY TalkForm, TalkFormNext
<1>2. HasSent' = HasSent /\ HasData' = HasData /\ HasEnded' = HasEnded
  BY TalkForm, TalkFormNext
<1>. QED  BY <1>1, <1>2 DEF Talks

\* _read_convert judges an answer it has, or one that will not come.
LEMMA ReadTalks ==
  ASSUME NInv, ~overlap, NEW t \in Threads, RdHdr(t) \/ RdTlv(t) \/ RdErr(t)
  PROVE  Talks
<1>1. PICK fd, q, b : fd = call[t].fd /\ q = net[fd].rq /\ b = call[t].then
  OBVIOUS
<1>2. Library(t) /\ call[t].pc \in {"rdhdr", "rdtlv", "rderr"} /\ obj[call[t].st] = fd
  BY <1>1, HeldState DEF RdHdr, RdTlv, RdErr, Library, At, Holding
<1>3. /\ TypeOK /\ fd \in Fds /\ GoodAt(fd, call[t].pc, b)
      /\ net[fd].peer \in {"none", "converter", "server"} /\ q \in Seq(Chunk)
  BY <1>1, <1>2, AtFd DEF TypeOK, Sock
<1>4. Only(fd)
  BY <1>1, <1>2, LibraryTouches DEF Touches, Only
<1>5. verdict[fd] = "none" /\ net[fd].peer # "server"
  BY <1>2, <1>3 DEF GoodAt, Good, Managed, Direct, Holding
<1>6. CASE UNCHANGED <<net, verdict>>
  BY <1>6, TalkIdle
<1>7. CASE Take(fd)
  <2>1. Keeps(fd) /\ q # <<>> /\ net'[fd].rq = Tail(q)
    BY <1>1, <1>3, <1>7, TakeFacts DEF Keeps
  <2>2. CASE UNCHANGED verdict
    BY <1>1, <1>3, <1>4, <2>1, <2>2, TalkTake
  <2>3. CASE Head(q) \in {"hdr0", "tlvOk"} /\ verdict' = [verdict EXCEPT ![fd] = "accepted"]
    <3>1. verdict'[fd] # "none"
      BY <1>3, <2>3 DEF TypeOK
    <3>2. Holds(Tail(q), "data") <=> Holds(q, "data")
      <4>1. Head(q) # "data"
        BY <2>3
      <4>. QED  BY <1>3, <2>1, <4>1, HoldsTail
    <3>3. Brings(net'[fd]) <=> Brings(net[fd])
      BY <1>1, <2>1, <3>2 DEF Brings, Keeps
    <3>4. net[fd].answer # "none"
      BY <1>1, <1>3, <1>5, <2>1 DEF GoodAt, Good, Unconnected, Converted
    <3>. QED  BY <1>3, <1>4, <2>1, <3>1, <3>3, <3>4, TalkHear
  <2>4. UNCHANGED verdict \/ (Head(q) \in {"hdr0", "tlvOk"} /\ verdict' = [verdict EXCEPT ![fd] = "accepted"])
    <3>1. CASE RdHdr(t)
      BY <1>1, <1>2, <3>1 DEF RdHdr
    <3>2. CASE RdTlv(t)
      BY <1>1, <1>2, <3>2 DEF RdTlv
    <3>3. CASE RdErr(t)
      <4>1. SetNoLinger(fd)
        BY <1>2, <3>3 DEF RdErr
      <4>2. net'[fd].rq = q
        BY <1>1, <1>3, <4>1, LingerFacts
      <4>3. Tail(q) # q
        BY <1>3, <2>1
      <4>. QED  BY <2>1, <4>2, <4>3
    <3>. QED  BY <3>1, <3>2, <3>3
  <2>. QED  BY <2>2, <2>3, <2>4
<1>8. CASE RdErr(t)
  <2>1. SetNoLinger(fd) /\ verdict' = [verdict EXCEPT ![fd] = "rejected"] /\ call[t].pc = "rderr"
    BY <1>2, <1>8 DEF RdErr, At
  <2>2. Keeps(fd) /\ net'[fd].rq = net[fd].rq
    BY <1>3, <2>1, LingerFacts DEF Keeps
  <2>3. Brings(net'[fd]) <=> Brings(net[fd])
    BY <2>2 DEF Brings, Keeps
  <2>4. verdict'[fd] # "none"
    BY <1>3, <2>1 DEF TypeOK
  <2>5. net[fd].answer # "none" \/ Ends(net[fd])
    BY <1>3, <2>1 DEF GoodAt, Good, Ends
  <2>. QED  BY <1>3, <1>4, <2>2, <2>3, <2>4, <2>5, TalkHear
<1>9. Take(fd) \/ UNCHANGED <<net, verdict>> \/ RdErr(t)
  BY <1>2 DEF RdHdr, RdTlv
<1>. QED  BY <1>6, <1>7, <1>8, <1>9

\* The application gets the next item.
LEMMA DeliverTalks ==
  ASSUME TypeOK, NEW fd \in Fds, Deliver(fd), UNCHANGED verdict
  PROVE  Talks
<1>1. /\ Keeps(fd) /\ Only(fd) /\ net[fd].rq # <<>> /\ net'[fd].rq = Tail(net[fd].rq)
  BY TakeFacts DEF Deliver, Keeps, Only
<1>2. net[fd].rq \in Seq(Chunk)
  BY DEF TypeOK, Sock
<1>. QED  BY <1>1, <1>2, TalkTake

\* Every step of a call inside the library is one of the conversation.
LEMMA LibraryTalks ==
  ASSUME NInv, ~overlap, NEW t \in Threads, Library(t), ~AsyncConnect
  PROVE  Talks
<1>1. PICK fd, b : fd = call[t].fd /\ b = call[t].then
  OBVIOUS
<1>2. /\ Touches(t, fd) /\ fd \in Fds /\ call[t].pc # "idle"
      /\ TypeOK /\ GoodAt(fd, call[t].pc, b)
  BY <1>1, LibraryTouches, AtFd
<1>3. ~UseFreed(t)
  BY PointersValid DEF UseFreed, NInv, IInv
<1>4. CASE Alloc(t) \/ Unlink(t) \/ Free(t)
  BY <1>4, TalkIdle DEF Alloc, Unlink, Free
<1>5. CASE Redirect(t)
  <2>1. /\ UNCHANGED verdict
        /\ (CanConnect(fd) /\ Attach(fd, "converter")) \/ UNCHANGED net
    BY <1>1, <1>5, HeldState DEF Redirect, At, Holding
  <2>2. CASE CanConnect(fd) /\ Attach(fd, "converter")
    <3>1. net[fd].peer = "none" /\ Unconnected(net[fd], verdict[fd], fd \in exposed)
      BY <1>2, <2>2 DEF CanConnect, GoodAt, Good
    <3>. QED  BY <1>2, <2>1, <2>2, <3>1, TalkConnect
  <2>. QED  BY <2>1, <2>2, TalkIdle
<1>6. CASE SendHdr(t)
  <2>1. UNCHANGED verdict /\ (Put(fd, "hdr") \/ UNCHANGED net) /\ call[t].pc = "sendhdr"
    BY <1>1, <1>6, HeldState DEF SendHdr, At, Holding
  <2>2. CASE Put(fd, "hdr")
    <3>1. net[fd].sent = <<>>
      BY <1>2, <2>1 DEF GoodAt, Good
    <3>. QED  BY <1>2, <2>1, <2>2, <3>1, TalkPut
  <2>. QED  BY <2>1, <2>2, TalkIdle
<1>7. CASE LConnect(t)
  <2>1. /\ UNCHANGED verdict
        /\ (CanConnect(fd) /\ Attach(fd, "server")) \/ UNCHANGED net
    BY <1>1, <1>7 DEF LConnect
  <2>2. CASE CanConnect(fd) /\ Attach(fd, "server")
    <3>1. net[fd].peer = "none" /\ Unconnected(net[fd], verdict[fd], fd \in exposed)
      BY <1>2, <2>2 DEF CanConnect, GoodAt, Good
    <3>. QED  BY <1>2, <2>1, <2>2, <3>1, TalkConnect
  <2>. QED  BY <2>1, <2>2, TalkIdle
<1>8. CASE LRecv(t)
  <2>1. UNCHANGED verdict /\ (Deliver(fd) \/ UNCHANGED net)
    BY <1>1, <1>8 DEF LRecv
  <2>. QED  BY <1>2, <2>1, DeliverTalks, TalkIdle
<1>9. CASE LSend(t)
  <2>1. UNCHANGED verdict /\ (Put(fd, "data") \/ UNCHANGED net) /\ call[t].pc = "lsend"
    BY <1>1, <1>9 DEF LSend, At
  <2>2. CASE Put(fd, "data")
    <3>1. net[fd].peer = "converter" => verdict[fd] # "none"
      BY <1>2, <2>1 DEF GoodAt, Good, Managed, Converted, Leaving
    <3>. QED  BY <1>2, <2>1, <2>2, <3>1, TalkPut
  <2>. QED  BY <2>1, <2>2, TalkIdle
<1>10. CASE LClose(t)
  <2>1. net'[fd] = FreshSock /\ verdict'[fd] = "none" /\ Only(fd)
    BY <1>1, <1>2, <1>10 DEF LClose, TypeOK, Only
  <2>. QED  BY <1>2, <2>1, TalkRenew
<1>. QED  BY <1>3, <1>4, <1>5, <1>6, <1>7, <1>8, <1>9, <1>10, ReadTalks DEF Library

\* Every call the application makes is.
LEMMA ApplicationTalks ==
  ASSUME TypeOK, NEW t \in Threads, NEW fd \in Fds, Application(t, fd)
  PROVE  Talks
<1>1. CASE Socket(t, fd)
  <2>1. net'[fd] = FreshSock /\ verdict'[fd] = "none" /\ Only(fd)
    BY <1>1 DEF Socket, TypeOK, Only
  <2>. QED  BY <2>1, TalkRenew
<1>2. CASE RawRead(t, fd)
  BY <1>2, DeliverTalks DEF RawRead
<1>3. CASE Connect(t, fd) \/ Recv(t, fd) \/ Send(t, fd) \/ Close(t, fd)
  BY <1>3, TalkIdle DEF Connect, Recv, Send, Close, Enter
<1>. QED  BY <1>1, <1>2, <1>3 DEF Application

\* The other end takes its own steps.
LEMMA PeerTalks ==
  ASSUME NInv, ~overlap, NEW fd \in Fds, Peer(fd)
  PROVE  Talks
<1>1. TypeOK /\ UNCHANGED verdict
  BY DEF NInv, IInv, Peer
<1>2. PICK p, c : GoodAt(fd, p, c)
  BY DEF NInv, FdOK, Busy, On
<1>3. CASE Answer(fd)
  <2>1. /\ net[fd].peer = "converter" /\ net[fd].answer = "none" /\ ~net[fd].eof
        /\ net[fd].sent # <<>> /\ Head(net[fd].sent) = "hdr"
        /\ net'[fd].peer = net[fd].peer /\ net'[fd].sent = net[fd].sent /\ net'[fd].eof = net[fd].eof
        /\ Only(fd)
    BY <1>1, <1>3, AnswerFacts DEF Only
  <2>2. PICK r \in Replies : /\ net'[fd].rq = net[fd].rq \o r
                             /\ net'[fd].answer = IF Accepting(r) THEN "accept" ELSE "refuse"
    BY <1>1, <1>3, AnswerFacts
  <2>3. net[fd].rq = <<>>
    BY <1>2, <2>1 DEF GoodAt, Good, Converted
  <2>4. ~Brings(net[fd]) /\ ~Brings(net'[fd])
    <3>1. r \in Seq(Chunk \ {"data"})
      BY ClientAssumption
    <3>2. <<>> \o r = r
      BY <3>1
    <3>3. ~Holds(r, "data")
      BY <3>1 DEF Holds
    <3>. QED  BY <2>2, <2>3, <3>2, <3>3, HoldsNothing DEF Brings
  <2>5. HasAsked' = HasAsked /\ HasSent' = HasSent
    BY <2>1, SameSocket DEF Asks, Sends
  <2>6. HasHeard' = HasHeard /\ HasData' = HasData
    BY <1>1, <2>1, <2>4, SameSocket
  <2>7. HasEnded' = HasEnded
    BY <2>1, SameSocket DEF Ends
  <2>8. HasAnswer' = [HasAnswer EXCEPT ![fd] = net'[fd].answer] /\ net'[fd].answer \in {"accept", "refuse"}
    BY <2>1, <2>2, OneSocket
  <2>9. HasAsked[fd] /\ HasAnswer[fd] = "none" /\ ~HasEnded[fd]
    <3>1. net[fd].sent \in Seq({"hdr", "data"})
      BY <1>1 DEF TypeOK, Sock
    <3>2. Holds(net[fd].sent, "hdr")
      <4>1. 1 \in 1 .. Len(net[fd].sent) /\ net[fd].sent[1] = "hdr"
        BY <2>1, <3>1
      <4>. QED  BY <4>1 DEF Holds
    <3>. QED  BY <2>1, <3>2, TalkForm DEF Asks, Ends
  <2>. QED  BY <2>5, <2>6, <2>7, <2>8, <2>9 DEF Talks, Talk!Next, Talk!Answer
<1>4. CASE PeerData(fd)
  <2>1. /\ net'[fd].peer = net[fd].peer /\ net'[fd].sent = net[fd].sent /\ net'[fd].eof = net[fd].eof
        /\ net'[fd].rq = Append(net[fd].rq, "data") /\ net'[fd].answer = net[fd].answer
        /\ Only(fd) /\ ~net[fd].eof
        /\ net[fd].peer = "server" \/ net[fd].answer = "accept"
    BY <1>1, <1>4, PeerDataFacts DEF Only, PeerData
  <2>2. HasAsked' = HasAsked /\ HasSent' = HasSent
    BY <2>1, SameSocket DEF Asks, Sends
  <2>3. HasAnswer' = HasAnswer /\ HasHeard' = HasHeard
    BY <1>1, <2>1, SameSocket
  <2>4. HasEnded' = HasEnded
    BY <2>1, SameSocket DEF Ends
  <2>5. CASE net[fd].peer = "converter"
    <3>1. HasAnswer[fd] = "accept" /\ ~HasEnded[fd]
      BY <2>1, <2>5, TalkForm DEF Ends
    <3>2. Brings(net'[fd]) = TRUE
      <4>1. net[fd].rq \in Seq(Chunk) /\ "data" \in Chunk
        BY <1>1 DEF TypeOK, Sock, Chunk
      <4>2. Holds(net'[fd].rq, "data")
        BY <2>1, <4>1, HoldsAppend
      <4>. QED  BY <2>1, <2>5, <4>2 DEF Brings
    <3>3. HasData' = [HasData EXCEPT ![fd] = TRUE]
      BY <2>1, <3>2, OneSocket
    <3>. QED  BY <2>2, <2>3, <2>4, <3>1, <3>3 DEF Talks, Talk!Next, Talk!Down
  <2>6. CASE net[fd].peer # "converter"
    <3>1. HasData' = HasData
      BY <2>1, <2>6, SameSocket DEF Brings
    <3>. QED  BY <2>2, <2>3, <2>4, <3>1 DEF Talks
  <2>. QED  BY <2>5, <2>6
<1>5. CASE PeerClose(fd)
  <2>1. /\ net'[fd].peer = net[fd].peer /\ net'[fd].sent = net[fd].sent /\ net'[fd].eof = TRUE
        /\ net'[fd].rq = net[fd].rq /\ net'[fd].answer = net[fd].answer /\ Only(fd)
    BY <1>1, <1>5, PeerCloseFacts DEF Only
  <2>2. HasAsked' = HasAsked /\ HasSent' = HasSent
    BY <2>1, SameSocket DEF Asks, Sends
  <2>3. HasAnswer' = HasAnswer /\ HasHeard' = HasHeard
    BY <1>1, <2>1, SameSocket
  <2>4. HasData' = HasData
    BY <2>1, SameSocket DEF Brings
  <2>5. CASE net[fd].peer = "converter"
    <3>1. Ends(net'[fd]) = TRUE
      BY <2>1, <2>5 DEF Ends
    <3>2. HasEnded' = [HasEnded EXCEPT ![fd] = TRUE]
      BY <2>1, <3>1, OneSocket
    <3>. QED  BY <2>2, <2>3, <2>4, <3>2 DEF Talks, Talk!Next, Talk!Over
  <2>6. CASE net[fd].peer # "converter"
    <3>1. HasEnded' = HasEnded
      BY <2>1, <2>6, SameSocket DEF Ends
    <3>. QED  BY <2>2, <2>3, <2>4, <3>1 DEF Talks
  <2>. QED  BY <2>5, <2>6
<1>. QED  BY <1>3, <1>4, <1>5 DEF Peer

\* An application that keeps to one call at a time on a descriptor does so.
LEMMA NoOverlap ==
  ASSUME ~Overlaps
  PROVE  Spec => []~overlap
<1>1. Init => ~overlap
  BY DEF Init
<1>2. ~overlap /\ [Next]_vars => ~overlap'
  <2>. SUFFICES ASSUME ~overlap, [Next]_vars  PROVE ~overlap'
    OBVIOUS
  <2>1. CASE \E t \in Threads : Library(t)
    BY <2>1 DEF Library, Alloc, Redirect, SendHdr, RdHdr, RdTlv, RdErr, Unlink, Free,
                UseFreed, LConnect, LRecv, LSend, LClose
  <2>2. CASE \E t \in Threads, fd \in Fds : Application(t, fd)
    BY <2>2 DEF Application, Socket, RawRead, Connect, Recv, Send, Close, Enter
  <2>3. CASE UNCHANGED vars \/ \E fd \in Fds : Peer(fd)
    BY <2>3 DEF Peer, vars
  <2>. QED  BY <2>1, <2>2, <2>3 DEF Next
<1>. QED  BY <1>1, <1>2, PTL DEF Spec

\* For any number of connections: in an application that lets connect() finish
\* and makes one call at a time on a descriptor, lib_convert keeps the client's
\* part of the contract that the Converter relies on.
THEOREM ClientKeepsContract ==
  ASSUME ~AsyncConnect, ~Overlaps
  PROVE  Spec => ClientContract
<1>1. Init => Talk!Init
  <2>. SUFFICES ASSUME Init  PROVE Talk!Init
    OBVIOUS
  <2>1. \A f \in Fds : /\ Asks(net[f]) = FALSE /\ Sends(net[f]) = FALSE /\ Brings(net[f]) = FALSE
                       /\ Ends(net[f]) = FALSE /\ net[f].answer = "none"
                       /\ (verdict[f] # "none") = FALSE
    BY FreshForm DEF Init, Asks, Sends, Brings, Ends
  <2>2. /\ HasAsked = [f \in Fds |-> FALSE] /\ HasSent = [f \in Fds |-> FALSE]
        /\ HasData = [f \in Fds |-> FALSE] /\ HasEnded = [f \in Fds |-> FALSE]
    BY <2>1, TalkForm
  <2>3. HasHeard = [f \in Fds |-> FALSE] /\ HasAnswer = [f \in Fds |-> "none"]
    BY <2>1, TalkForm
  <2>. QED  BY <2>2, <2>3 DEF Talk!Init, Talk!None
<1>2. NInv /\ ~overlap /\ [Next]_vars => [Talk!Next]_(Talk!vars)
  <2>. SUFFICES ASSUME NInv, ~overlap, [Next]_vars  PROVE Talks
    BY DEF Talks, Talk!vars
  <2>1. CASE UNCHANGED vars
    BY <2>1, TalkIdle DEF vars
  <2>2. TypeOK
    BY DEF NInv, IInv
  <2>. QED  BY <2>1, <2>2, LibraryTalks, ApplicationTalks, PeerTalks DEF Next
<1>3. Spec => []NInv
  BY NInvAlways
<1>4. Spec => []~overlap
  BY NoOverlap
<1>. QED  BY <1>1, <1>2, <1>3, <1>4, PTL DEF Spec, ClientContract, Talk!Spec

-----------------------------------------------------------------------------
(***************************************************************************)
(* The table of states, as the calls see it.                               *)
(***************************************************************************)

\* A step of the table, or none.
Serves == States!Next \/ UNCHANGED <<Owner, Found>>

\* What a step inside the library does to its call.
LEMMA LibraryMoves ==
  ASSUME TypeOK, NEW t \in Threads, Library(t), ~UseFreed(t)
  PROVE  /\ call[t].pc # "idle" /\ \A u \in Threads \ {t} : call'[u] = call[u]
         /\ \/ call'[t].pc = "idle"
            \/ /\ call'[t].fd = call[t].fd /\ call'[t].st = call[t].st
               /\ call'[t].pc \notin {"idle", "alloc"} /\ call[t].pc # "alloc"
<1>1. call[t].pc # "idle"
  BY DEF Library, Alloc, Redirect, SendHdr, RdHdr, RdTlv, RdErr, Unlink, Free,
         LConnect, LRecv, LSend, LClose, At
<1>2. CASE Alloc(t) \/ LConnect(t) \/ LRecv(t) \/ LSend(t) \/ LClose(t)
  BY <1>1, <1>2, ReturnFacts DEF Alloc, LConnect, LRecv, LSend, LClose
<1>3. CASE \/ Redirect(t) \/ SendHdr(t) \/ RdHdr(t) \/ RdTlv(t) \/ RdErr(t)
           \/ Unlink(t) \/ Free(t)
  <2>1. call[t].pc # "alloc"
    BY <1>3 DEF Redirect, SendHdr, RdHdr, RdTlv, RdErr, Unlink, Free, At
  <2>2. \/ Return(t) \/ \E k : FreeThen(t, k)
        \/ \E p \in Pcs \ {"idle", "alloc"} : Goto(t, p)
    BY <1>3 DEF Redirect, SendHdr, RdHdr, RdTlv, RdErr, Unlink, Free, AfterRun, Pcs
  <2>. QED  BY <1>1, <2>1, <2>2, GotoFacts, FreeThenFacts, ReturnFacts
<1>. QED  BY <1>2, <1>3 DEF Library

\* The table changes only with the list.
LEMMA OwnerSame ==
  ASSUME UNCHANGED <<obj, htable>>
  PROVE  Owner' = Owner
BY DEF Owner, Linked

\* A step of one call, seen in what was found.
LEMMA FoundOne ==
  ASSUME NEW t \in Threads, \A u \in Threads \ {t} : call'[u] = call[u]
  PROVE  /\ call'[t].pc \in {"idle", "alloc"} =>
              Found' = [Found EXCEPT ![t] = [fd |-> Nil, st |-> Nil]]
         /\ call'[t].pc \notin {"idle", "alloc"} =>
              Found' = [Found EXCEPT ![t] = [fd |-> call'[t].fd, st |-> call'[t].st]]
BY DEF Found

\* A call that goes on, or one that never looked up.
LEMMA FoundSame ==
  ASSUME NEW t \in Threads, \A u \in Threads \ {t} : call'[u] = call[u],
         \/ call[t].pc \in {"idle", "alloc"} /\ call'[t].pc \in {"idle", "alloc"}
         \/ /\ call[t].pc \notin {"idle", "alloc"} /\ call'[t].pc \notin {"idle", "alloc"}
            /\ call'[t].fd = call[t].fd /\ call'[t].st = call[t].st
  PROVE  Found' = Found
BY DEF Found

\* A step inside the library that leaves the table as it is: the call goes on
\* or returns.
LEMMA MoveServes ==
  ASSUME TypeOK, NEW t \in Threads, Library(t), ~UseFreed(t), Owner' = Owner
  PROVE  Serves
<1>1. /\ call[t].pc # "idle" /\ \A u \in Threads \ {t} : call'[u] = call[u]
      /\ \/ call'[t].pc = "idle"
         \/ /\ call'[t].fd = call[t].fd /\ call'[t].st = call[t].st
            /\ call'[t].pc \notin {"idle", "alloc"} /\ call[t].pc # "alloc"
  BY LibraryMoves
<1>2. CASE call'[t].pc = "idle"
  <2>1. Found' = [Found EXCEPT ![t] = [fd |-> Nil, st |-> Nil]]
    BY <1>1, <1>2, FoundOne
  <2>. QED  BY <2>1 DEF Serves, States!Next, States!Return, States!NoResult
<1>3. CASE call'[t].pc # "idle"
  <2>1. Found' = Found
    BY <1>1, <1>3, FoundSame
  <2>. QED  BY <2>1 DEF Serves
<1>. QED  BY <1>2, <1>3

\* _alloc: the new state is the only one of its descriptor.
LEMMA AllocServes ==
  ASSUME TypeOK, Owned, NEW t \in Threads, Alloc(t)
  PROVE  Serves
<1>1. PICK fd : fd = call[t].fd
  OBVIOUS
<1>2. call[t].pc = "alloc" /\ Return(t)
  BY DEF Alloc, At
<1>3. fd \in Fds /\ Hash(fd) \in Buckets
  BY <1>1, <1>2, HashType DEF TypeOK, CallsOK
<1>4. Found' = Found
  BY <1>2, ReturnFacts, FoundSame
<1>5. CASE UNCHANGED <<obj, htable>>
  BY <1>4, <1>5, OwnerSame DEF Serves
<1>6. ASSUME NEW s \in Cells, obj[s] = Nil, obj' = [obj EXCEPT ![s] = fd],
             htable' = [htable EXCEPT ![Hash(fd)] = @ \cup {s}]
      PROVE  Serves
  <2>1. /\ obj'[s] = fd /\ \A c \in Cells \ {s} : obj'[c] = obj[c]
        /\ htable'[Hash(fd)] = htable[Hash(fd)] \cup {s}
        /\ \A b \in Buckets \ {Hash(fd)} : htable'[b] = htable[b]
    BY <1>3, <1>6 DEF TypeOK
  <2>2. Linked(s)' /\ \A c \in Cells \ {s} : Linked(c)' <=> Linked(c)
    BY <1>3, <2>1 DEF Linked
  <2>3. Owner' = [Owner EXCEPT ![s] = fd]
    BY <2>1, <2>2 DEF Owner
  <2>4. Owner[s] = Nil
    BY <1>6 DEF Owner
  <2>5. \A c \in Cells : Owner[c] # fd
    <3>1. \A b \in Buckets : \A c \in htable[b] : obj[c] # fd
      BY <1>1, <1>2 DEF Owned, TableSound, Untabled
    <3>. QED  BY <1>3, <3>1, ClientAssumption DEF Owner, Linked
  <2>. QED  BY <1>3, <1>4, <2>3, <2>4, <2>5 DEF Serves, States!Next, States!Insert
<1>. QED  BY <1>1, <1>5, <1>6 DEF Alloc

\* LIST_REMOVE: the call found the state and it is still in the table.
LEMMA UnlinkServes ==
  ASSUME TypeOK, Owned, NEW t \in Threads, Unlink(t)
  PROVE  Serves
<1>1. PICK fd, s : fd = call[t].fd /\ s = call[t].st
  OBVIOUS
<1>2. /\ call[t].pc = "unlink" /\ Goto(t, "free") /\ UNCHANGED obj
      /\ htable' = [b \in Buckets |-> htable[b] \ {s}]
  BY <1>1 DEF Unlink, At
<1>3. /\ s \in Cells /\ obj[s] = fd /\ fd \in Fds /\ Hash(fd) \in Buckets /\ s \in htable[Hash(fd)]
  BY <1>1, <1>2, HashType DEF Owned, PointersLive, Holding, TypeOK, CallsOK
<1>4. Found' = Found
  BY <1>2, GotoFacts, FoundSame
<1>5. ~Linked(s)' /\ \A c \in Cells \ {s} : Linked(c)' <=> Linked(c)
  BY <1>2 DEF Linked
<1>6. Owner' = [Owner EXCEPT ![s] = Nil]
  BY <1>2, <1>5 DEF Owner
<1>7. Owner[s] = fd /\ Found[t].fd = fd /\ Found[t].st = s /\ s # Nil
  BY <1>1, <1>2, <1>3, ClientAssumption DEF Owner, Found, Linked
<1>. QED  BY <1>4, <1>6, <1>7 DEF Serves, States!Next, States!Remove

\* free() is of a state that was taken out.
LEMMA FreeOwner ==
  ASSUME TypeOK, Owned, NEW t \in Threads, Free(t)
  PROVE  Owner' = Owner
<1>1. PICK fd, s : fd = call[t].fd /\ s = call[t].st
  OBVIOUS
<1>2. call[t].pc = "free" /\ UNCHANGED htable /\ obj' = [obj EXCEPT ![s] = Nil]
  BY <1>1 DEF Free, At
<1>3. s \in Cells /\ obj[s] = fd
  BY <1>1, <1>2 DEF Owned, PointersLive, Holding
<1>4. ~Linked(s)
  BY <1>1, <1>2, <1>3 DEF Owned, TableSound, Untabled, Linked
<1>5. \A c \in Cells : (Linked(c)' <=> Linked(c)) /\ (Linked(c) => obj'[c] = obj[c])
  BY <1>2, <1>3, <1>4 DEF Linked, TypeOK
<1>. QED  BY <1>5 DEF Owner

\* A call finds the state if there is one.
LEMMA EnterServes ==
  ASSUME TypeOK, Owned, NEW t \in Threads, NEW fd \in Fds, NEW o, NEW k,
         NEW hit \in Pcs \ {"idle", "alloc"}, NEW miss \in Pcs \ {"idle", "alloc"},
         Enter(t, o, fd, hit, miss, k)
  PROVE  Serves
<1>1. PICK s \in Lookup(fd) :
        call' = [call EXCEPT ![t] = [pc |-> IF s = Nil THEN miss ELSE hit, op |-> o, fd |-> fd,
                                     st |-> s, then |-> k]]
  BY DEF Enter
<1>2. call[t].pc = "idle" /\ UNCHANGED <<obj, htable>>
  BY DEF Enter, At
<1>3. /\ call'[t].pc \notin {"idle", "alloc"} /\ call'[t].fd = fd /\ call'[t].st = s
      /\ \A u \in Threads \ {t} : call'[u] = call[u]
  BY <1>1 DEF TypeOK, CallsOK
<1>4. Found' = [Found EXCEPT ![t] = [fd |-> fd, st |-> s]] /\ Owner' = Owner
  BY <1>2, <1>3, FoundOne, OwnerSame
<1>5. Found[t] = [fd |-> Nil, st |-> Nil]
  BY <1>2 DEF Found
<1>6. Hash(fd) \in Buckets
  BY HashType
<1>7. CASE s = Nil
  <2>1. Matches(fd) = {}
    BY <1>1, <1>6, <1>7, ClientAssumption DEF Lookup, Matches, TypeOK
  <2>2. \A c \in Cells : Owner[c] # fd
    BY <2>1, ClientAssumption DEF Owner, Linked, Matches, Owned, TableSound
  <2>. QED  BY <1>4, <1>5, <1>7, <2>2 DEF Serves, States!Next, States!Find, States!NoResult
<1>8. CASE s # Nil
  <2>1. s \in htable[Hash(fd)] /\ obj[s] = fd
    BY <1>1, <1>8 DEF Lookup, Matches
  <2>2. s \in Cells /\ Owner[s] = fd
    BY <1>6, <2>1 DEF Owner, Linked, TypeOK
  <2>. QED  BY <1>4, <1>5, <2>2 DEF Serves, States!Next, States!Find, States!NoResult
<1>. QED  BY <1>7, <1>8

\* For any number of threads and any size of the table: in an application that
\* makes one call at a time on a descriptor, the library's table is one in which
\* a descriptor has one state at most, every call finds it, and one removes it.
THEOREM TableServesCalls ==
  ASSUME ~Overlaps
  PROVE  Spec => TableContract
<1>1. Init => States!Init
  <2>. SUFFICES ASSUME Init  PROVE States!Init
    OBVIOUS
  <2>1. \A t \in Threads : call[t].pc = "idle"
    <3>1. NoCall.pc = "idle"
      BY DEF NoCall
    <3>. QED  BY <3>1 DEF Init
  <2>2. Owner = [s \in Cells |-> Nil]
    BY DEF Init, Owner
  <2>3. Found = [t \in Threads |-> [fd |-> Nil, st |-> Nil]]
    BY <2>1 DEF Found
  <2>. QED  BY <2>2, <2>3 DEF States!Init, States!NoResult
<1>2. IInv /\ ~overlap /\ [Next]_vars => [States!Next]_(States!vars)
  <2>. SUFFICES ASSUME IInv, ~overlap, [Next]_vars  PROVE Serves
    BY DEF Serves, States!vars
  <2>1. TypeOK /\ Owned
    BY DEF IInv
  <2>2. ASSUME NEW t \in Threads, Library(t)  PROVE Serves
    <3>1. ~UseFreed(t)
      BY <2>1, PointersValid DEF UseFreed
    <3>2. CASE Alloc(t) \/ Unlink(t)
      BY <2>1, <3>2, AllocServes, UnlinkServes
    <3>3. CASE Free(t)
      BY <2>1, <2>2, <3>1, <3>3, FreeOwner, MoveServes
    <3>4. CASE ~Alloc(t) /\ ~Unlink(t) /\ ~Free(t)
      <4>1. UNCHANGED <<obj, htable>>
        BY <2>2, <3>1, <3>4 DEF Library, Redirect, SendHdr, RdHdr, RdTlv, RdErr, LConnect, LRecv, LSend,
                                LClose
      <4>. QED  BY <2>1, <2>2, <3>1, <4>1, OwnerSame, MoveServes
    <3>. QED  BY <3>2, <3>3, <3>4
  <2>3. ASSUME NEW t \in Threads, NEW fd \in Fds, Application(t, fd)  PROVE Serves
    <3>1. CASE Socket(t, fd)
      <4>1. /\ call[t].pc = "idle" /\ UNCHANGED <<obj, htable>>
            /\ call'[t].pc \in {"idle", "alloc"}
            /\ \A u \in Threads \ {t} : call'[u] = call[u]
        BY <2>1, <3>1 DEF Socket, At, TypeOK, CallsOK, NoCall
      <4>. QED  BY <4>1, OwnerSame, FoundSame DEF Serves
    <3>2. CASE RawRead(t, fd)
      BY <3>2, OwnerSame DEF RawRead, Found, Serves
    <3>3. CASE Connect(t, fd)
      BY <2>1, <3>3, EnterServes DEF Connect, Pcs
    <3>4. CASE Recv(t, fd) \/ Send(t, fd) \/ Close(t, fd)
      BY <2>1, <3>4, EnterServes DEF Recv, Send, Close, Pcs
    <3>. QED  BY <2>3, <3>1, <3>2, <3>3, <3>4 DEF Application
  <2>4. CASE UNCHANGED vars \/ \E fd \in Fds : Peer(fd)
    BY <2>4, OwnerSame DEF Peer, vars, Found, Serves
  <2>. QED  BY <2>2, <2>3, <2>4 DEF Next
<1>3. Spec => []~overlap
  BY NoOverlap
<1>. QED  BY <1>1, <1>2, <1>3, IInvAlways, PTL DEF Spec, TableContract, States!Spec
=============================================================================

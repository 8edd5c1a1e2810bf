------------------------ MODULE ConvertClientProofs ------------------------
(***************************************************************************)
(* Theorems about ConvertClient, for any number of threads, descriptors,   *)
(* heap cells and buckets.                                                 *)
(***************************************************************************)
EXTENDS ConvertClient, TLAPS

(***************************************************************************)
(* How the operators that update call keep its type.                       *)
(***************************************************************************)

\* A call that moves to another point stays a call.
LEMMA GotoType ==
  ASSUME TypeOK, NEW t \in Threads, NEW p \in Pcs, Goto(t, p), call[t].pc # "idle"
  PROVE  CallsOK'
<1>1. [call[t] EXCEPT !.pc = p] \in Calls
  BY DEF TypeOK, CallsOK, Calls
<1>2. [call[t] EXCEPT !.pc = p].fd = call[t].fd
  BY DEF TypeOK, CallsOK, Calls
<1>. QED  BY <1>1, <1>2 DEF TypeOK, CallsOK, Goto

\* A thread whose call returns is in no call.
LEMMA ReturnType ==
  ASSUME TypeOK, NEW t \in Threads, Return(t)
  PROVE  CallsOK'
<1>1. NoCall \in Calls
  BY DEF Calls, NoCall, Pcs, Conts
<1>2. NoCall.pc = "idle"
  BY DEF NoCall
<1>. QED  BY <1>1, <1>2 DEF TypeOK, CallsOK, Return

\* Going to _free_state keeps a call a call.
LEMMA FreeThenType ==
  ASSUME TypeOK, NEW t \in Threads, NEW k \in Conts, FreeThen(t, k), call[t].pc # "idle"
  PROVE  CallsOK'
<1>. call[t] \in Calls
  BY DEF TypeOK, CallsOK
<1>1. [call[t] EXCEPT !.pc = "unlink", !.then = k] \in Calls
  BY DEF Calls, Pcs
<1>2. [call[t] EXCEPT !.pc = "unlink", !.then = k].fd = call[t].fd
  BY DEF TypeOK, CallsOK, Calls
<1>. QED  BY <1>1, <1>2 DEF TypeOK, CallsOK, FreeThen

\* _hash yields an index of the table.
LEMMA HashType ==
  ASSUME NEW fd \in Fds
  PROVE  Hash(fd) \in Buckets
BY ClientAssumption DEF Hash, Buckets

\* A thread that may use its pointer holds an allocated state.
LEMMA ValidType ==
  ASSUME TypeOK, NEW t \in Threads, Valid(t)
  PROVE  call[t].st \in Cells /\ obj[call[t].st] \in Fds
BY DEF TypeOK, CallsOK, Valid, Calls

\* The initial state has the declared types.
LEMMA TypeInit == Init => TypeOK
<1>1. FreshSock \in Sock
  BY DEF FreshSock, Sock
<1>2. NoCall \in Calls
  BY DEF NoCall, Calls, Pcs, Conts
<1>3. Init => overlap \in BOOLEAN /\ memerr \in BOOLEAN /\ exposed \in SUBSET Fds
  BY DEF Init
<1>4. Init => /\ net \in [Fds -> Sock] /\ call \in [Threads -> Calls]
              /\ obj \in [Cells -> Fds \cup {Nil}]
              /\ htable \in [Buckets -> SUBSET Cells]
  BY <1>1, <1>2 DEF Init
<1>5. Init => /\ kind \in [Fds -> {"closed", "mptcp", "other"}]
              /\ told \in [Fds -> {"nothing", "connected", "failed"}]
              /\ verdict \in [Fds -> {"none", "accepted", "rejected"}]
  BY DEF Init
<1>6. Init => \A t \in Threads : call[t].pc = "idle"
  <2>1. NoCall.pc = "idle"
    BY DEF NoCall
  <2>. QED  BY <2>1 DEF Init
<1>. QED  BY <1>3, <1>4, <1>5, <1>6 DEF TypeOK, CallsOK

(***************************************************************************)
(* Every step keeps the types: one step of the proof per action.           *)
(***************************************************************************)

\* Connecting a socket keeps its type.
LEMMA AttachType ==
  ASSUME TypeOK, NEW fd \in Fds, NEW p \in {"none", "converter", "server"}, Attach(fd, p)
  PROVE  net' \in [Fds -> Sock]
<1>1. net[fd] \in Sock /\ net \in [Fds -> Sock]
  BY DEF TypeOK
<1>. QED  BY <1>1 DEF Attach, Sock

\* Writing to a socket keeps its type.
LEMMA PutType ==
  ASSUME TypeOK, NEW fd \in Fds, NEW x \in {"hdr", "data"}, Put(fd, x)
  PROVE  net' \in [Fds -> Sock]
<1>1. net[fd] \in Sock /\ net \in [Fds -> Sock]
  BY DEF TypeOK
<1>2. Append(net[fd].sent, x) \in Seq({"hdr", "data"})
  BY <1>1 DEF Sock
<1>. QED  BY <1>1, <1>2 DEF Put, Sock

\* Reading from a socket keeps its type.
LEMMA TakeType ==
  ASSUME TypeOK, NEW fd \in Fds, Take(fd)
  PROVE  net' \in [Fds -> Sock]
<1>1. net[fd] \in Sock /\ net \in [Fds -> Sock]
  BY DEF TypeOK
<1>2. Tail(net[fd].rq) \in Seq(Chunk)
  BY <1>1 DEF Sock, Take
<1>. QED  BY <1>1, <1>2 DEF Take, Sock

\* Setting the linger option keeps the type of a socket.
LEMMA SetNoLingerType ==
  ASSUME TypeOK, NEW fd \in Fds, SetNoLinger(fd)
  PROVE  net' \in [Fds -> Sock]
<1>1. net[fd] \in Sock /\ net \in [Fds -> Sock]
  BY DEF TypeOK
<1>. QED  BY <1>1 DEF SetNoLinger, Sock

\* A socket that was just created is a socket.
LEMMA FreshType == FreshSock \in Sock
BY DEF FreshSock, Sock

\* The answer of a Converter keeps the type of its socket.
LEMMA AnswerType ==
  ASSUME TypeOK, NEW fd \in Fds, Answer(fd)
  PROVE  net' \in [Fds -> Sock]
<1>1. PICK r \in Replies :
        net' = [net EXCEPT ![fd] = [net[fd] EXCEPT !.rq = net[fd].rq \o r,
                  !.answer = IF Accepting(r) THEN "accept" ELSE "refuse"]]
  BY DEF Answer, TypeOK
<1>2. net[fd] \in Sock /\ net \in [Fds -> Sock]
  BY DEF TypeOK
<1>3. r \in Seq(Chunk)
  BY ClientAssumption
<1>4. net[fd].rq \o r \in Seq(Chunk)
  BY <1>2, <1>3 DEF Sock
<1>5. (IF Accepting(r) THEN "accept" ELSE "refuse") \in {"none", "accept", "refuse"}
  OBVIOUS
<1>6. [net[fd] EXCEPT !.rq = net[fd].rq \o r,
         !.answer = IF Accepting(r) THEN "accept" ELSE "refuse"] \in Sock
  BY <1>2, <1>4, <1>5 DEF Sock
<1>. QED  BY <1>1, <1>2, <1>6

\* Entering a call, which _lookup begins, keeps the types.
LEMMA EnterType ==
  ASSUME TypeOK, NEW t \in Threads, NEW fd \in Fds, NEW hit \in Pcs, NEW miss \in Pcs,
         NEW o \in {"connect", "recv", "send", "close"}, NEW k \in Conts,
         Enter(t, o, fd, hit, miss, k)
  PROVE  TypeOK'
<1>1. PICK s \in Lookup(fd) :
        call' = [call EXCEPT ![t] =
                   [pc |-> IF s = Nil THEN miss ELSE hit, op |-> o, fd |-> fd,
                    st |-> s, then |-> k]]
  BY DEF Enter
<1>2. s \in Cells \cup {Nil}
  BY HashType DEF Lookup, Matches, TypeOK
<1>3. [pc |-> IF s = Nil THEN miss ELSE hit, op |-> o, fd |-> fd,
       st |-> s, then |-> k] \in Calls
  BY <1>2 DEF Calls
<1>4. CallsOK'
  BY <1>1, <1>3 DEF TypeOK, CallsOK
<1>5. overlap' \in BOOLEAN
  BY DEF Enter, TypeOK
<1>. QED  BY <1>4, <1>5 DEF TypeOK, Enter

\* Every step of the specification keeps the types.
LEMMA TypeStep == TypeOK /\ [Next]_vars => TypeOK'
<1>. SUFFICES ASSUME TypeOK, [Next]_vars
              PROVE  TypeOK'
  OBVIOUS
<1>1. ASSUME NEW t \in Threads, Alloc(t)
      PROVE  TypeOK'
  <2>1. CallsOK'
    BY <1>1, ReturnType DEF Alloc
  <2>2. call[t].fd \in Fds
    BY <1>1 DEF Alloc, At, TypeOK, CallsOK
  <2>3. obj' \in [Cells -> Fds \cup {Nil}] /\ htable' \in [Buckets -> SUBSET Cells]
    BY <1>1, <2>2 DEF Alloc, TypeOK
  <2>. QED  BY <1>1, <2>1, <2>3 DEF Alloc, TypeOK
<1>2. ASSUME NEW t \in Threads, Redirect(t)
      PROVE  TypeOK'
  <2>1. CallsOK'
    BY <1>2, GotoType, FreeThenType DEF At, Redirect, Pcs, Conts
  <2>2. obj[call[t].st] \in Fds
    BY <1>2, ValidType DEF Redirect
  <2>3. net' \in [Fds -> Sock]
    BY <1>2, <2>2, AttachType DEF Redirect, TypeOK
  <2>. QED  BY <1>2, <2>1, <2>3 DEF Redirect, TypeOK
<1>3. ASSUME NEW t \in Threads, SendHdr(t)
      PROVE  TypeOK'
  <2>1. CallsOK'
    BY <1>3, GotoType, FreeThenType DEF At, SendHdr, Pcs, Conts
  <2>2. obj[call[t].st] \in Fds
    BY <1>3, ValidType DEF SendHdr
  <2>3. net' \in [Fds -> Sock]
    BY <1>3, <2>2, PutType DEF SendHdr, TypeOK
  <2>. QED  BY <1>3, <2>1, <2>3 DEF SendHdr, TypeOK
<1>4. ASSUME NEW t \in Threads, RdHdr(t)
      PROVE  TypeOK'
  <2>1. CallsOK'
    BY <1>4, GotoType, FreeThenType, ReturnType DEF At, RdHdr, Pcs, Conts
  <2>2. obj[call[t].st] \in Fds
    BY <1>4, ValidType DEF RdHdr
  <2>3. net' \in [Fds -> Sock]
    BY <1>4, <2>2, TakeType DEF RdHdr, TypeOK
  <2>4. /\ told' \in [Fds -> {"nothing", "connected", "failed"}]
        /\ verdict' \in [Fds -> {"none", "accepted", "rejected"}]
    BY <1>4, <2>2 DEF RdHdr, Skipped, TypeOK
  <2>. QED  BY <1>4, <2>1, <2>3, <2>4 DEF RdHdr, TypeOK
<1>5. ASSUME NEW t \in Threads, RdTlv(t)
      PROVE  TypeOK'
  <2>. call[t] \in Calls
    BY DEF TypeOK, CallsOK
  <2>2. CallsOK'
    <3>1. CASE Goto(t, "rderr")
      BY <1>5, <3>1, GotoType DEF RdTlv, At, Pcs
    <3>2. CASE FreeThen(t, "run")
      BY <1>5, <3>2, FreeThenType DEF RdTlv, At, Conts
    <3>. QED  BY <1>5, <3>1, <3>2 DEF RdTlv
  <2>3. obj[call[t].st] \in Fds
    BY <1>5, ValidType DEF RdTlv
  <2>4. net' \in [Fds -> Sock]
    BY <1>5, <2>3, TakeType DEF RdTlv, TypeOK
  <2>5. verdict' \in [Fds -> {"none", "accepted", "rejected"}]
    BY <1>5, <2>3 DEF RdTlv, TypeOK
  <2>. QED  BY <1>5, <2>2, <2>4, <2>5 DEF RdTlv, TypeOK
<1>6. ASSUME NEW t \in Threads, RdErr(t)
      PROVE  TypeOK'
  <2>1. CallsOK'
    BY <1>6, FreeThenType DEF At, RdErr, Conts
  <2>2. obj[call[t].st] \in Fds
    BY <1>6, ValidType DEF RdErr
  <2>3. net' \in [Fds -> Sock]
    BY <1>6, <2>2, SetNoLingerType DEF RdErr
  <2>4. verdict' \in [Fds -> {"none", "accepted", "rejected"}]
    BY <1>6, <2>2 DEF RdErr, TypeOK
  <2>. QED  BY <1>6, <2>1, <2>3, <2>4 DEF RdErr, TypeOK
<1>7. ASSUME NEW t \in Threads, Unlink(t)
      PROVE  TypeOK'
  <2>1. CallsOK'
    BY <1>7, GotoType DEF At, Unlink, Pcs
  <2>2. htable' \in [Buckets -> SUBSET Cells]
    BY <1>7 DEF Unlink, TypeOK
  <2>. QED  BY <1>7, <2>1, <2>2 DEF Unlink, TypeOK
<1>8. ASSUME NEW t \in Threads, Free(t)
      PROVE  TypeOK'
  <2>1. CallsOK'
    BY <1>8, GotoType, ReturnType DEF At, Free, AfterRun, Pcs
  <2>2. obj' \in [Cells -> Fds \cup {Nil}]
    BY <1>8 DEF Free, TypeOK
  <2>3. told' \in [Fds -> {"nothing", "connected", "failed"}]
    BY <1>8 DEF Free, Skipped, TypeOK
  <2>. QED  BY <1>8, <2>1, <2>2, <2>3 DEF Free, TypeOK
<1>9. ASSUME NEW t \in Threads, UseFreed(t)
      PROVE  TypeOK'
  <2>1. memerr' \in BOOLEAN
    BY <1>9 DEF UseFreed
  <2>. QED  BY <1>9, <2>1 DEF UseFreed, TypeOK, CallsOK
<1>10. ASSUME NEW t \in Threads, LConnect(t)
       PROVE  TypeOK'
  <2>1. CallsOK'
    BY <1>10, ReturnType DEF LConnect
  <2>2. net' \in [Fds -> Sock]
    <3>1. call[t].fd \in Fds
      BY <1>10 DEF LConnect, At, TypeOK, CallsOK
    <3>. QED  BY <1>10, <3>1, AttachType DEF LConnect, TypeOK
  <2>3. told' \in [Fds -> {"nothing", "connected", "failed"}]
    BY <1>10 DEF LConnect, TypeOK
  <2>. QED  BY <1>10, <2>1, <2>2, <2>3 DEF LConnect, TypeOK
<1>11. ASSUME NEW t \in Threads, NEW fd \in Fds, RawRead(t, fd)
       PROVE  TypeOK'
  <2>1. net' \in [Fds -> Sock]
    BY <1>11, TakeType DEF RawRead, Deliver
  <2>. QED  BY <1>11, <2>1 DEF RawRead, Deliver, TypeOK, CallsOK
<1>12. ASSUME NEW t \in Threads, LRecv(t) \/ LSend(t) \/ LClose(t)
       PROVE  TypeOK'
  <2>1. CallsOK'
    BY <1>12, ReturnType DEF LRecv, LSend, LClose
  <2>2. call[t].fd \in Fds
    BY <1>12 DEF LRecv, LSend, LClose, At, TypeOK, CallsOK
  <2>3. CASE LRecv(t)
    <3>1. net' \in [Fds -> Sock]
      BY <2>2, <2>3, TakeType DEF LRecv, Deliver, TypeOK
    <3>. QED  BY <2>1, <2>2, <2>3, <3>1 DEF LRecv, Deliver, TypeOK
  <2>4. CASE LSend(t)
    <3>1. net' \in [Fds -> Sock]
      BY <2>2, <2>4, PutType DEF LSend, TypeOK
    <3>. QED  BY <2>1, <2>4, <3>1 DEF LSend, TypeOK
  <2>5. CASE LClose(t)
    BY <2>1, <2>2, <2>5, FreshType DEF LClose, TypeOK
  <2>. QED  BY <1>12, <2>3, <2>4, <2>5
<1>13. ASSUME NEW t \in Threads, NEW fd \in Fds, Socket(t, fd)
       PROVE  TypeOK'
  <2>1. [NoCall EXCEPT !.pc = "alloc", !.op = "socket", !.fd = fd] \in Calls
    BY DEF NoCall, Calls, Pcs, Conts
  <2>2. CallsOK'
    BY <1>13, <2>1 DEF Socket, TypeOK, CallsOK, NoCall
  <2>3. net' \in [Fds -> Sock]
    BY <1>13, FreshType DEF Socket, TypeOK
  <2>. QED  BY <1>13, <2>2, <2>3 DEF Socket, TypeOK
<1>14. ASSUME NEW t \in Threads, NEW fd \in Fds,
              Connect(t, fd) \/ Recv(t, fd) \/ Send(t, fd) \/ Close(t, fd)
       PROVE  TypeOK'
  BY <1>14, EnterType DEF Connect, Recv, Send, Close, Pcs, Conts
<1>15. CASE UNCHANGED vars
  BY <1>15 DEF vars, TypeOK, CallsOK
<1>16. CASE \E t \in Threads : Library(t)
  BY <1>1, <1>2, <1>3, <1>4, <1>5, <1>6, <1>7, <1>8, <1>9, <1>10, <1>12, <1>16, Zenon
     DEF Library
<1>17. CASE \E t \in Threads, fd \in Fds : Application(t, fd)
  BY <1>11, <1>13, <1>14, <1>17, Zenon DEF Application
<1>18. ASSUME NEW fd \in Fds, Peer(fd)
       PROVE  TypeOK'
  <2>1. net' \in [Fds -> Sock]
    <3>1. CASE PeerData(fd)
      <4>1. net[fd] \in Sock
        BY DEF TypeOK
      <4>2. Append(net[fd].rq, "data") \in Seq(Chunk)
        BY <4>1 DEF Sock, Chunk
      <4>. QED  BY <3>1, <4>1, <4>2 DEF PeerData, TypeOK, Sock
    <3>2. CASE PeerClose(fd)
      <4>1. net[fd] \in Sock /\ net \in [Fds -> Sock]
        BY DEF TypeOK
      <4>2. [net[fd] EXCEPT !.eof = TRUE] \in Sock
        BY <4>1 DEF Sock
      <4>. QED  BY <3>2, <4>1, <4>2 DEF PeerClose
    <3>. QED  BY <1>18, <3>1, <3>2, AnswerType DEF Peer
  <2>. QED  BY <1>18, <2>1 DEF Peer, TypeOK, CallsOK
<1>. QED
  BY <1>15, <1>16, <1>17, <1>18 DEF Next

\* The variables of the library and of the kernel always have their types; in
\* particular a thread inside a call always has a descriptor to make it on.
THEOREM TypeCorrect == Spec => []TypeOK
BY TypeInit, TypeStep, PTL DEF Spec

-----------------------------------------------------------------------------
(***************************************************************************)
(* Memory safety.  As long as no two calls overlap on a descriptor, each   *)
(* state has one owner: the call in progress on its descriptor, if any.    *)
(***************************************************************************)

\* Two calls in progress are on different descriptors.
Exclusive ==
  \A t, u \in Threads :
    t # u /\ call[t].pc # "idle" /\ call[u].pc # "idle" => call[t].fd # call[u].fd

\* The descriptor of a call in progress is open.
CallsOnOpen ==
  \A t \in Threads :
    /\ call[t].pc # "idle" => kind[call[t].fd] # "closed"
    /\ call[t].pc = "alloc" => kind[call[t].fd] = "mptcp" /\ verdict[call[t].fd] = "none"

\* The states in the table are those of open MPTCP sockets, in their bucket.
TableSound ==
  \A b \in Buckets : \A s \in htable[b] :
    obj[s] # Nil /\ b = Hash(obj[s]) /\ kind[obj[s]] = "mptcp"

\* No two of them are of the same descriptor.
TableInjective ==
  \A b, c \in Buckets : \A s \in htable[b], u \in htable[c] : obj[s] = obj[u] => s = u

\* A call that holds a pointer holds the state of its own descriptor, which is
\* in the table until the call itself takes it out.
PointersLive ==
  \A t \in Threads : call[t].pc \in Holding =>
    /\ call[t].st \in Cells /\ obj[call[t].st] = call[t].fd
    /\ call[t].pc # "free" => call[t].st \in htable[Hash(call[t].fd)]

\* At these points the descriptor has no state in the table.
Untabled ==
  \A t \in Threads : call[t].pc \in {"alloc", "free", "lclose"} =>
    \A s \in htable[Hash(call[t].fd)] : obj[s] # call[t].fd

\* A state not in the table is held by the call about to free it.
NoLost ==
  \A s \in Cells : obj[s] # Nil =>
    \/ s \in htable[Hash(obj[s])]
    \/ \E t \in Threads : call[t].pc = "free" /\ call[t].st = s

\* A judged descriptor that still has a state is about to lose it.
JudgedLeaving ==
  \A fd \in Fds : verdict[fd] # "none" =>
    \A s \in htable[Hash(fd)] : obj[s] = fd =>
      \E t \in Threads : call[t].pc = "unlink" /\ call[t].fd = fd

Owned == /\ Exclusive /\ CallsOnOpen /\ TableSound /\ TableInjective
         /\ PointersLive /\ Untabled /\ NoLost /\ JudgedLeaving

IInv == TypeOK /\ (memerr => overlap) /\ (~overlap => Owned)

(***************************************************************************)
(* What the operators that update call change.                             *)
(***************************************************************************)

\* Goto moves one thread and keeps its descriptor and its pointer.
LEMMA GotoFacts ==
  ASSUME TypeOK, NEW t \in Threads, NEW p, Goto(t, p)
  PROVE  /\ call'[t].pc = p /\ call'[t].fd = call[t].fd /\ call'[t].st = call[t].st
         /\ \A u \in Threads \ {t} : call'[u] = call[u]
BY DEF TypeOK, CallsOK, Calls, Goto

\* So does FreeThen.
LEMMA FreeThenFacts ==
  ASSUME TypeOK, NEW t \in Threads, NEW k, FreeThen(t, k)
  PROVE  /\ call'[t].pc = "unlink" /\ call'[t].fd = call[t].fd
         /\ call'[t].st = call[t].st
         /\ \A u \in Threads \ {t} : call'[u] = call[u]
BY DEF TypeOK, CallsOK, Calls, FreeThen

\* Return leaves one thread idle.
LEMMA ReturnFacts ==
  ASSUME TypeOK, NEW t \in Threads, Return(t)
  PROVE  /\ call'[t].pc = "idle"
         /\ \A u \in Threads \ {t} : call'[u] = call[u]
<1>1. NoCall.pc = "idle"
  BY DEF NoCall
<1>. QED  BY <1>1 DEF TypeOK, CallsOK, Return

(***************************************************************************)
(* How each kind of step keeps Owned.                                      *)
(***************************************************************************)

\* A step inside a call that leaves the table and the descriptors alone.  It
\* may judge the answer of its own descriptor if it goes on to free the state.
LEMMA MoveKeeps ==
  ASSUME TypeOK, Owned, NEW t \in Threads,
         call[t].pc \notin {"idle", "unlink", "free"},
         UNCHANGED <<kind, obj, htable>>,
         \A u \in Threads \ {t} : call'[u] = call[u],
         \/ call'[t].pc = "idle"
         \/ /\ call'[t].fd = call[t].fd /\ call'[t].st = call[t].st
            /\ call'[t].pc \notin {"alloc", "free", "lclose"}
            /\ call'[t].pc \in Holding => call[t].pc \in Holding,
         \A fd \in Fds : \/ verdict'[fd] = verdict[fd]
                         \/ fd = call[t].fd /\ call'[t].pc = "unlink"
  PROVE  Owned'
<1>. USE DEF Owned
<1>. call[t].fd \in Fds
  BY DEF TypeOK, CallsOK
<1>1. Exclusive'
  BY DEF Exclusive
<1>2. CallsOnOpen'
  <2>. SUFFICES ASSUME NEW u \in Threads
                PROVE  /\ call'[u].pc # "idle" => kind'[call'[u].fd] # "closed"
                       /\ call'[u].pc = "alloc" => /\ kind'[call'[u].fd] = "mptcp"
                                                   /\ verdict'[call'[u].fd] = "none"
    BY DEF CallsOnOpen
  <2>1. CASE u = t
    BY <2>1 DEF CallsOnOpen
  <2>2. CASE u # t /\ call[u].pc # "idle"
    <3>1. call[u].fd \in Fds /\ call[u].fd # call[t].fd
      BY <2>2 DEF TypeOK, CallsOK, Exclusive
    <3>. QED  BY <2>2, <3>1 DEF CallsOnOpen
  <2>. QED  BY <2>1, <2>2
<1>3. TableSound' /\ TableInjective'
  BY DEF TableSound, TableInjective
<1>4. PointersLive'
  BY DEF PointersLive, Holding
<1>5. Untabled'
  BY DEF Untabled
<1>6. NoLost'
  BY DEF NoLost
<1>7. JudgedLeaving'
  <2>. SUFFICES ASSUME NEW fd \in Fds, verdict'[fd] # "none",
                       NEW s \in htable[Hash(fd)], obj[s] = fd
                PROVE  \E u \in Threads : call'[u].pc = "unlink" /\ call'[u].fd = fd
    BY DEF JudgedLeaving
  <2>1. CASE fd = call[t].fd /\ call'[t].pc = "unlink"
    BY <2>1
  <2>2. CASE verdict'[fd] = verdict[fd]
    <3>1. PICK u \in Threads : call[u].pc = "unlink" /\ call[u].fd = fd
      BY <2>2 DEF JudgedLeaving
    <3>. QED  BY <3>1
  <2>. QED  BY <2>1, <2>2
<1>. QED  BY <1>1, <1>2, <1>3, <1>4, <1>5, <1>6, <1>7

\* A step that changes neither the table, nor the descriptors, nor a call.
LEMMA IdleKeeps ==
  ASSUME Owned, UNCHANGED <<kind, obj, htable, call, verdict>>
  PROVE  Owned'
BY DEF Owned, Exclusive, CallsOnOpen, TableSound, TableInjective, PointersLive,
       Untabled, NoLost, JudgedLeaving

\* Entering a call on a descriptor no other call is on.
LEMMA EnterKeeps ==
  ASSUME TypeOK, Owned, NEW t \in Threads, NEW fd \in Fds,
         NEW hit \in Holding \ {"free"}, NEW miss \in {"lconnect", "lrecv", "lsend", "lclose"},
         NEW o, NEW k, Enter(t, o, fd, hit, miss, k), ~overlap'
  PROVE  Owned'
<1>. USE DEF Owned
<1>1. PICK s \in Lookup(fd) :
        call' = [call EXCEPT ![t] =
                   [pc |-> IF s = Nil THEN miss ELSE hit, op |-> o, fd |-> fd,
                    st |-> s, then |-> k]]
  BY DEF Enter
<1>2. /\ call'[t].pc = IF s = Nil THEN miss ELSE hit
      /\ call'[t].fd = fd /\ call'[t].st = s
      /\ \A u \in Threads \ {t} : call'[u] = call[u]
  BY <1>1 DEF TypeOK, CallsOK
<1>3. /\ call[t].pc = "idle" /\ kind[fd] # "closed"
      /\ UNCHANGED <<kind, obj, htable, verdict>>
      /\ \A u \in Threads \ {t} : call[u].pc # "idle" => call[u].fd # fd
  BY DEF Enter, At, InUse
<1>4. \/ s = Nil /\ \A c \in htable[Hash(fd)] : obj[c] # fd
      \/ s # Nil /\ s \in htable[Hash(fd)] /\ s \in Cells /\ obj[s] = fd
  BY HashType, ClientAssumption DEF Lookup, Matches, TypeOK
<1>5. Exclusive' /\ CallsOnOpen'
  BY <1>2, <1>3 DEF Exclusive, CallsOnOpen, Holding
<1>6. TableSound' /\ TableInjective'
  BY <1>3 DEF TableSound, TableInjective
<1>7. PointersLive'
  BY <1>2, <1>3, <1>4 DEF PointersLive, Holding
<1>8. Untabled'
  BY <1>2, <1>3, <1>4 DEF Untabled, Holding
<1>9. NoLost'
  BY <1>2, <1>3 DEF NoLost
<1>10. JudgedLeaving'
  BY <1>2, <1>3 DEF JudgedLeaving
<1>. QED  BY <1>5, <1>6, <1>7, <1>8, <1>9, <1>10

\* The kernel hands out a descriptor number.
LEMMA SocketKeeps ==
  ASSUME TypeOK, Owned, NEW t \in Threads, NEW fd \in Fds, Socket(t, fd)
  PROVE  Owned'
<1>. USE DEF Owned
<1>1. PICK k \in {"mptcp", "other"} :
        /\ kind' = [kind EXCEPT ![fd] = k]
        /\ call' = IF k = "other" THEN call ELSE
                   [call EXCEPT ![t] = [NoCall EXCEPT !.pc = "alloc",
                                        !.op = "socket", !.fd = fd]]
  BY DEF Socket
<1>2. /\ \A u \in Threads \ {t} : call'[u] = call[u]
      /\ k = "other" => call'[t] = call[t]
      /\ k = "mptcp" => call'[t].pc = "alloc" /\ call'[t].fd = fd
  BY <1>1 DEF TypeOK, CallsOK, NoCall
<1>3. /\ kind[fd] = "closed" /\ kind'[fd] = k
      /\ \A f \in Fds \ {fd} : kind'[f] = kind[f] /\ verdict'[f] = verdict[f]
      /\ verdict'[fd] = "none" /\ UNCHANGED <<obj, htable>> /\ call[t].pc = "idle"
  BY <1>1 DEF Socket, At, TypeOK
<1>4. \A u \in Threads : call[u].pc # "idle" => call[u].fd \in Fds \ {fd}
  BY <1>3 DEF CallsOnOpen, TypeOK, CallsOK
<1>5. \A b \in Buckets : \A s \in htable[b] : obj[s] \in Fds \ {fd}
  BY <1>3 DEF TableSound, TypeOK
<1>6. Exclusive' /\ CallsOnOpen'
  BY <1>2, <1>3, <1>4 DEF Exclusive, CallsOnOpen
<1>7. TableSound' /\ TableInjective'
  BY <1>3, <1>5 DEF TableSound, TableInjective
<1>8. PointersLive'
  BY <1>2, <1>3, <1>4 DEF PointersLive, Holding
<1>9. Untabled'
  <2>1. \A s \in htable[Hash(fd)] : obj[s] # fd
    BY <1>5, HashType
  <2>. QED  BY <1>2, <1>3, <1>4, <2>1 DEF Untabled
<1>10. NoLost'
  BY <1>2, <1>3 DEF NoLost
<1>11. JudgedLeaving'
  BY <1>2, <1>3 DEF JudgedLeaving
<1>. QED  BY <1>6, <1>7, <1>8, <1>9, <1>10, <1>11

\* _alloc links a state for a descriptor that has none, or fails.
LEMMA AllocKeeps ==
  ASSUME TypeOK, Owned, NEW t \in Threads, Alloc(t)
  PROVE  Owned'
<1>. USE DEF Owned
<1>. DEFINE fd == call[t].fd
<1>1. /\ call'[t].pc = "idle"
      /\ \A u \in Threads \ {t} : call'[u] = call[u]
      /\ call[t].pc = "alloc" /\ UNCHANGED <<kind, verdict>>
  BY ReturnFacts DEF Alloc, At
<1>2. fd \in Fds /\ Hash(fd) \in Buckets
  BY <1>1, HashType DEF TypeOK, CallsOK
<1>3. CASE UNCHANGED <<obj, htable>>
  BY <1>1, <1>3, MoveKeeps
<1>4. ASSUME NEW s \in Cells, obj[s] = Nil, obj' = [obj EXCEPT ![s] = fd],
             htable' = [htable EXCEPT ![Hash(fd)] = @ \cup {s}]
      PROVE  Owned'
  <2>1. /\ obj'[s] = fd /\ \A c \in Cells \ {s} : obj'[c] = obj[c]
        /\ htable'[Hash(fd)] = htable[Hash(fd)] \cup {s}
        /\ \A b \in Buckets \ {Hash(fd)} : htable'[b] = htable[b]
    BY <1>2, <1>4 DEF TypeOK
  <2>2. \A b \in Buckets : htable[b] \subseteq Cells \ {s}
    BY <1>4 DEF TableSound, TypeOK
  <2>3. \A b \in Buckets : \A c \in htable[b] : obj[c] # fd
    BY <1>1 DEF TableSound, Untabled
  <2>4. Exclusive' /\ CallsOnOpen'
    BY <1>1 DEF Exclusive, CallsOnOpen
  <2>5. TableSound'
    BY <1>1, <1>2, <2>1, <2>2, ClientAssumption DEF TableSound, CallsOnOpen
  <2>6. TableInjective'
    BY <2>1, <2>2, <2>3 DEF TableInjective
  <2>7. \A u \in Threads \ {t} : call[u].pc # "idle" =>
          call[u].fd \in Fds /\ call[u].fd # fd /\ Hash(call[u].fd) \in Buckets
    BY <1>1, HashType DEF Exclusive, TypeOK, CallsOK
  <2>8. PointersLive'
    BY <1>1, <1>4, <2>1, <2>7, ClientAssumption DEF PointersLive, Holding
  <2>9. Untabled'
    BY <1>1, <2>1, <2>2, <2>7 DEF Untabled
  <2>10. NoLost'
    <3>. SUFFICES ASSUME NEW c \in Cells, obj'[c] # Nil
                  PROVE  \/ c \in htable'[Hash(obj'[c])]
                         \/ \E u \in Threads : call'[u].pc = "free" /\ call'[u].st = c
      BY DEF NoLost
    <3>1. CASE c = s
      BY <2>1, <3>1
    <3>2. CASE c # s /\ c \in htable[Hash(obj[c])]
      <4>1. Hash(obj[c]) \in Buckets
        BY <2>1, <3>2, HashType DEF TypeOK
      <4>. QED  BY <2>1, <3>2, <4>1
    <3>3. CASE c # s /\ \E u \in Threads : call[u].pc = "free" /\ call[u].st = c
      BY <1>1, <3>3
    <3>. QED  BY <2>1, <3>1, <3>2, <3>3 DEF NoLost
  <2>11. JudgedLeaving'
    <3>. SUFFICES ASSUME NEW f \in Fds, verdict[f] # "none",
                         NEW c \in htable'[Hash(f)], obj'[c] = f
                  PROVE  \E u \in Threads : call'[u].pc = "unlink" /\ call'[u].fd = f
      BY <1>1 DEF JudgedLeaving
    <3>1. f # fd
      BY <1>1 DEF CallsOnOpen
    <3>2. Hash(f) \in Buckets /\ c # s
      BY <2>1, <3>1, HashType
    <3>3. c \in htable[Hash(f)] /\ obj[c] = f
      BY <2>1, <2>2, <3>2
    <3>4. PICK u \in Threads : call[u].pc = "unlink" /\ call[u].fd = f
      BY <3>3 DEF JudgedLeaving
    <3>. QED  BY <1>1, <3>4
  <2>. QED  BY <2>4, <2>5, <2>6, <2>8, <2>9, <2>10, <2>11
<1>. QED  BY <1>3, <1>4 DEF Alloc

\* LIST_REMOVE takes the state of the call's own descriptor out of the table.
LEMMA UnlinkKeeps ==
  ASSUME TypeOK, Owned, NEW t \in Threads, Unlink(t)
  PROVE  Owned'
<1>. USE DEF Owned
<1>. DEFINE fd == call[t].fd
            st == call[t].st
<1>1. /\ call'[t].pc = "free" /\ call'[t].fd = fd /\ call'[t].st = st
      /\ \A u \in Threads \ {t} : call'[u] = call[u]
      /\ call[t].pc = "unlink" /\ UNCHANGED <<kind, obj, verdict>>
      /\ \A b \in Buckets : htable'[b] = htable[b] \ {st}
  BY GotoFacts DEF Unlink, At
<1>2. /\ fd \in Fds /\ Hash(fd) \in Buckets
      /\ st \in Cells /\ obj[st] = fd /\ st \in htable[Hash(fd)]
  BY <1>1, HashType DEF TypeOK, CallsOK, PointersLive, Holding
<1>3. \A u \in Threads \ {t} : call[u].pc # "idle" =>
        call[u].fd \in Fds /\ call[u].fd # fd /\ Hash(call[u].fd) \in Buckets
  BY <1>1, HashType DEF Exclusive, TypeOK, CallsOK
<1>4. Exclusive' /\ CallsOnOpen'
  BY <1>1 DEF Exclusive, CallsOnOpen
<1>5. TableSound' /\ TableInjective'
  BY <1>1 DEF TableSound, TableInjective
<1>6. PointersLive'
  BY <1>1, <1>2, <1>3 DEF PointersLive, Holding
<1>7. Untabled'
  BY <1>1, <1>2, <1>3 DEF Untabled, TableInjective
<1>8. NoLost'
  <2>. SUFFICES ASSUME NEW c \in Cells, obj[c] # Nil
                PROVE  \/ c \in htable'[Hash(obj[c])]
                       \/ \E u \in Threads : call'[u].pc = "free" /\ call'[u].st = c
    BY <1>1 DEF NoLost
  <2>1. Hash(obj[c]) \in Buckets
    BY HashType DEF TypeOK
  <2>2. CASE c = st
    BY <1>1, <2>2
  <2>3. CASE c # st /\ c \in htable[Hash(obj[c])]
    BY <1>1, <2>1, <2>3
  <2>4. CASE \E u \in Threads : call[u].pc = "free" /\ call[u].st = c
    BY <1>1, <2>4
  <2>. QED  BY <2>2, <2>3, <2>4 DEF NoLost
<1>9. JudgedLeaving'
  <2>. SUFFICES ASSUME NEW f \in Fds, verdict[f] # "none",
                       NEW c \in htable'[Hash(f)], obj[c] = f
                PROVE  \E u \in Threads : call'[u].pc = "unlink" /\ call'[u].fd = f
    BY <1>1 DEF JudgedLeaving
  <2>1. Hash(f) \in Buckets /\ c \in htable[Hash(f)] /\ c # st
    BY <1>1, HashType
  <2>2. f # fd
    BY <1>2, <2>1 DEF TableInjective
  <2>3. PICK u \in Threads : call[u].pc = "unlink" /\ call[u].fd = f
    BY <2>1 DEF JudgedLeaving
  <2>. QED  BY <1>1, <2>2, <2>3
<1>. QED  BY <1>4, <1>5, <1>6, <1>7, <1>8, <1>9

\* free() releases a state that no other call and no bucket refers to.
LEMMA FreeKeeps ==
  ASSUME TypeOK, Owned, NEW t \in Threads, Free(t)
  PROVE  Owned'
<1>. USE DEF Owned
<1>. DEFINE fd == call[t].fd
            st == call[t].st
<1>1. /\ call[t].pc = "free" /\ UNCHANGED <<kind, htable, verdict>>
      /\ obj' = [obj EXCEPT ![st] = Nil]
  BY DEF Free, At
<1>2. /\ \A u \in Threads \ {t} : call'[u] = call[u]
      /\ \/ call'[t].pc = "idle"
         \/ /\ call'[t].pc \in {"lconnect", "lclose", "lrecv", "lsend"}
            /\ call'[t].fd = fd
  BY GotoFacts, ReturnFacts DEF Free, AfterRun
<1>3. /\ fd \in Fds /\ Hash(fd) \in Buckets /\ st \in Cells /\ obj[st] = fd
      /\ obj'[st] = Nil /\ \A c \in Cells \ {st} : obj'[c] = obj[c]
  BY <1>1, HashType DEF TypeOK, CallsOK, PointersLive, Holding
<1>4. \A b \in Buckets : \A c \in htable[b] : c \in Cells /\ obj[c] # fd
  BY <1>1 DEF TableSound, Untabled, TypeOK
<1>5. \A u \in Threads \ {t} : call[u].pc # "idle" =>
        call[u].fd \in Fds /\ call[u].fd # fd /\ Hash(call[u].fd) \in Buckets
  BY <1>1, HashType DEF Exclusive, TypeOK, CallsOK
<1>6. Exclusive' /\ CallsOnOpen'
  BY <1>1, <1>2 DEF Exclusive, CallsOnOpen
<1>7. TableSound' /\ TableInjective'
  BY <1>1, <1>3, <1>4 DEF TableSound, TableInjective
<1>8. PointersLive'
  BY <1>1, <1>2, <1>3, <1>5 DEF PointersLive, Holding
<1>9. Untabled'
  BY <1>1, <1>2, <1>3, <1>4, <1>5 DEF Untabled
<1>10. NoLost'
  <2>. SUFFICES ASSUME NEW c \in Cells \ {st}, obj[c] # Nil
                PROVE  \/ c \in htable[Hash(obj[c])]
                       \/ \E u \in Threads : call'[u].pc = "free" /\ call'[u].st = c
    BY <1>1, <1>3 DEF NoLost
  <2>1. CASE \E u \in Threads : call[u].pc = "free" /\ call[u].st = c
    BY <1>2, <2>1
  <2>. QED  BY <2>1 DEF NoLost
<1>11. JudgedLeaving'
  <2>. SUFFICES ASSUME NEW f \in Fds, verdict[f] # "none",
                       NEW c \in htable[Hash(f)], obj'[c] = f
                PROVE  \E u \in Threads : call'[u].pc = "unlink" /\ call'[u].fd = f
    BY <1>1 DEF JudgedLeaving
  <2>1. obj[c] = f
    BY <1>3, <1>4, HashType
  <2>2. PICK u \in Threads : call[u].pc = "unlink" /\ call[u].fd = f
    BY <2>1 DEF JudgedLeaving
  <2>. QED  BY <1>1, <1>2, <2>2
<1>. QED  BY <1>6, <1>7, <1>8, <1>9, <1>10, <1>11

\* The kernel takes a descriptor back once its state is gone.
LEMMA LCloseKeeps ==
  ASSUME TypeOK, Owned, NEW t \in Threads, LClose(t)
  PROVE  Owned'
<1>. USE DEF Owned
<1>. DEFINE fd == call[t].fd
<1>1. /\ call'[t].pc = "idle" /\ call[t].pc = "lclose" /\ UNCHANGED <<obj, htable>>
      /\ \A u \in Threads \ {t} : call'[u] = call[u]
  BY ReturnFacts DEF LClose, At
<1>2. fd \in Fds
  BY <1>1 DEF TypeOK, CallsOK
<1>3. /\ \A f \in Fds \ {fd} : kind'[f] = kind[f] /\ verdict'[f] = verdict[f]
      /\ verdict'[fd] = "none"
  BY <1>2 DEF LClose, TypeOK
<1>4. \A b \in Buckets : \A c \in htable[b] : c \in Cells /\ obj[c] \in Fds \ {fd}
  BY <1>1 DEF TableSound, Untabled, TypeOK
<1>5. \A u \in Threads \ {t} : call[u].pc # "idle" => call[u].fd \in Fds \ {fd}
  BY <1>1 DEF Exclusive, TypeOK, CallsOK
<1>6. Exclusive' /\ CallsOnOpen'
  BY <1>1, <1>3, <1>5 DEF Exclusive, CallsOnOpen
<1>7. TableSound' /\ TableInjective'
  BY <1>1, <1>3, <1>4 DEF TableSound, TableInjective
<1>8. PointersLive' /\ Untabled'
  BY <1>1 DEF PointersLive, Untabled, Holding
<1>9. NoLost'
  BY <1>1 DEF NoLost
<1>10. JudgedLeaving'
  BY <1>1, <1>3 DEF JudgedLeaving
<1>. QED  BY <1>6, <1>7, <1>8, <1>9, <1>10

(***************************************************************************)
(* The inductive invariant.                                                *)
(***************************************************************************)

\* It holds initially: nothing is allocated and no call is in progress.
LEMMA IInvInit == Init => IInv
<1>. SUFFICES ASSUME Init
              PROVE  IInv
  OBVIOUS
<1>1. \A t \in Threads : call[t].pc = "idle"
  <2>1. NoCall.pc = "idle"
    BY DEF NoCall
  <2>. QED  BY <2>1 DEF Init
<1>2. Exclusive /\ CallsOnOpen /\ PointersLive /\ Untabled
  BY <1>1 DEF Exclusive, CallsOnOpen, PointersLive, Untabled, Holding
<1>3. TableSound /\ TableInjective /\ NoLost
  BY DEF Init, TableSound, TableInjective, NoLost
<1>4. JudgedLeaving
  BY DEF Init, JudgedLeaving
<1>. QED  BY <1>2, <1>3, <1>4, TypeInit DEF IInv, Owned, Init

\* No call uses a freed state while calls do not overlap.
LEMMA PointersValid ==
  ASSUME TypeOK, Owned, NEW t \in Threads, call[t].pc \in Holding
  PROVE  Valid(t)
<1>1. /\ call[t].st \in Cells /\ obj[call[t].st] = call[t].fd /\ call[t].fd \in Fds
      /\ call[t].pc # "free" => call[t].st \in htable[Hash(call[t].fd)]
  BY DEF Owned, PointersLive, TypeOK, CallsOK, Holding
<1>. QED  BY <1>1, HashType, ClientAssumption DEF Valid, Linked

\* Every step of a call inside the library keeps Owned.
LEMMA LibraryKeeps ==
  ASSUME IInv, NEW t \in Threads, Library(t), ~overlap
  PROVE  Owned' /\ memerr' = memerr
<1>. TypeOK /\ Owned
  BY DEF IInv
<1>1. ~UseFreed(t)
  BY PointersValid DEF UseFreed
<1>2. CASE Redirect(t)
  BY <1>2, GotoFacts, FreeThenFacts, MoveKeeps DEF Redirect, At, Holding
<1>3. CASE SendHdr(t)
  BY <1>3, GotoFacts, FreeThenFacts, MoveKeeps DEF SendHdr, At, Holding
<1>4. CASE RdHdr(t) \/ RdTlv(t) \/ RdErr(t)
  <2>1. obj[call[t].st] = call[t].fd /\ call[t].fd \in Fds /\ call[t].pc \in Holding
    BY <1>4 DEF RdHdr, RdTlv, RdErr, At, Owned, PointersLive, Holding, TypeOK, CallsOK
  <2>2. UNCHANGED <<kind, obj, htable, memerr>> /\ call[t].pc \notin {"idle", "unlink", "free"}
    BY <1>4 DEF RdHdr, RdTlv, RdErr, At
  <2>3. CASE RdHdr(t)
    <3>1. /\ \A u \in Threads \ {t} : call'[u] = call[u]
          /\ \/ call'[t].pc = "idle"
             \/ /\ call'[t].fd = call[t].fd /\ call'[t].st = call[t].st
                /\ call'[t].pc \in {"rderr", "rdtlv", "unlink"}
      BY <2>3, GotoFacts, FreeThenFacts, ReturnFacts DEF RdHdr
    <3>2. \A fd \in Fds : \/ verdict'[fd] = verdict[fd]
                          \/ fd = call[t].fd /\ call'[t].pc = "unlink"
      BY <2>1, <2>3, FreeThenFacts DEF RdHdr, TypeOK
    <3>. QED  BY <2>1, <2>2, <3>1, <3>2, MoveKeeps
  <2>4. CASE RdTlv(t)
    <3>1. CASE Goto(t, "rderr") /\ UNCHANGED verdict
      BY <2>1, <2>2, <3>1, GotoFacts, MoveKeeps
    <3>2. CASE /\ FreeThen(t, "run")
               /\ verdict' = [verdict EXCEPT ![obj[call[t].st]] = "accepted"]
      <4>1. /\ \A u \in Threads \ {t} : call'[u] = call[u]
            /\ call'[t].fd = call[t].fd /\ call'[t].st = call[t].st
            /\ call'[t].pc = "unlink"
        BY <3>2, FreeThenFacts DEF Conts
      <4>2. \A fd \in Fds : verdict'[fd] = verdict[fd] \/ fd = call[t].fd
        BY <2>1, <3>2 DEF TypeOK
      <4>. QED  BY <2>1, <2>2, <4>1, <4>2, MoveKeeps
    <3>. QED  BY <2>4, <3>1, <3>2 DEF RdTlv
  <2>5. CASE RdErr(t)
    <3>1. \A fd \in Fds : verdict'[fd] = verdict[fd] \/ fd = call[t].fd
      BY <2>1, <2>5 DEF RdErr, TypeOK
    <3>. QED  BY <2>1, <2>2, <2>5, <3>1, FreeThenFacts, MoveKeeps DEF RdErr
  <2>. QED  BY <1>4, <2>2, <2>3, <2>4, <2>5
<1>5. CASE LConnect(t) \/ LRecv(t) \/ LSend(t)
  <2>1. /\ UNCHANGED <<kind, obj, htable, verdict, memerr>>
        /\ call[t].pc \notin {"idle", "unlink", "free"}
    BY <1>5 DEF LConnect, LRecv, LSend, At
  <2>2. call'[t].pc = "idle" /\ \A u \in Threads \ {t} : call'[u] = call[u]
    BY <1>5, ReturnFacts DEF LConnect, LRecv, LSend
  <2>. QED  BY <2>1, <2>2, MoveKeeps
<1>6. CASE Alloc(t)
  BY <1>6, AllocKeeps DEF Alloc
<1>7. CASE Unlink(t)
  BY <1>7, UnlinkKeeps DEF Unlink
<1>8. CASE Free(t)
  BY <1>8, FreeKeeps DEF Free
<1>9. CASE LClose(t)
  BY <1>9, LCloseKeeps DEF LClose
<1>. QED
  BY <1>1, <1>2, <1>3, <1>4, <1>5, <1>6, <1>7, <1>8, <1>9 DEF Library

\* Every step keeps the inductive invariant.
LEMMA IInvStep == IInv /\ [Next]_vars => IInv'
<1>. SUFFICES ASSUME IInv, [Next]_vars
              PROVE  IInv'
  OBVIOUS
<1>1. TypeOK'
  BY TypeStep DEF IInv
<1>. SUFFICES /\ memerr' => overlap'
              /\ ~overlap' => Owned'
  BY <1>1 DEF IInv
<1>2. CASE UNCHANGED vars
  BY <1>2, IdleKeeps DEF IInv, vars
<1>3. ASSUME NEW t \in Threads, Library(t)
      PROVE  (memerr' => overlap') /\ (~overlap' => Owned')
  <2>1. overlap' = overlap
    BY <1>3 DEF Library, Alloc, Redirect, SendHdr, RdHdr, RdTlv, RdErr, Unlink, Free,
                UseFreed, LConnect, LRecv, LSend, LClose
  <2>. QED  BY <1>3, <2>1, LibraryKeeps DEF IInv
<1>4. ASSUME NEW t \in Threads, NEW fd \in Fds, Application(t, fd)
      PROVE  (memerr' => overlap') /\ (~overlap' => Owned')
  <2>1. CASE Socket(t, fd)
    BY <2>1, SocketKeeps DEF Socket, IInv
  <2>2. CASE RawRead(t, fd)
    BY <2>2, IdleKeeps DEF RawRead, IInv
  <2>3. ASSUME NEW hit \in Holding \ {"free"},
               NEW miss \in {"lconnect", "lrecv", "lsend", "lclose"}, NEW o, NEW k,
               Enter(t, o, fd, hit, miss, k)
        PROVE  (memerr' => overlap') /\ (~overlap' => Owned')
    <3>1. memerr' = memerr /\ (overlap => overlap')
      BY <2>3 DEF Enter
    <3>. QED  BY <2>3, <3>1, EnterKeeps DEF IInv
  <2>4. CASE Connect(t, fd)
    BY <2>3, <2>4 DEF Connect, Holding
  <2>5. CASE Recv(t, fd) \/ Send(t, fd) \/ Close(t, fd)
    BY <2>3, <2>5 DEF Recv, Send, Close, Holding
  <2>. QED  BY <1>4, <2>1, <2>2, <2>4, <2>5 DEF Application
<1>5. ASSUME NEW fd \in Fds, Peer(fd)
      PROVE  (memerr' => overlap') /\ (~overlap' => Owned')
  BY <1>5, IdleKeeps DEF Peer, IInv
<1>. QED  BY <1>2, <1>3, <1>4, <1>5 DEF Next

\* IInv is an invariant of the library.
LEMMA IInvAlways == Spec => []IInv
BY IInvInit, IInvStep, PTL DEF Spec

\* For any number of threads, descriptors and heap cells: the pointer _lookup
\* returns is used after free() only if two calls overlapped on a descriptor.
THEOREM MemorySafety == Spec => []UseAfterFreeNeedsOverlap
<1>1. IInv => UseAfterFreeNeedsOverlap
  BY DEF IInv, UseAfterFreeNeedsOverlap
<1>. QED  BY <1>1, IInvAlways, PTL

\* For any size of the table: every state in it is the state of an open MPTCP
\* descriptor, in the bucket _lookup searches for it.
THEOREM TableFollowsKernel == Spec => []TableMatchesKernel
<1>1. IInv => TableMatchesKernel
  BY DEF IInv, Owned, TableSound, TableMatchesKernel
<1>. QED  BY <1>1, IInvAlways, PTL

\* _lookup never has two states to choose from.
THEOREM LookupUnambiguous == Spec => []OneStatePerSocket
<1>1. IInv => OneStatePerSocket
  BY DEF IInv, Owned, TableInjective, OneStatePerSocket
<1>. QED  BY <1>1, IInvAlways, PTL

\* No state is lost on any error path.
THEOREM StatesAccounted == Spec => []NoLostState
<1>1. IInv => NoLostState
  BY HashType DEF IInv, Owned, NoLost, NoLostState, Linked, TypeOK
<1>. QED  BY <1>1, IInvAlways, PTL

\* A descriptor whose answer was judged is not managed any more.
THEOREM JudgedOnce == Spec => []VerdictSettles
<1>1. IInv => VerdictSettles
  BY DEF IInv, Owned, JudgedLeaving, VerdictSettles, Matches, Busy
<1>. QED  BY <1>1, IInvAlways, PTL
=============================================================================

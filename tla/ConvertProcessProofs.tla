------------------------ MODULE ConvertProcessProofs ------------------------
(***************************************************************************)
(* Theorems about ConvertProcess, for any number of threads, descriptors,  *)
(* heap cells and buckets: lists of any length.                            *)
(***************************************************************************)
EXTENDS ConvertProcess, TLAPS

(***************************************************************************)
(* The inductive invariant.                                                *)
(***************************************************************************)

\* Where a call holds the mutex.
Holding == {"link", "walk", "detach"}

\* The mutex is held by the thread that is between its lock and its unlock.
MutexSound == \A t \in Threads : mutex = t <=> call[t].pc \in Holding

\* A call is on an open descriptor, and alone on it.
CallsApart ==
  \A t \in Threads : call[t].pc # "idle" =>
    /\ call[t].fd \in open
    /\ \A u \in Threads \ {t} : call[u].pc # "idle" => call[u].fd # call[t].fd

\* A state is in the list of its descriptor's bucket.
InBucket == \A b \in Buckets : \A s \in Reach(b) : fd[s] \in Fds /\ Hash(fd[s]) = b

\* No two allocated states have one descriptor, which is open.
OneState ==
  \A s \in Cells : fd[s] # Nil =>
    fd[s] \in open /\ \A u \in Cells : fd[u] = fd[s] => u = s

\* An allocated state that is not in the table is in the hands of the call that
\* is about to insert it or to free it.
Accounted ==
  \A s \in Cells : fd[s] # Nil /\ ~InTable(s) =>
    \E t \in Threads : call[t].pc \in {"insert", "link", "free"} /\ call[t].st = s

\* Each pointer of a list leads to a state that points back to it, except where
\* a call is half way through LIST_INSERT_HEAD or LIST_REMOVE.
HeadBack ==
  \A b \in Buckets : lh_first[b] # Nil =>
    \/ le_prev[lh_first[b]] = First(b)
    \/ \E t \in Threads : call[t].pc = "link" /\ Hash(call[t].fd) = b
NextBack ==
  \A b \in Buckets : \A u \in Reach(b) : le_next[u] # Nil =>
    \/ le_prev[le_next[u]] = NextOf(u)
    \/ \E t \in Threads : call[t].pc = "detach" /\ call[t].st = u

\* What a call knows of the state it has.
Half(t) ==
  LET s == call[t].st
      b == Hash(call[t].fd) IN
  /\ call[t].pc \in {"insert", "link", "free"} =>
       s \in Cells /\ fd[s] = call[t].fd /\ ~InTable(s)
  /\ call[t].pc \in {"redirect", "read", "unlink", "detach"} =>
       s \in Reach(b) /\ fd[s] = call[t].fd
  /\ call[t].pc \in {"malloc", "lclose"} => \A u \in Cells : fd[u] # call[t].fd
  /\ call[t].pc = "link" =>
       le_next[s] = lh_first[b] /\ (lh_first[b] # Nil => le_prev[lh_first[b]] = NextOf(s))
  /\ call[t].pc = "walk" =>
       /\ s # Nil => s \in Reach(b)
       /\ \A u \in Reach(b) : fd[u] = call[t].fd => u \in From(le_next, s)
  /\ call[t].pc = "detach" =>
       le_next[s] # s /\ (le_next[s] # Nil => le_prev[le_next[s]] = le_prev[s])
Halves == \A t \in Threads : Half(t)

\* The operation a call is for.
OpSound ==
  \A t \in Threads :
    /\ call[t].pc \in {"malloc", "insert", "link"} => call[t].op = "socket"
    /\ call[t].pc \in {"lock", "walk"} => call[t].op \in {"connect", "recv", "close"}

IInv == /\ TypeOK /\ MutexSound /\ CallsApart /\ InBucket /\ OneState /\ Accounted
        /\ HeadBack /\ NextBack /\ Halves /\ OpSound

-----------------------------------------------------------------------------
(***************************************************************************)
(* What a list holds, for any links next \in [Cells -> Ptr].  A fact about  *)
(* From needs no induction: From is the least closed set, so it is         *)
(* compared with a set that is closed.                                     *)
(***************************************************************************)

\* What LIST_FOREACH meets is itself closed.
LEMMA FromClosed ==
  ASSUME NEW next \in [Cells -> Ptr], NEW p \in Ptr
  PROVE  Closed(next, p, From(next, p))
<1>1. ASSUME p # Nil  PROVE p \in From(next, p)
  BY <1>1 DEF From, Closed, Ptr
<1>2. ASSUME NEW u \in From(next, p), next[u] # Nil  PROVE next[u] \in From(next, p)
  <2>1. u \in Cells /\ next[u] \in Cells
    BY <1>2 DEF From, Ptr
  <2>2. ASSUME NEW S \in SUBSET Cells, Closed(next, p, S)  PROVE next[u] \in S
    BY <1>2, <2>2 DEF From, Closed
  <2>. QED  BY <2>1, <2>2 DEF From
<1>. QED  BY <1>1, <1>2 DEF Closed

\* No closed set leaves out a state LIST_FOREACH meets.
LEMMA FromLeast ==
  ASSUME NEW next, NEW p, NEW S \in SUBSET Cells, Closed(next, p, S)
  PROVE  From(next, p) \subseteq S
BY DEF From

\* The states met are cells.
LEMMA FromCells ==
  ASSUME NEW next, NEW p
  PROVE  From(next, p) \subseteq Cells
BY DEF From

\* LIST_FOREACH meets a state and then what its link leads to; NULL ends it.
LEMMA FromUnfold ==
  ASSUME NEW next \in [Cells -> Ptr], NEW p \in Cells
  PROVE  From(next, p) = {p} \cup From(next, next[p])
<1>. DEFINE R == From(next, p)
            Q == From(next, next[p])
<1>0. p # Nil /\ p \in Ptr /\ next[p] \in Ptr
  BY ProcessAssumption DEF Ptr
<1>1. Closed(next, p, R) /\ Closed(next, next[p], Q)
  BY <1>0, FromClosed
<1>2. p \in R /\ R \subseteq Cells /\ Q \subseteq Cells
  BY <1>0, <1>1, FromCells DEF Closed
<1>3. Closed(next, next[p], R)
  BY <1>1, <1>2 DEF Closed
<1>4. Q \subseteq R
  BY <1>2, <1>3, FromLeast
<1>5. Closed(next, p, {p} \cup Q)
  BY <1>1 DEF Closed
<1>6. R \subseteq {p} \cup Q
  BY <1>2, <1>5, FromLeast
<1>. QED  BY <1>2, <1>4, <1>6

\* Nothing is met from NULL on.
LEMMA FromNil ==
  ASSUME NEW next
  PROVE  From(next, Nil) = {}
<1>1. Closed(next, Nil, {})
  BY DEF Closed
<1>. QED  BY <1>1, FromLeast

\* The link of a state that is not met does not matter.
LEMMA FromElsewhere ==
  ASSUME NEW next \in [Cells -> Ptr], NEW p \in Ptr, NEW n \in Cells, NEW x \in Ptr,
         n \notin From(next, p)
  PROVE  From([next EXCEPT ![n] = x], p) = From(next, p)
<1>. DEFINE new == [next EXCEPT ![n] = x]
            R == From(next, p)
            Q == From(new, p)
<1>0. new \in [Cells -> Ptr]
  OBVIOUS
<1>1. Closed(next, p, R) /\ Closed(new, p, Q)
  BY <1>0, FromClosed
<1>2. R \subseteq Cells /\ Q \subseteq Cells
  BY FromCells
<1>3. Closed(new, p, R)
  BY <1>1, <1>2 DEF Closed
<1>4. Q \subseteq R
  BY <1>2, <1>3, FromLeast
<1>5. Closed(next, p, Q)
  BY <1>1, <1>2, <1>4 DEF Closed
<1>. QED  BY <1>2, <1>4, <1>5, FromLeast

\* A state that is met is the first one, or some state's link leads to it.
LEMMA FromPred ==
  ASSUME NEW next \in [Cells -> Ptr], NEW p \in Ptr, NEW s \in From(next, p), s # p
  PROVE  \E u \in From(next, p) : u # s /\ next[u] = s
<1>. SUFFICES ASSUME \A u \in From(next, p) : u # s => next[u] # s
              PROVE  FALSE
  OBVIOUS
<1>1. Closed(next, p, From(next, p)) /\ From(next, p) \subseteq Cells
  BY FromClosed, FromCells
<1>2. Closed(next, p, From(next, p) \ {s})
  BY <1>1 DEF Closed
<1>. QED  BY <1>1, <1>2, FromLeast

\* LIST_REMOVE of the first state, to which no link leads.
LEMMA FromWithoutFirst ==
  ASSUME NEW next \in [Cells -> Ptr], NEW p \in Cells,
         \A u \in From(next, p) : next[u] # p
  PROVE  From(next, next[p]) = From(next, p) \ {p}
<1>0. p # Nil /\ p \in Ptr /\ next[p] \in Ptr
  BY ProcessAssumption DEF Ptr
<1>1. Closed(next, p, From(next, p)) /\ From(next, p) \subseteq Cells
  BY <1>0, FromClosed, FromCells
<1>2. From(next, p) = {p} \cup From(next, next[p])
  BY FromUnfold
<1>3. Closed(next, next[p], From(next, p) \ {p})
  BY <1>0, <1>1 DEF Closed
<1>. QED  BY <1>1, <1>2, <1>3, FromLeast

-----------------------------------------------------------------------------
(***************************************************************************)
(* How a step changes the calls.                                           *)
(***************************************************************************)

\* A call that moves to another point keeps the rest.
LEMMA GotoEffect ==
  ASSUME TypeOK, NEW t \in Threads, NEW p \in Pcs, Goto(t, p)
  PROVE  /\ call' \in [Threads -> Calls]
         /\ call'[t] = [call[t] EXCEPT !.pc = p]
         /\ call'[t].pc = p /\ call'[t].op = call[t].op
         /\ call'[t].fd = call[t].fd /\ call'[t].st = call[t].st
         /\ \A u \in Threads \ {t} : call'[u] = call[u]
<1>1. call \in [Threads -> Calls] /\ call[t] \in Calls
  BY DEF TypeOK
<1>2. [call[t] EXCEPT !.pc = p] \in Calls
  BY <1>1 DEF Calls
<1>3. call' = [call EXCEPT ![t] = [call[t] EXCEPT !.pc = p]]
  BY <1>1 DEF Goto
<1>4. call'[t] = [call[t] EXCEPT !.pc = p]
  BY <1>1, <1>3
<1>. QED  BY <1>1, <1>2, <1>3, <1>4 DEF Calls

\* A thread that returns is in no call.
LEMMA ReturnEffect ==
  ASSUME TypeOK, NEW t \in Threads, Return(t)
  PROVE  /\ call' \in [Threads -> Calls]
         /\ call'[t] = NoCall /\ call'[t].pc = "idle"
         /\ \A u \in Threads \ {t} : call'[u] = call[u]
<1>1. NoCall \in Calls /\ NoCall.pc = "idle"
  BY DEF NoCall, Calls, Pcs, Ptr
<1>. QED  BY <1>1 DEF TypeOK, Return

\* A call that moves to another point with another state.
LEMMA MoveEffect ==
  ASSUME TypeOK, NEW t \in Threads, NEW p \in Pcs, NEW s \in Ptr,
         call' = [call EXCEPT ![t] = [@ EXCEPT !.pc = p, !.st = s]]
  PROVE  /\ call' \in [Threads -> Calls]
         /\ call'[t].pc = p /\ call'[t].op = call[t].op
         /\ call'[t].fd = call[t].fd /\ call'[t].st = s
         /\ \A u \in Threads \ {t} : call'[u] = call[u]
<1>1. call \in [Threads -> Calls] /\ call[t] \in Calls
  BY DEF TypeOK
<1>2. [call[t] EXCEPT !.pc = p, !.st = s] \in Calls
  BY <1>1 DEF Calls
<1>3. call' = [call EXCEPT ![t] = [call[t] EXCEPT !.pc = p, !.st = s]]
  BY <1>1
<1>. QED  BY <1>1, <1>2, <1>3 DEF Calls

\* A call that begins.
LEMMA BeginEffect ==
  ASSUME TypeOK, NEW t \in Threads, NEW p \in Pcs, NEW f \in Fds,
         NEW o \in {"socket", "connect", "recv", "close"},
         call' = [call EXCEPT ![t] = [pc |-> p, op |-> o, fd |-> f, st |-> Nil]]
  PROVE  /\ call' \in [Threads -> Calls]
         /\ call'[t] = [pc |-> p, op |-> o, fd |-> f, st |-> Nil]
         /\ call'[t].pc = p /\ call'[t].op = o /\ call'[t].fd = f /\ call'[t].st = Nil
         /\ \A u \in Threads \ {t} : call'[u] = call[u]
<1>1. [pc |-> p, op |-> o, fd |-> f, st |-> Nil] \in Calls
  BY DEF Calls, Ptr
<1>. QED  BY <1>1 DEF TypeOK

\* _hash yields a bucket.
LEMMA HashType ==
  ASSUME NEW f \in Fds
  PROVE  Hash(f) \in Buckets
BY ProcessAssumption DEF Hash, Buckets

\* A call that found no state, or one that is done with it.
LEMMA MissedEffect ==
  ASSUME TypeOK, NEW t \in Threads, Missed(t)
  PROVE  /\ call' \in [Threads -> Calls]
         /\ \A u \in Threads \ {t} : call'[u] = call[u]
         /\ \/ /\ call[t].op = "close" /\ call'[t].pc = "lclose"
               /\ call'[t].op = call[t].op /\ call'[t].fd = call[t].fd
               /\ call'[t].st = call[t].st
            \/ call[t].op # "close" /\ call'[t] = NoCall /\ call'[t].pc = "idle"
BY GotoEffect, ReturnEffect DEF Missed, Pcs

\* A pointer is set back only at a cell.
LEMMA PointBackType ==
  ASSUME TypeOK, NEW s \in Ptr, NEW p, PointBack(s, p),
         p \in {First(b) : b \in Buckets} \cup {NextOf(u) : u \in Ptr}
  PROVE  /\ le_prev' \in [Cells -> {First(b) : b \in Buckets} \cup {NextOf(u) : u \in Ptr}]
         /\ \A u \in Cells : le_prev'[u] = IF u = s THEN p ELSE le_prev[u]
BY ProcessAssumption DEF TypeOK, PointBack, Ptr

-----------------------------------------------------------------------------
(***************************************************************************)
(* The lists, as the invariant sees them.                                  *)
(***************************************************************************)

\* A list holds its first state, and with each state the next one.
LEMMA ReachClosed ==
  ASSUME TypeOK, NEW b \in Buckets
  PROVE  /\ Reach(b) \subseteq Cells
         /\ lh_first[b] # Nil => lh_first[b] \in Reach(b)
         /\ \A u \in Reach(b) : le_next[u] # Nil => le_next[u] \in Reach(b)
<1>1. le_next \in [Cells -> Ptr] /\ lh_first[b] \in Ptr
  BY DEF TypeOK
<1>. QED  BY <1>1, FromClosed, FromCells DEF Reach, Closed

\* What is met from a state on is met from any state before it.
LEMMA FromMember ==
  ASSUME NEW next \in [Cells -> Ptr], NEW p \in Ptr, NEW s \in From(next, p)
  PROVE  From(next, s) \subseteq From(next, p)
<1>1. Closed(next, p, From(next, p)) /\ From(next, p) \subseteq Cells
  BY FromClosed, FromCells
<1>2. Closed(next, s, From(next, p))
  BY <1>1 DEF Closed
<1>. QED  BY <1>1, <1>2, FromLeast

\* A list holds no more when neither its head nor a link changes.
LEMMA ReachKept ==
  ASSUME UNCHANGED <<lh_first, le_next>>
  PROVE  /\ \A b \in Buckets : Reach(b)' = Reach(b)
         /\ \A s \in Cells : InTable(s)' <=> InTable(s)
         /\ \A p : From(le_next', p) = From(le_next, p)
BY DEF Reach, InTable, From, Closed

\* The state a call is about to insert or to free, and one in a list, differ.
LEMMA TableApart ==
  ASSUME IInv, NEW s \in Cells, ~InTable(s), NEW b \in Buckets
  PROVE  s \notin Reach(b)
BY DEF InTable

\* A state is in at most one list.
LEMMA ListsApart ==
  ASSUME IInv, NEW a \in Buckets, NEW b \in Buckets, NEW s \in Reach(a), s \in Reach(b)
  PROVE  a = b
BY DEF IInv, InBucket

\* A thread that takes the mutex finds nobody between lock and unlock.
LEMMA TakenFree ==
  ASSUME IInv, mutex = Nil, NEW t \in Threads
  PROVE  call[t].pc \notin Holding
BY ProcessAssumption DEF IInv, MutexSound

\* Nor does the thread that has it.
LEMMA HolderAlone ==
  ASSUME IInv, NEW t \in Threads, call[t].pc \in Holding, NEW u \in Threads \ {t}
  PROVE  mutex = t /\ call[u].pc \notin Holding
BY DEF IInv, MutexSound

\* A state in a list is not the state of a call on another descriptor.
LEMMA StatesApart ==
  ASSUME IInv, NEW t \in Threads, NEW u \in Threads \ {t},
         call[t].pc # "idle", call[u].pc # "idle"
  PROVE  call[t].fd # call[u].fd /\ call[t].fd \in Fds /\ call[u].fd \in Fds
BY DEF IInv, CallsApart, TypeOK

(***************************************************************************)
(* A step that leaves the table alone keeps the invariant if it keeps what *)
(* is said of its own call.                                                *)
(***************************************************************************)
LEMMA LocalStep ==
  ASSUME IInv, NEW t \in Threads, UNCHANGED table,
         TypeOK', MutexSound', CallsApart', OpSound', Half(t)',
         \A u \in Threads \ {t} : call'[u] = call[u],
         call[t].pc \notin {"insert", "link", "detach", "free"},
         \A s \in Cells : fd[s] # Nil => fd[s] \in open'
  PROVE  IInv'
<1>0. UNCHANGED <<fd, lh_first, le_next, le_prev>>
  BY DEF table
<1>1. /\ \A b \in Buckets : Reach(b)' = Reach(b)
      /\ \A s \in Cells : InTable(s)' <=> InTable(s)
      /\ \A p : From(le_next', p) = From(le_next, p)
  BY <1>0, ReachKept
<1>2. InBucket'
  BY <1>0, <1>1 DEF IInv, InBucket
<1>3. OneState'
  BY <1>0 DEF IInv, OneState
<1>4. Accounted'
  <2>. SUFFICES ASSUME NEW s \in Cells, fd[s] # Nil, ~InTable(s)
                PROVE  \E u \in Threads : call'[u].pc \in {"insert", "link", "free"} /\ call'[u].st = s
    BY <1>0, <1>1 DEF Accounted
  <2>1. PICK u \in Threads : call[u].pc \in {"insert", "link", "free"} /\ call[u].st = s
    BY DEF IInv, Accounted
  <2>. QED  BY <2>1
<1>5. HeadBack'
  <2>. SUFFICES ASSUME NEW b \in Buckets, lh_first[b] # Nil, le_prev[lh_first[b]] # First(b)
                PROVE  \E u \in Threads : call'[u].pc = "link" /\ Hash(call'[u].fd) = b
    BY <1>0 DEF HeadBack, First
  <2>1. PICK u \in Threads : call[u].pc = "link" /\ Hash(call[u].fd) = b
    BY DEF IInv, HeadBack
  <2>. QED  BY <2>1
<1>6. NextBack'
  <2>. SUFFICES ASSUME NEW b \in Buckets, NEW w \in Reach(b), le_next[w] # Nil,
                       le_prev[le_next[w]] # NextOf(w)
                PROVE  \E u \in Threads : call'[u].pc = "detach" /\ call'[u].st = w
    BY <1>0, <1>1 DEF NextBack, NextOf
  <2>1. PICK u \in Threads : call[u].pc = "detach" /\ call[u].st = w
    BY DEF IInv, NextBack
  <2>. QED  BY <2>1
<1>7. Halves'
  <2>1. ASSUME NEW u \in Threads \ {t}  PROVE Half(u)'
    <3>1. call'[u] = call[u] /\ Half(u)
      BY DEF IInv, Halves
    <3>2. call[u].pc # "idle" => call[u].fd \in Fds /\ Hash(call[u].fd) \in Buckets
      BY HashType DEF IInv, CallsApart, TypeOK
    <3>3. call[u].st \in Ptr
      BY DEF IInv, TypeOK, Calls
    <3>4. From(le_next, call[u].st)' = From(le_next, call[u].st)
      BY <1>0, <3>1, <1>1
    <3>. QED  BY <1>0, <1>1, <3>1, <3>2, <3>3, <3>4 DEF Half, NextOf
  <2>. QED  BY <2>1 DEF Halves
<1>. QED  BY <1>2, <1>3, <1>4, <1>5, <1>6, <1>7 DEF IInv

-----------------------------------------------------------------------------
(***************************************************************************)
(* Each step keeps the invariant: first those that leave the table alone.  *)
(***************************************************************************)

\* The initial state satisfies the invariant.
LEMMA InvInit == Init => IInv
<1>. SUFFICES ASSUME Init  PROVE IInv
  OBVIOUS
<1>0. NoCall \in Calls /\ NoCall.pc = "idle"
  BY DEF NoCall, Calls, Pcs, Ptr
<1>1. TypeOK
  BY <1>0 DEF Init, TypeOK, Phases, Ptr
<1>2. \A t \in Threads : call[t].pc = "idle"
  BY <1>0 DEF Init
<1>3. \A b \in Buckets : Reach(b) = {}
  BY FromNil DEF Init, Reach
<1>4. MutexSound
  BY <1>2, ProcessAssumption DEF Init, MutexSound, Holding
<1>5. CallsApart /\ OpSound /\ Halves
  BY <1>2 DEF CallsApart, OpSound, Halves, Half
<1>6. InBucket /\ OneState /\ Accounted /\ HeadBack /\ NextBack
  BY <1>3 DEF Init, InBucket, OneState, Accounted, HeadBack, NextBack
<1>. QED  BY <1>1, <1>4, <1>5, <1>6 DEF IInv

\* A step of start-up or of the end that makes no call.
LEMMA QuietStep ==
  ASSUME IInv, UNCHANGED <<open, mutex, call, table>>, TypeOK'
  PROVE  IInv'
<1>2. UNCHANGED <<fd, lh_first, le_next, le_prev>>
  BY DEF table
<1>3. /\ \A b \in Buckets : Reach(b)' = Reach(b)
      /\ \A s \in Cells : InTable(s)' <=> InTable(s)
      /\ \A p : From(le_next', p) = From(le_next, p)
  BY <1>2, ReachKept
<1>4. MutexSound' /\ CallsApart' /\ OpSound' /\ OneState'
  BY <1>2 DEF IInv, MutexSound, CallsApart, OpSound, OneState
<1>5. InBucket' /\ Accounted'
  BY <1>2, <1>3 DEF IInv, InBucket, Accounted
<1>6. HeadBack'
  BY <1>2 DEF IInv, HeadBack, First
<1>8. NextBack'
  BY <1>2, <1>3 DEF IInv, NextBack, NextOf
<1>7. ASSUME NEW u \in Threads  PROVE Half(u)'
  <2>1. Half(u)
    BY DEF IInv, Halves
  <2>2. call[u].pc # "idle" => Hash(call[u].fd) \in Buckets
    BY HashType DEF IInv, CallsApart, TypeOK
  <2>3. From(le_next, call[u].st)' = From(le_next, call[u].st)
    BY <1>2, <1>3
  <2>. QED  BY <1>2, <1>3, <2>1, <2>2, <2>3 DEF Half, NextOf
<1>. QED  BY <1>4, <1>5, <1>6, <1>7, <1>8 DEF IInv, Halves

\* A call begins, on a descriptor nobody is using: it is open, or socket() has
\* just got it.
LEMMA BeginStep ==
  ASSUME IInv, NEW t \in Threads, call[t].pc = "idle", NEW f \in Fds,
         NEW p \in {"lock", "malloc"}, NEW o \in {"socket", "connect", "recv", "close"},
         call' = [call EXCEPT ![t] = [pc |-> p, op |-> o, fd |-> f, st |-> Nil]],
         p = "malloc" <=> o = "socket",
         p = "malloc" => f \notin open, open' = open \cup {f}, ~InUse(f),
         UNCHANGED <<mutex, table>>, TypeOK'
  PROVE  IInv'
<1>0. TypeOK /\ p \in Pcs
  BY DEF IInv, Pcs
<1>1. /\ call'[t].pc = p /\ call'[t].op = o /\ call'[t].fd = f /\ call'[t].st = Nil
      /\ \A u \in Threads \ {t} : call'[u] = call[u]
  BY <1>0, BeginEffect
<1>2. MutexSound'
  BY <1>1 DEF IInv, MutexSound, Holding
<1>3. CallsApart'
  BY <1>1 DEF IInv, CallsApart, InUse
<1>4. OpSound'
  BY <1>1 DEF IInv, OpSound
<1>5. Half(t)'
  <2>1. p = "malloc" => \A u \in Cells : fd'[u] # f
    BY <1>0, ProcessAssumption DEF IInv, OneState, table, TypeOK
  <2>. QED  BY <1>1, <2>1 DEF Half
<1>. QED  BY <1>0, <1>1, <1>2, <1>3, <1>4, <1>5, LocalStep DEF IInv, OneState

\* A descriptor the kernel has not handed out is in no use.
LEMMA FreshFree ==
  ASSUME IInv, NEW f, f \notin open
  PROVE  ~InUse(f)
BY DEF IInv, CallsApart, InUse

\* init opens its file and calls close() on it.
LEMMA OpenSysctlInv ==
  ASSUME IInv, OpenSysctl
  PROVE  IInv'
<1>0. Main \in Threads /\ TypeOK /\ call[Main].pc = "idle"
  BY ProcessAssumption DEF IInv, OpenSysctl, InInit, At
<1>1. CASE Fail /\ UNCHANGED <<open, call>>
  <2>1. TypeOK'
    BY <1>0, <1>1 DEF OpenSysctl, Fail, Pass, TypeOK, Phases, table
  <2>. QED  BY <1>1, <2>1, QuietStep DEF OpenSysctl
<1>2. ASSUME NEW f \in Fds \ open, Pass("sysctl"), open' = open \cup {f},
             call' = [call EXCEPT ![Main] = [pc |-> "lock", op |-> "close", fd |-> f, st |-> Nil]]
      PROVE  IInv'
  <2>1. call' \in [Threads -> Calls]
    BY <1>0, <1>2, BeginEffect DEF Pcs
  <2>2. TypeOK'
    BY <1>0, <1>2, <2>1 DEF OpenSysctl, Pass, TypeOK, Phases, table
  <2>. QED  BY <1>0, <1>2, <2>2, FreshFree, BeginStep DEF OpenSysctl
<1>. QED  BY <1>1, <1>2 DEF OpenSysctl

\* The rest of init, exit() and fini.
LEMMA LifeInv ==
  ASSUME IInv, ValidateSysctl \/ ValidateKernel \/ ValidateParameters \/ Exit \/ Fini \/ Gone
  PROVE  IInv'
<1>1. UNCHANGED <<open, mutex, call, table>>
  BY DEF ValidateSysctl, ValidateKernel, ValidateParameters, Exit, Fini, Gone
<1>2. UNCHANGED fault /\ phase' \in Phases /\ converter_addr' \in {"NULL", "resolved", "freed"}
  BY DEF IInv, TypeOK, ValidateSysctl, ValidateKernel, ValidateParameters, Unresolved, Exit, Fini,
         Gone, Fail, Pass, Phases
<1>3. TypeOK'
  BY <1>1, <1>2 DEF IInv, TypeOK, table
<1>. QED  BY <1>1, <1>3, QuietStep

\* socket() gets a descriptor nobody has a state for.
LEMMA SocketInv ==
  ASSUME IInv, NEW t \in Threads, NEW f \in Fds, Socket(t, f)
  PROVE  IInv'
<1>0. TypeOK /\ call[t].pc = "idle" /\ f \notin open
  BY DEF IInv, Socket, MayCall, At
<1>1. call' \in [Threads -> Calls]
  BY <1>0, BeginEffect DEF Socket, Pcs
<1>2. TypeOK'
  BY <1>0, <1>1 DEF Socket, TypeOK, table
<1>. QED  BY <1>0, <1>2, FreshFree, BeginStep DEF Socket

\* A call begins with _lookup.
LEMMA EnterInv ==
  ASSUME IInv, NEW t \in Threads, NEW f \in Fds, NEW op \in {"connect", "recv", "close"},
         Enter(t, op, f)
  PROVE  IInv'
<1>0. TypeOK /\ call[t].pc = "idle" /\ f \in open /\ ~InUse(f) /\ open' = open \cup {f}
  BY DEF IInv, Enter, MayCall, At
<1>1. call' \in [Threads -> Calls]
  BY <1>0, BeginEffect DEF Enter, Pcs
<1>2. TypeOK'
  BY <1>0, <1>1 DEF Enter, TypeOK, table
<1>. QED  BY <1>0, <1>2, BeginStep DEF Enter


\* What a call on an open descriptor has in common, whatever it does.
LEMMA InCall ==
  ASSUME IInv, NEW t \in Threads, call[t].pc # "idle"
  PROVE  /\ TypeOK /\ call[t] \in Calls /\ call[t].st \in Ptr
         /\ call[t].fd \in Fds /\ call[t].fd \in open /\ Hash(call[t].fd) \in Buckets
         /\ Half(t)
BY HashType DEF IInv, CallsApart, TypeOK, Calls, Halves

\* _lookup starts at the head: the whole list is ahead.
LEMMA LockInv ==
  ASSUME IInv, NEW t \in Threads, Lock(t)
  PROVE  IInv'
<1>. DEFINE b == Hash(call[t].fd)
<1>0. call[t].pc = "lock" /\ call[t].pc # "idle" /\ mutex = Nil /\ mutex' = t
  BY DEF Lock, At, Take
<1>1. TypeOK /\ b \in Buckets /\ call[t].fd \in open /\ lh_first[b] \in Ptr
  BY <1>0, InCall DEF TypeOK
<1>2. /\ call' \in [Threads -> Calls]
      /\ call'[t].pc = "walk" /\ call'[t].op = call[t].op
      /\ call'[t].fd = call[t].fd /\ call'[t].st = lh_first[b]
      /\ \A u \in Threads \ {t} : call'[u] = call[u]
  BY <1>1, MoveEffect DEF Lock, Pcs
<1>3. TypeOK'
  BY <1>0, <1>1, <1>2 DEF Lock, TypeOK, table
<1>4. MutexSound'
  BY <1>0, <1>2, TakenFree DEF MutexSound, Holding
<1>5. CallsApart' /\ OpSound'
  BY <1>0, <1>2 DEF IInv, CallsApart, OpSound, Lock
<1>6. Half(t)'
  <2>1. UNCHANGED <<lh_first, le_next, fd>>
    BY DEF Lock, table
  <2>2. Reach(b)' = Reach(b) /\ From(le_next', lh_first[b]) = Reach(b)
    BY <2>1, <1>1, <1>2, ReachKept DEF Reach
  <2>3. Hash(call'[t].fd) = b
    BY <1>2
  <2>4. lh_first[b] # Nil => lh_first[b] \in Reach(b)
    BY <1>1, ReachClosed
  <2>. QED  BY <1>1, <1>2, <2>1, <2>2, <2>3, <2>4 DEF Half
<1>. QED
  BY <1>0, <1>2, <1>3, <1>4, <1>5, <1>6, LocalStep DEF Lock, IInv, OneState

\* A call that has met the end of the list has no state: not in the table, and
\* not elsewhere either.
LEMMA WalkMisses ==
  ASSUME IInv, NEW t \in Threads, call[t].pc = "walk", call[t].st = Nil, NEW s \in Cells
  PROVE  fd[s] # call[t].fd
<1>. SUFFICES ASSUME fd[s] = call[t].fd  PROVE FALSE
  OBVIOUS
<1>1. call[t].fd \in Fds /\ fd[s] # Nil /\ Half(t)
  BY InCall, ProcessAssumption
<1>2. ASSUME InTable(s)  PROVE FALSE
  <2>1. PICK b \in Buckets : s \in Reach(b)
    BY <1>2 DEF InTable
  <2>2. b = Hash(call[t].fd)
    BY <2>1 DEF IInv, InBucket
  <2>3. s \in From(le_next, Nil)
    BY <1>1, <2>1, <2>2 DEF Half
  <2>. QED  BY <2>3, FromNil
<1>3. ASSUME ~InTable(s)  PROVE FALSE
  <2>1. PICK u \in Threads : call[u].pc \in {"insert", "link", "free"} /\ call[u].st = s
    BY <1>1, <1>3 DEF IInv, Accounted
  <2>2. fd[s] = call[u].fd
    BY <2>1 DEF IInv, Halves, Half
  <2>. QED  BY <2>1, <2>2 DEF IInv, CallsApart
<1>. QED  BY <1>2, <1>3

\* One round of LIST_FOREACH passes only states of other descriptors.
LEMMA WalkInv ==
  ASSUME IInv, NEW t \in Threads, Walk(t)
  PROVE  IInv'
<1>. DEFINE b == Hash(call[t].fd)
            s == call[t].st
<1>0. call[t].pc = "walk" /\ call[t].pc # "idle" /\ call[t].op \in {"connect", "recv", "close"}
  BY DEF Walk, At, IInv, OpSound
<1>1. TypeOK /\ b \in Buckets /\ call[t].fd \in open /\ call[t].fd \in Fds /\ s \in Ptr /\ Half(t)
  BY <1>0, InCall
<1>2. mutex = t /\ t # Nil /\ \A u \in Threads \ {t} : call[u].pc \notin Holding
  BY <1>0, HolderAlone, ProcessAssumption DEF Holding, IInv, MutexSound
<1>3. /\ UNCHANGED <<fd, lh_first, le_next>> /\ UNCHANGED <<open, table>>
      /\ \A p : From(le_next', p) = From(le_next, p)
      /\ \A a \in Buckets : Reach(a)' = Reach(a)
  BY ReachKept DEF Walk, table
<1>4. \A u \in Cells : fd[u] # Nil => fd[u] \in open'
  BY <1>3 DEF IInv, OneState
<1>5. CASE s = Nil /\ Missed(t) /\ Release(t)
  <2>1. /\ call' \in [Threads -> Calls]
        /\ \A u \in Threads \ {t} : call'[u] = call[u]
        /\ call'[t].pc \in {"lclose", "idle"}
        /\ call'[t].pc # "idle" => call'[t].fd = call[t].fd
    BY <1>1, <1>5, MissedEffect
  <2>2. TypeOK'
    BY <1>1, <1>5, <2>1, ProcessAssumption DEF Walk, TypeOK, table, Release
  <2>3. MutexSound'
    BY <1>2, <1>5, <2>1, ProcessAssumption DEF MutexSound, Holding, Release
  <2>4. CallsApart' /\ OpSound'
    BY <1>0, <1>3, <2>1 DEF IInv, CallsApart, OpSound
  <2>5. Half(t)'
    BY <1>0, <1>3, <1>5, <2>1, WalkMisses DEF Half
  <2>. QED  BY <1>0, <1>3, <1>4, <2>1, <2>2, <2>3, <2>4, <2>5, LocalStep
<1>6. CASE s # Nil /\ fd[s] = call[t].fd /\ Goto(t, Hit(call[t].op)) /\ Release(t)
  <2>0. Hit(call[t].op) \in {"unlink", "redirect", "read"} /\ Hit(call[t].op) \in Pcs
    BY <1>0 DEF Hit, Pcs
  <2>1. /\ call' \in [Threads -> Calls]
        /\ \A u \in Threads \ {t} : call'[u] = call[u]
        /\ call'[t].pc \in {"unlink", "redirect", "read"}
        /\ call'[t].fd = call[t].fd /\ call'[t].st = s
    BY <1>1, <1>6, <2>0, GotoEffect
  <2>2. TypeOK'
    BY <1>1, <1>6, <2>1, ProcessAssumption DEF Walk, TypeOK, table, Release
  <2>3. MutexSound'
    BY <1>2, <1>6, <2>1, ProcessAssumption DEF MutexSound, Holding, Release
  <2>4. CallsApart' /\ OpSound'
    BY <1>0, <1>3, <2>1 DEF IInv, CallsApart, OpSound
  <2>5. Half(t)'
    <3>1. s \in Reach(b) /\ Reach(b)' = Reach(b) /\ Hash(call'[t].fd) = b
      BY <1>0, <1>1, <1>3, <1>6, <2>1 DEF Half
    <3>. QED  BY <1>3, <1>6, <2>1, <3>1 DEF Half
  <2>. QED  BY <1>0, <1>3, <1>4, <2>1, <2>2, <2>3, <2>4, <2>5, LocalStep
<1>7. CASE /\ s # Nil /\ fd[s] # call[t].fd /\ UNCHANGED mutex
           /\ call' = [call EXCEPT ![t].st = le_next[s]]
  <2>0. s \in Cells /\ le_next[s] \in Ptr /\ le_next \in [Cells -> Ptr]
    BY <1>1, <1>7 DEF Ptr, TypeOK
  <2>1. call' = [call EXCEPT ![t] = [@ EXCEPT !.pc = "walk", !.st = le_next[s]]]
    <3>1. call \in [Threads -> Calls] /\ call[t] \in Calls
      BY <1>1 DEF TypeOK
    <3>2. [call[t] EXCEPT !.st = le_next[s]] = [call[t] EXCEPT !.pc = "walk", !.st = le_next[s]]
      BY <1>0, <3>1 DEF Calls
    <3>. QED  BY <1>7, <3>1, <3>2
  <2>2. /\ call' \in [Threads -> Calls]
        /\ \A u \in Threads \ {t} : call'[u] = call[u]
        /\ call'[t].pc = "walk" /\ call'[t].op = call[t].op
        /\ call'[t].fd = call[t].fd /\ call'[t].st = le_next[s]
    BY <1>1, <2>0, <2>1, MoveEffect DEF Pcs
  <2>3. TypeOK'
    BY <1>1, <1>7, <2>2 DEF Walk, TypeOK, table
  <2>4. MutexSound'
    BY <1>0, <1>7, <2>2 DEF IInv, MutexSound, Holding
  <2>5. CallsApart' /\ OpSound'
    BY <1>0, <1>3, <2>2 DEF IInv, CallsApart, OpSound
  <2>6. Half(t)'
    <3>1. s \in Reach(b) /\ Reach(b)' = Reach(b) /\ Hash(call'[t].fd) = b
      BY <1>0, <1>1, <1>3, <1>7, <2>2 DEF Half
    <3>2. le_next[s] # Nil => le_next[s] \in Reach(b)
      BY <1>1, <3>1, ReachClosed
    <3>3. ASSUME NEW u \in Reach(b), fd[u] = call[t].fd  PROVE u \in From(le_next, le_next[s])
      BY <1>0, <1>1, <1>7, <2>0, <3>3, FromUnfold DEF Half
    <3>4. From(le_next, call[t].st)' = From(le_next, le_next[s])
      BY <1>3, <2>2
    <3>. QED  BY <1>3, <2>2, <3>1, <3>2, <3>3, <3>4 DEF Half
  <2>. QED  BY <1>0, <1>3, <1>4, <2>2, <2>3, <2>4, <2>5, <2>6, LocalStep
<1>. QED  BY <1>5, <1>6, <1>7 DEF Walk

\* _redirect leaves the table alone, whether the address is valid or not.
LEMMA RedirectInv ==
  ASSUME IInv, NEW t \in Threads, Redirect(t)
  PROVE  IInv'
<1>0. call[t].pc = "redirect" /\ call[t].pc # "idle"
  BY DEF Redirect, At
<1>1. TypeOK /\ Hash(call[t].fd) \in Buckets /\ Half(t)
  BY <1>0, InCall
<1>2. UNCHANGED <<open, mutex, table>>
  BY DEF Redirect
<1>3. CASE UNCHANGED call
  <2>1. TypeOK'
    BY <1>1, <1>3 DEF Redirect, TypeOK, table
  <2>. QED  BY <1>2, <1>3, <2>1, QuietStep
<1>4. CASE Goto(t, "read") /\ UNCHANGED fault
  <2>1. /\ call' \in [Threads -> Calls]
        /\ \A u \in Threads \ {t} : call'[u] = call[u]
        /\ call'[t].pc = "read" /\ call'[t].fd = call[t].fd /\ call'[t].st = call[t].st
    BY <1>1, <1>4, GotoEffect DEF Pcs
  <2>2. TypeOK'
    BY <1>1, <1>4, <2>1 DEF Redirect, TypeOK, table
  <2>3. MutexSound'
    BY <1>0, <1>2, <2>1 DEF IInv, MutexSound, Holding
  <2>4. CallsApart' /\ OpSound'
    BY <1>0, <1>2, <2>1 DEF IInv, CallsApart, OpSound
  <2>5. Half(t)'
    <3>1. UNCHANGED fd /\ Reach(Hash(call[t].fd))' = Reach(Hash(call[t].fd))
      BY <1>1, <1>2, <2>1, ReachKept DEF table
    <3>. QED  BY <1>0, <1>1, <2>1, <3>1 DEF Half
  <2>. QED  BY <1>0, <1>2, <2>1, <2>2, <2>3, <2>4, <2>5, LocalStep DEF IInv, OneState
<1>. QED  BY <1>3, <1>4 DEF Redirect

\* _redirect and _read_convert keep the state they have, or go on to free it.
LEMMA ReadInv ==
  ASSUME IInv, NEW t \in Threads, Read(t)
  PROVE  IInv'
<1>0. call[t].pc = "read" /\ call[t].pc # "idle"
  BY DEF Read, At
<1>1. TypeOK /\ Hash(call[t].fd) \in Buckets /\ Half(t)
  BY <1>0, InCall
<1>2. UNCHANGED <<open, mutex, table>>
  BY DEF Read
<1>3. /\ call' \in [Threads -> Calls]
      /\ \A u \in Threads \ {t} : call'[u] = call[u]
      /\ \/ call'[t].pc = "idle"
         \/ call'[t].pc = "unlink" /\ call'[t].fd = call[t].fd /\ call'[t].st = call[t].st
  BY <1>1, GotoEffect, ReturnEffect DEF Read, Pcs
<1>4. TypeOK'
  BY <1>1, <1>3 DEF Read, TypeOK, table
<1>5. MutexSound'
  BY <1>0, <1>2, <1>3 DEF IInv, MutexSound, Holding
<1>6. CallsApart' /\ OpSound'
  BY <1>0, <1>2, <1>3 DEF IInv, CallsApart, OpSound
<1>7. Half(t)'
  <2>1. UNCHANGED <<fd, lh_first, le_next>>
    BY <1>2 DEF table
  <2>2. call'[t].pc = "unlink" => Reach(Hash(call[t].fd))' = Reach(Hash(call[t].fd))
    BY <1>1, <1>3, <2>1, ReachKept
  <2>. QED  BY <1>0, <1>1, <1>3, <2>1, <2>2 DEF Half
<1>. QED  BY <1>0, <1>2, <1>3, <1>4, <1>5, <1>6, <1>7, LocalStep DEF IInv, OneState

\* lclose gives back a descriptor that has no state left.
LEMMA LCloseInv ==
  ASSUME IInv, NEW t \in Threads, LClose(t)
  PROVE  IInv'
<1>0. call[t].pc = "lclose" /\ call[t].pc # "idle"
  BY DEF LClose, At
<1>1. TypeOK /\ Half(t)
  BY <1>0, InCall
<1>2. /\ call' \in [Threads -> Calls] /\ call'[t].pc = "idle"
      /\ \A u \in Threads \ {t} : call'[u] = call[u]
  BY <1>1, ReturnEffect DEF LClose
<1>3. TypeOK'
  BY <1>1, <1>2 DEF LClose, TypeOK, table
<1>4. MutexSound'
  BY <1>0, <1>2 DEF LClose, IInv, MutexSound, Holding
<1>5. CallsApart' /\ OpSound'
  BY <1>0, <1>2 DEF LClose, IInv, CallsApart, OpSound
<1>6. Half(t)'
  BY <1>2 DEF Half
<1>7. \A s \in Cells : fd[s] # Nil => fd[s] \in open'
  BY <1>0, <1>1 DEF LClose, IInv, OneState, Half
<1>. QED  BY <1>0, <1>2, <1>3, <1>4, <1>5, <1>6, <1>7, LocalStep DEF LClose

-----------------------------------------------------------------------------
(***************************************************************************)
(* The steps that change the table.                                        *)
(***************************************************************************)

\* _alloc gets a cell for a descriptor that has no state.
LEMMA MallocInv ==
  ASSUME IInv, NEW t \in Threads, Malloc(t)
  PROVE  IInv'
<1>0. call[t].pc = "malloc" /\ call[t].pc # "idle"
  BY DEF Malloc, At
<1>1. TypeOK /\ call[t].fd \in Fds /\ call[t].fd \in open /\ call[t].fd # Nil /\ Half(t)
  BY <1>0, InCall, ProcessAssumption
<1>2. UNCHANGED <<open, mutex, lh_first, le_next, le_prev>>
  BY DEF Malloc
<1>3. CASE Return(t) /\ UNCHANGED fd
  <2>1. /\ call' \in [Threads -> Calls] /\ call'[t].pc = "idle"
        /\ \A u \in Threads \ {t} : call'[u] = call[u]
    BY <1>1, <1>3, ReturnEffect
  <2>2. TypeOK'
    BY <1>1, <1>3, <2>1 DEF Malloc, TypeOK
  <2>3. MutexSound'
    BY <1>0, <1>2, <2>1 DEF IInv, MutexSound, Holding
  <2>4. CallsApart' /\ OpSound'
    BY <1>0, <1>2, <2>1 DEF IInv, CallsApart, OpSound
  <2>5. Half(t)'
    BY <2>1 DEF Half
  <2>. QED
    BY <1>0, <1>2, <1>3, <2>1, <2>2, <2>3, <2>4, <2>5, LocalStep DEF table, IInv, OneState
<1>4. ASSUME NEW s \in Cells, fd[s] = Nil, fd' = [fd EXCEPT ![s] = call[t].fd],
             call' = [call EXCEPT ![t] = [@ EXCEPT !.pc = "insert", !.st = s]]
      PROVE  IInv'
  <2>1. /\ call' \in [Threads -> Calls]
        /\ \A u \in Threads \ {t} : call'[u] = call[u]
        /\ call'[t].pc = "insert" /\ call'[t].op = call[t].op
        /\ call'[t].fd = call[t].fd /\ call'[t].st = s
    BY <1>1, <1>4, MoveEffect DEF Pcs, Ptr
  <2>2. /\ \A b \in Buckets : Reach(b)' = Reach(b)
        /\ \A u \in Cells : InTable(u)' <=> InTable(u)
        /\ \A p : From(le_next', p) = From(le_next, p)
    BY <1>2, ReachKept
  <2>3. ~InTable(s)
    BY <1>4, ProcessAssumption DEF InTable, IInv, InBucket
  <2>4. /\ fd'[s] = call[t].fd
        /\ \A u \in Cells : u # s => fd'[u] = fd[u]
    BY <1>1, <1>4 DEF TypeOK
  <2>5. \A b \in Buckets : \A u \in Reach(b) : u \in Cells /\ u # s /\ fd'[u] = fd[u]
    BY <1>1, <2>3, <2>4, ReachClosed DEF InTable
  <2>6. TypeOK'
    BY <1>1, <1>2, <1>4, <2>1 DEF Malloc, TypeOK
  <2>7. MutexSound'
    BY <1>0, <1>2, <2>1 DEF IInv, MutexSound, Holding
  <2>8. CallsApart' /\ OpSound'
    BY <1>0, <1>2, <2>1 DEF IInv, CallsApart, OpSound
  <2>9. InBucket'
    BY <2>2, <2>5 DEF IInv, InBucket
  <2>10. OneState'
    BY <1>0, <1>1, <1>2, <2>4 DEF IInv, OneState, Half
  <2>11. Accounted'
    <3>. SUFFICES ASSUME NEW w \in Cells, fd'[w] # Nil, ~InTable(w)
                  PROVE  \E u \in Threads : call'[u].pc \in {"insert", "link", "free"} /\ call'[u].st = w
      BY <2>2 DEF Accounted
    <3>1. CASE w = s
      BY <3>1, <2>1
    <3>2. CASE w # s
      <4>1. PICK u \in Threads : call[u].pc \in {"insert", "link", "free"} /\ call[u].st = w
        BY <3>2, <2>4 DEF IInv, Accounted
      <4>. QED  BY <4>1, <1>0, <2>1
    <3>. QED  BY <3>1, <3>2
  <2>12. HeadBack'
    <3>. SUFFICES ASSUME NEW b \in Buckets, lh_first[b] # Nil, le_prev[lh_first[b]] # First(b)
                  PROVE  \E u \in Threads : call'[u].pc = "link" /\ Hash(call'[u].fd) = b
      BY <1>2 DEF HeadBack, First
    <3>1. PICK u \in Threads : call[u].pc = "link" /\ Hash(call[u].fd) = b
      BY DEF IInv, HeadBack
    <3>. QED  BY <1>0, <2>1, <3>1
  <2>13. NextBack'
    <3>. SUFFICES ASSUME NEW b \in Buckets, NEW w \in Reach(b), le_next[w] # Nil,
                         le_prev[le_next[w]] # NextOf(w)
                  PROVE  \E u \in Threads : call'[u].pc = "detach" /\ call'[u].st = w
      BY <1>2, <2>2 DEF NextBack, NextOf
    <3>1. PICK u \in Threads : call[u].pc = "detach" /\ call[u].st = w
      BY DEF IInv, NextBack
    <3>. QED  BY <1>0, <2>1, <3>1
  <2>14. Half(t)'
    BY <2>1, <2>2, <2>3, <2>4 DEF Half
  <2>15. ASSUME NEW u \in Threads \ {t}, call[u].pc # "idle"  PROVE Half(u)'
    <3>1. call'[u] = call[u] /\ Half(u) /\ call[u].fd \in Fds /\ Hash(call[u].fd) \in Buckets
      BY <2>1, <2>15, InCall
    <3>2. call[u].fd # call[t].fd /\ call[u].fd # Nil
      BY <1>0, <2>15, StatesApart, ProcessAssumption
    <3>3. From(le_next, call[u].st)' = From(le_next, call[u].st)
      BY <1>2, <2>2, <3>1
    <3>4. \A w \in Cells : fd'[w] = call[u].fd <=> fd[w] = call[u].fd
      BY <1>4, <2>4, <3>2
    <3>5. Reach(Hash(call[u].fd)) \subseteq Cells
      BY <1>1, <3>1, ReachClosed
    <3>. QED  BY <1>2, <2>2, <3>1, <3>3, <3>4, <3>5 DEF Half, NextOf
  <2>16. Halves'
    <3>1. ASSUME NEW u \in Threads \ {t}, call[u].pc = "idle"  PROVE Half(u)'
      BY <2>1, <3>1 DEF Half
    <3>. QED  BY <2>14, <2>15, <3>1 DEF Halves
  <2>. QED
    BY <2>6, <2>7, <2>8, <2>9, <2>10, <2>11, <2>12, <2>13, <2>16 DEF IInv
<1>. QED  BY <1>3, <1>4 DEF Malloc


\* The first half of LIST_INSERT_HEAD changes no list.
LEMMA InsertLists ==
  ASSUME IInv, NEW t \in Threads, Insert(t)
  PROVE  /\ \A b \in Buckets : Reach(b)' = Reach(b)
         /\ \A u \in Cells : InTable(u)' <=> InTable(u)
<1>. DEFINE s == call[t].st
<1>0. call[t].pc = "insert" /\ call[t].pc # "idle"
  BY DEF Insert, At
<1>1. TypeOK /\ Hash(call[t].fd) \in Buckets /\ s \in Cells /\ ~InTable(s)
  BY <1>0, InCall DEF Half
<1>2. le_next' = [le_next EXCEPT ![s] = lh_first[Hash(call[t].fd)]] /\ UNCHANGED lh_first
  BY DEF Insert
<1>3. ASSUME NEW b \in Buckets  PROVE Reach(b)' = Reach(b)
  <2>1. le_next \in [Cells -> Ptr] /\ lh_first[b] \in Ptr /\ lh_first[Hash(call[t].fd)] \in Ptr
    BY <1>1 DEF TypeOK
  <2>2. s \notin From(le_next, lh_first[b])
    BY <1>1 DEF InTable, Reach
  <2>3. From(le_next', lh_first[b]) = From(le_next, lh_first[b])
    BY <1>1, <1>2, <2>1, <2>2, FromElsewhere
  <2>. QED  BY <1>2, <2>3 DEF Reach
<1>. QED  BY <1>3 DEF InTable

\* The first half of LIST_INSERT_HEAD breaks only the way back to the head.
LEMMA InsertInv ==
  ASSUME IInv, NEW t \in Threads, Insert(t)
  PROVE  IInv'
<1>. DEFINE s == call[t].st
            b == Hash(call[t].fd)
<1>0. call[t].pc = "insert" /\ call[t].pc # "idle" /\ mutex = Nil /\ mutex' = t
  BY DEF Insert, At, Take
<1>1. /\ TypeOK /\ b \in Buckets /\ s \in Cells /\ ~InTable(s) /\ fd[s] = call[t].fd
      /\ lh_first[b] \in Ptr
  BY <1>0, InCall DEF Half, TypeOK
<1>2. UNCHANGED <<open, fd, lh_first>> /\ le_next' = [le_next EXCEPT ![s] = lh_first[b]]
  BY DEF Insert
<1>3. /\ \A a \in Buckets : Reach(a)' = Reach(a)
      /\ \A u \in Cells : InTable(u)' <=> InTable(u)
  BY InsertLists
<1>4. /\ call' \in [Threads -> Calls]
      /\ \A u \in Threads \ {t} : call'[u] = call[u]
      /\ call'[t].pc = "link" /\ call'[t].op = call[t].op
      /\ call'[t].fd = call[t].fd /\ call'[t].st = s
  BY <1>1, GotoEffect DEF Insert, Pcs
<1>5. /\ le_prev' \in [Cells -> {First(a) : a \in Buckets} \cup {NextOf(u) : u \in Ptr}]
      /\ \A u \in Cells : le_prev'[u] = IF u = lh_first[b] THEN NextOf(s) ELSE le_prev[u]
  BY <1>1, PointBackType DEF Insert, Ptr
<1>6. /\ le_next' \in [Cells -> Ptr] /\ le_next'[s] = lh_first[b]
      /\ \A u \in Cells : u # s => le_next'[u] = le_next[u]
  BY <1>1, <1>2 DEF TypeOK
<1>7. \A a \in Buckets : \A u \in Reach(a) : u \in Cells /\ u # s /\ le_next'[u] = le_next[u]
  BY <1>1, <1>6, ReachClosed DEF InTable
<1>8. \A u \in Threads : call[u].pc \notin Holding
  BY <1>0, TakenFree
<1>9. TypeOK'
  BY <1>0, <1>1, <1>2, <1>4, <1>5, <1>6 DEF Insert, TypeOK
<1>10. MutexSound'
  BY <1>0, <1>4, <1>8 DEF MutexSound, Holding
<1>11. CallsApart' /\ OpSound'
  BY <1>0, <1>2, <1>4 DEF IInv, CallsApart, OpSound
<1>12. InBucket' /\ OneState'
  BY <1>2, <1>3 DEF IInv, InBucket, OneState
<1>13. Accounted'
  <2>. SUFFICES ASSUME NEW w \in Cells, fd[w] # Nil, ~InTable(w)
                PROVE  \E u \in Threads : call'[u].pc \in {"insert", "link", "free"} /\ call'[u].st = w
    BY <1>2, <1>3 DEF Accounted
  <2>1. PICK u \in Threads : call[u].pc \in {"insert", "link", "free"} /\ call[u].st = w
    BY DEF IInv, Accounted
  <2>. QED  BY <2>1, <1>4
<1>14. HeadBack'
  <2>. SUFFICES ASSUME NEW a \in Buckets, lh_first[a] # Nil, a # b
                PROVE  le_prev'[lh_first[a]] = First(a)
    BY <1>2, <1>4 DEF HeadBack, First
  <2>1. lh_first[a] \in Reach(a) /\ (lh_first[b] # Nil => lh_first[b] \in Reach(b))
    BY <1>1, ReachClosed
  <2>2. lh_first[a] # lh_first[b] /\ lh_first[a] \in Cells
    BY <1>1, <2>1, ListsApart, ReachClosed
  <2>3. le_prev[lh_first[a]] = First(a)
    BY <1>8 DEF IInv, HeadBack, Holding
  <2>. QED  BY <1>5, <2>2, <2>3
<1>15. NextBack'
  <2>. SUFFICES ASSUME NEW a \in Buckets, NEW w \in Reach(a), le_next[w] # Nil
                PROVE  le_prev'[le_next[w]] = NextOf(w)
    BY <1>3, <1>7 DEF NextBack, NextOf
  <2>1. le_prev[le_next[w]] = NextOf(w)
    BY <1>8 DEF IInv, NextBack, Holding
  <2>2. le_next[w] \in Reach(a) /\ le_next[w] \in Cells
    BY <1>1, ReachClosed
  <2>3. le_next[w] # lh_first[b]
    <3>. SUFFICES ASSUME le_next[w] = lh_first[b]  PROVE FALSE
      OBVIOUS
    <3>1. le_prev[lh_first[b]] = First(b)
      BY <1>1, <1>8 DEF IInv, HeadBack, Holding
    <3>. QED  BY <2>1, <3>1 DEF First, NextOf
  <2>. QED  BY <1>5, <2>1, <2>2, <2>3
<1>16. Half(t)'
  <2>1. lh_first[b] # Nil => le_prev'[lh_first[b]] = NextOf(s)
    BY <1>1, <1>5 DEF Ptr
  <2>2. Hash(call'[t].fd) = b /\ call'[t].st = s
    BY <1>4
  <2>. QED  BY <1>1, <1>2, <1>3, <1>4, <1>6, <2>1, <2>2 DEF Half, NextOf
<1>17. ASSUME NEW u \in Threads \ {t}, call[u].pc # "idle"  PROVE Half(u)'
  <2>1. call'[u] = call[u] /\ Half(u) /\ Hash(call[u].fd) \in Buckets
    BY <1>4, <1>17, InCall
  <2>. QED  BY <1>2, <1>3, <1>8, <2>1 DEF Half, Holding
<1>18. Halves'
  <2>1. ASSUME NEW u \in Threads \ {t}, call[u].pc = "idle"  PROVE Half(u)'
    BY <1>4, <2>1 DEF Half
  <2>. QED  BY <1>16, <1>17, <2>1 DEF Halves
<1>. QED
  BY <1>9, <1>10, <1>11, <1>12, <1>13, <1>14, <1>15, <1>18 DEF IInv


\* The second half of LIST_INSERT_HEAD adds the state to its list, and to no
\* other.
LEMMA LinkLists ==
  ASSUME IInv, NEW t \in Threads, Link(t)
  PROVE  /\ \A b \in Buckets :
              Reach(b)' = IF b = Hash(call[t].fd) THEN Reach(b) \cup {call[t].st} ELSE Reach(b)
         /\ \A u \in Cells : InTable(u)' <=> InTable(u) \/ u = call[t].st
<1>. DEFINE s == call[t].st
            h == Hash(call[t].fd)
<1>0. call[t].pc = "link" /\ call[t].pc # "idle"
  BY DEF Link, At
<1>1. TypeOK /\ h \in Buckets /\ s \in Cells /\ le_next[s] = lh_first[h]
  BY <1>0, InCall DEF Half
<1>2. lh_first' = [lh_first EXCEPT ![h] = s] /\ UNCHANGED le_next
  BY DEF Link
<1>3. le_next \in [Cells -> Ptr] /\ lh_first \in [Buckets -> Ptr]
  BY <1>1 DEF TypeOK
<1>4. From(le_next, s) = {s} \cup From(le_next, lh_first[h])
  BY <1>1, <1>3, FromUnfold
<1>5. ASSUME NEW b \in Buckets
      PROVE  Reach(b)' = IF b = h THEN Reach(b) \cup {s} ELSE Reach(b)
  BY <1>1, <1>2, <1>3, <1>4 DEF Reach
<1>6. ASSUME NEW u \in Cells  PROVE InTable(u)' <=> InTable(u) \/ u = s
  BY <1>1, <1>5 DEF InTable
<1>. QED  BY <1>5, <1>6

\* The second half of LIST_INSERT_HEAD mends it.
LEMMA LinkInv ==
  ASSUME IInv, NEW t \in Threads, Link(t)
  PROVE  IInv'
<1>. DEFINE s == call[t].st
            b == Hash(call[t].fd)
<1>0. call[t].pc = "link" /\ call[t].pc # "idle" /\ mutex' = Nil
  BY DEF Link, At, Release
<1>1. /\ TypeOK /\ b \in Buckets /\ s \in Cells /\ ~InTable(s) /\ fd[s] = call[t].fd
      /\ fd[s] \in Fds /\ le_next[s] = lh_first[b]
      /\ lh_first[b] # Nil => le_prev[lh_first[b]] = NextOf(s)
  BY <1>0, InCall DEF Half
<1>2. /\ UNCHANGED <<open, fd, le_next>>
      /\ lh_first' = [lh_first EXCEPT ![b] = s]
      /\ le_prev' = [le_prev EXCEPT ![s] = First(b)]
  BY DEF Link
<1>3. /\ \A a \in Buckets : Reach(a)' = IF a = b THEN Reach(a) \cup {s} ELSE Reach(a)
      /\ \A u \in Cells : InTable(u)' <=> InTable(u) \/ u = s
  BY LinkLists
<1>4. /\ call' \in [Threads -> Calls] /\ call'[t].pc = "idle"
      /\ \A u \in Threads \ {t} : call'[u] = call[u]
  BY <1>1, ReturnEffect DEF Link
<1>5. /\ le_prev'[s] = First(b)
      /\ \A u \in Cells : u # s => le_prev'[u] = le_prev[u]
      /\ lh_first'[b] = s /\ \A a \in Buckets : a # b => lh_first'[a] = lh_first[a]
  BY <1>1, <1>2 DEF TypeOK
<1>6. \A a \in Buckets : \A u \in Reach(a) : u \in Cells /\ u # s
  BY <1>1, ReachClosed DEF InTable
<1>7. mutex = t /\ \A u \in Threads \ {t} : call[u].pc \notin Holding
  BY <1>0, HolderAlone DEF Holding, IInv, MutexSound
<1>8. TypeOK'
  BY <1>0, <1>1, <1>2, <1>4 DEF Link, TypeOK, Ptr
<1>9. MutexSound'
  BY <1>0, <1>4, <1>7, ProcessAssumption DEF MutexSound, Holding
<1>10. CallsApart' /\ OpSound'
  BY <1>0, <1>2, <1>4 DEF IInv, CallsApart, OpSound
<1>11. InBucket' /\ OneState'
  BY <1>1, <1>2, <1>3 DEF IInv, InBucket, OneState
<1>12. Accounted'
  <2>. SUFFICES ASSUME NEW w \in Cells, fd[w] # Nil, ~InTable(w), w # s
                PROVE  \E u \in Threads : call'[u].pc \in {"insert", "link", "free"} /\ call'[u].st = w
    BY <1>2, <1>3 DEF Accounted
  <2>1. PICK u \in Threads : call[u].pc \in {"insert", "link", "free"} /\ call[u].st = w
    BY DEF IInv, Accounted
  <2>. QED  BY <2>1, <1>4
<1>13. HeadBack'
  <2>. SUFFICES ASSUME NEW a \in Buckets, lh_first'[a] # Nil
                PROVE  le_prev'[lh_first'[a]] = First(a)
    BY DEF HeadBack, First
  <2>1. CASE a = b
    BY <1>5, <2>1
  <2>2. CASE a # b
    <3>1. lh_first[a] \in Reach(a) /\ le_prev[lh_first[a]] = First(a)
      <4>1. lh_first[a] # Nil
        BY <1>5, <2>2
      <4>. QED  BY <1>1, <1>7, <2>2, <4>1, ReachClosed DEF IInv, HeadBack, Holding
    <3>. QED  BY <1>5, <1>6, <2>2, <3>1
  <2>. QED  BY <2>1, <2>2
<1>14. NextBack'
  <2>1. ASSUME NEW a \in Buckets, NEW w \in Reach(a), le_next[w] # Nil
        PROVE  le_prev'[le_next[w]] = NextOf(w)
    <3>1. le_prev[le_next[w]] = NextOf(w)
      BY <1>0, <1>7, <2>1 DEF IInv, NextBack, Holding
    <3>2. le_next[w] \in Reach(a)
      BY <1>1, <2>1, ReachClosed
    <3>. QED  BY <1>5, <1>6, <3>1, <3>2
  <2>2. ASSUME le_next[s] # Nil  PROVE le_prev'[le_next[s]] = NextOf(s)
    <3>1. lh_first[b] \in Reach(b)
      BY <1>1, <2>2, ReachClosed
    <3>. QED  BY <1>1, <1>5, <1>6, <2>2, <3>1
  <2>. QED  BY <1>2, <1>3, <2>1, <2>2 DEF NextBack, NextOf
<1>15. ASSUME NEW u \in Threads \ {t}, call[u].pc # "idle"  PROVE Half(u)'
  <2>1. call'[u] = call[u] /\ Half(u) /\ Hash(call[u].fd) \in Buckets /\ call[u].pc \notin Holding
    BY <1>4, <1>7, <1>15, InCall
  <2>2. call[u].fd # call[t].fd
    BY <1>0, <1>15, StatesApart
  <2>3. Hash(call[u].fd)' = Hash(call[u].fd) /\ Reach(Hash(call[u].fd)) \subseteq Reach(Hash(call[u].fd))'
    BY <1>3, <2>1
  <2>. QED  BY <1>1, <1>2, <1>3, <2>1, <2>2, <2>3 DEF Half, Holding
<1>16. Halves'
  <2>1. ASSUME NEW u \in Threads, u = t \/ call[u].pc = "idle"  PROVE Half(u)'
    BY <1>4, <2>1 DEF Half
  <2>. QED  BY <1>15, <2>1 DEF Halves
<1>. QED
  BY <1>8, <1>9, <1>10, <1>11, <1>12, <1>13, <1>14, <1>16 DEF IInv

\* The first half of LIST_REMOVE breaks only the way back to the state that goes.
LEMMA UnlinkInv ==
  ASSUME IInv, NEW t \in Threads, Unlink(t)
  PROVE  IInv'
<1>. DEFINE s == call[t].st
            b == Hash(call[t].fd)
            n == le_next[s]
<1>0. call[t].pc = "unlink" /\ call[t].pc # "idle" /\ mutex = Nil /\ mutex' = t
  BY DEF Unlink, At, Take
<1>1. /\ TypeOK /\ b \in Buckets /\ s \in Reach(b) /\ fd[s] = call[t].fd
      /\ Reach(b) \subseteq Cells /\ s \in Cells /\ n \in Ptr /\ s # Nil
  BY <1>0, InCall, ReachClosed, ProcessAssumption DEF Half, TypeOK
<1>2. UNCHANGED <<open, fd, lh_first, le_next>>
  BY DEF Unlink
<1>3. /\ \A a \in Buckets : Reach(a)' = Reach(a)
      /\ \A u \in Cells : InTable(u)' <=> InTable(u)
  BY <1>2, ReachKept
<1>4. /\ call' \in [Threads -> Calls]
      /\ \A u \in Threads \ {t} : call'[u] = call[u]
      /\ call'[t].pc = "detach" /\ call'[t].op = call[t].op
      /\ call'[t].fd = call[t].fd /\ call'[t].st = s
  BY <1>1, GotoEffect DEF Unlink, Pcs
<1>5. \A u \in Threads : call[u].pc \notin Holding
  BY <1>0, TakenFree
<1>6. /\ \A a \in Buckets : lh_first[a] # Nil => le_prev[lh_first[a]] = First(a)
      /\ \A a \in Buckets : \A w \in Reach(a) : le_next[w] # Nil => le_prev[le_next[w]] = NextOf(w)
  BY <1>5 DEF IInv, HeadBack, NextBack, Holding
<1>7. /\ le_prev' \in [Cells -> {First(a) : a \in Buckets} \cup {NextOf(u) : u \in Ptr}]
      /\ \A u \in Cells : le_prev'[u] = IF u = n THEN le_prev[s] ELSE le_prev[u]
  <2>1. le_prev[s] \in {First(a) : a \in Buckets} \cup {NextOf(u) : u \in Ptr}
    BY <1>1 DEF TypeOK
  <2>. QED  BY <1>1, <2>1, PointBackType DEF Unlink
<1>8. n # s
  <2>. SUFFICES ASSUME n = s  PROVE FALSE
    OBVIOUS
  <2>1. le_prev[s] = NextOf(s)
    BY <1>1, <1>6
  <2>2. s # lh_first[b]
    BY <1>1, <1>6, <2>1 DEF First, NextOf
  <2>3. PICK w \in Reach(b) : w # s /\ le_next[w] = s
    BY <1>1, <2>2, FromPred DEF TypeOK, Reach
  <2>4. le_prev[s] = NextOf(w)
    BY <1>1, <1>6, <2>3
  <2>. QED  BY <2>1, <2>3, <2>4 DEF NextOf
<1>9. TypeOK'
  BY <1>0, <1>1, <1>2, <1>4, <1>7 DEF Unlink, TypeOK
<1>10. MutexSound'
  BY <1>0, <1>4, <1>5 DEF MutexSound, Holding
<1>11. CallsApart' /\ OpSound'
  BY <1>0, <1>2, <1>4 DEF IInv, CallsApart, OpSound
<1>12. InBucket' /\ OneState'
  BY <1>2, <1>3 DEF IInv, InBucket, OneState
<1>13. Accounted'
  <2>. SUFFICES ASSUME NEW w \in Cells, fd[w] # Nil, ~InTable(w)
                PROVE  \E u \in Threads : call'[u].pc \in {"insert", "link", "free"} /\ call'[u].st = w
    BY <1>2, <1>3 DEF Accounted
  <2>1. PICK u \in Threads : call[u].pc \in {"insert", "link", "free"} /\ call[u].st = w
    BY DEF IInv, Accounted
  <2>. QED  BY <2>1, <1>0, <1>4
<1>14. HeadBack'
  <2>. SUFFICES ASSUME NEW a \in Buckets, lh_first[a] # Nil
                PROVE  le_prev'[lh_first[a]] = First(a)
    BY <1>2 DEF HeadBack, First
  <2>1. lh_first[a] # n
    <3>. SUFFICES ASSUME lh_first[a] = n  PROVE FALSE
      OBVIOUS
    <3>1. le_prev[n] = NextOf(s) /\ le_prev[n] = First(a)
      BY <1>1, <1>6
    <3>. QED  BY <3>1 DEF First, NextOf
  <2>2. lh_first[a] \in Cells
    BY <1>1, ReachClosed
  <2>. QED  BY <1>6, <1>7, <2>1, <2>2
<1>15. NextBack'
  <2>. SUFFICES ASSUME NEW a \in Buckets, NEW w \in Reach(a), le_next[w] # Nil, w # s
                PROVE  le_prev'[le_next[w]] = NextOf(w)
    BY <1>2, <1>3, <1>4 DEF NextBack, NextOf
  <2>1. le_next[w] # n
    <3>. SUFFICES ASSUME le_next[w] = n  PROVE FALSE
      OBVIOUS
    <3>1. le_prev[n] = NextOf(s) /\ le_prev[n] = NextOf(w)
      BY <1>1, <1>6
    <3>. QED  BY <3>1 DEF NextOf
  <2>2. le_next[w] \in Cells
    BY <1>1, ReachClosed
  <2>. QED  BY <1>6, <1>7, <2>1, <2>2
<1>16. Half(t)'
  <2>1. le_prev'[s] = le_prev[s] /\ (n # Nil => le_prev'[n] = le_prev[s])
    BY <1>1, <1>7, <1>8 DEF Ptr
  <2>2. Hash(call'[t].fd) = b /\ call'[t].st = s /\ Reach(Hash(call[t].fd))' = Reach(b)
    BY <1>1, <1>3, <1>4
  <2>. QED  BY <1>1, <1>2, <1>4, <1>8, <2>1, <2>2 DEF Half
<1>17. ASSUME NEW u \in Threads \ {t}, call[u].pc # "idle"  PROVE Half(u)'
  <2>1. call'[u] = call[u] /\ Half(u) /\ Hash(call[u].fd) \in Buckets
    BY <1>4, <1>17, InCall
  <2>. QED  BY <1>2, <1>3, <1>5, <2>1 DEF Half, Holding
<1>18. Halves'
  <2>1. ASSUME NEW u \in Threads \ {t}, call[u].pc = "idle"  PROVE Half(u)'
    BY <1>4, <2>1 DEF Half
  <2>. QED  BY <1>16, <1>17, <2>1 DEF Halves
<1>. QED
  BY <1>9, <1>10, <1>11, <1>12, <1>13, <1>14, <1>15, <1>18 DEF IInv


\* In the middle of LIST_REMOVE, le_prev is the address of the one pointer that
\* leads to the state: the head of its bucket, or the link of another state.
LEMMA DetachPointer ==
  ASSUME IInv, NEW t \in Threads, call[t].pc = "detach",
         NEW s, s = call[t].st, NEW b, b = Hash(call[t].fd)
  PROVE  \/ /\ le_prev[s] = First(b) /\ lh_first[b] = s
            /\ \A w \in Reach(b) : le_next[w] # s
         \/ \E u \in Reach(b) :
              /\ le_prev[s] = NextOf(u) /\ le_next[u] = s /\ u # s /\ lh_first[b] # s
              /\ \A w \in Reach(b) : le_next[w] = s => w = u
<1>0. call[t].pc # "idle"
  OBVIOUS
<1>1. /\ TypeOK /\ b \in Buckets /\ s \in Reach(b) /\ le_next[s] # s
      /\ Reach(b) \subseteq Cells /\ s \in Cells /\ s # Nil
  BY <1>0, InCall, ReachClosed, ProcessAssumption DEF Half
<1>2. \A u \in Threads \ {t} : call[u].pc \notin Holding
  BY HolderAlone DEF Holding
<1>3. lh_first[b] = s => le_prev[s] = First(b)
  BY <1>1, <1>2 DEF IInv, HeadBack, Holding
<1>4. \A w \in Reach(b) : le_next[w] = s => le_prev[s] = NextOf(w) /\ w # s
  BY <1>1, <1>2 DEF IInv, NextBack, Holding
<1>5. CASE lh_first[b] = s
  BY <1>3, <1>4, <1>5 DEF First, NextOf
<1>6. CASE lh_first[b] # s
  <2>1. PICK u \in Reach(b) : u # s /\ le_next[u] = s
    BY <1>1, <1>6, FromPred DEF Reach, TypeOK
  <2>. QED  BY <1>4, <1>6, <2>1 DEF NextOf
<1>. QED  BY <1>5, <1>6

\* What the store through le_prev changes: the head, or the link that leads to s.
LEMMA DetachStore ==
  ASSUME IInv, NEW t \in Threads, Detach(t),
         NEW s, s = call[t].st, NEW b, b = Hash(call[t].fd)
  PROVE  \/ /\ le_prev[s] = First(b) /\ lh_first[b] = s /\ \A w \in Reach(b) : le_next[w] # s
            /\ lh_first' = [lh_first EXCEPT ![b] = le_next[s]] /\ UNCHANGED le_next
         \/ \E u \in Reach(b) :
              /\ le_prev[s] = NextOf(u) /\ le_next[u] = s /\ u # s /\ lh_first[b] # s
              /\ \A w \in Reach(b) : le_next[w] = s => w = u
              /\ le_next' = [le_next EXCEPT ![u] = le_next[s]] /\ UNCHANGED lh_first
<1>0. call[t].pc = "detach" /\ Store(le_prev[s], le_next[s])
  BY DEF Detach, At
<1>1. CASE /\ le_prev[s] = First(b) /\ lh_first[b] = s
           /\ \A w \in Reach(b) : le_next[w] # s
  BY <1>0, <1>1 DEF Store, First, NextOf
<1>2. ASSUME NEW u \in Reach(b), le_prev[s] = NextOf(u), le_next[u] = s, u # s, lh_first[b] # s,
             \A w \in Reach(b) : le_next[w] = s => w = u
      PROVE  /\ le_next' = [le_next EXCEPT ![u] = le_next[s]] /\ UNCHANGED lh_first
  BY <1>0, <1>2 DEF Store, First, NextOf
<1>. QED  BY <1>0, <1>1, <1>2, DetachPointer

\* LIST_REMOVE of a state that is not the first of its list.
LEMMA RemoveMiddle ==
  ASSUME TypeOK, NEW b \in Buckets, NEW s \in Reach(b), NEW u \in Reach(b),
         le_next[u] = s, u # s, lh_first[b] # s, le_next[s] # s,
         \A w \in Reach(b) : le_next[w] = s => w = u,
         le_next' = [le_next EXCEPT ![u] = le_next[s]], UNCHANGED lh_first
  PROVE  Reach(b)' = Reach(b) \ {s}
<1>. DEFINE p == lh_first[b]
            R == From(le_next, p)
            Q == From(le_next', p)
<1>0. R = Reach(b) /\ Q = Reach(b)'
  BY DEF Reach
<1>1. le_next \in [Cells -> Ptr] /\ p \in Ptr /\ R \subseteq Cells /\ s \in Cells /\ u \in Cells
  BY <1>0, FromCells DEF TypeOK
<1>2. /\ le_next' \in [Cells -> Ptr] /\ Q \subseteq Cells
      /\ le_next'[u] = le_next[s] /\ \A w \in Cells : w # u => le_next'[w] = le_next[w]
  BY <1>1, FromCells
<1>3. Closed(le_next, p, R) /\ Closed(le_next', p, Q)
  BY <1>1, <1>2, FromClosed
<1>4. Closed(le_next', p, R \ {s})
  <2>1. p \in (R \ {s}) \cup {Nil}
    BY <1>3 DEF Closed
  <2>2. ASSUME NEW w \in R \ {s}  PROVE le_next'[w] \in (R \ {s}) \cup {Nil}
    <3>1. le_next[w] \in R \cup {Nil} /\ le_next[s] \in R \cup {Nil}
      BY <1>0, <1>3 DEF Closed
    <3>2. w # u => le_next[w] # s
      BY <1>0
    <3>. QED  BY <1>1, <1>2, <3>1, <3>2
  <2>. QED  BY <2>1, <2>2 DEF Closed
<1>5. Q \subseteq R \ {s}
  BY <1>1, <1>4, FromLeast
<1>6. ASSUME u \in Q  PROVE R \subseteq Q \cup {s}
  <2>1. Closed(le_next, p, Q \cup {s})
    BY <1>1, <1>2, <1>3, <1>6 DEF Closed
  <2>2. Q \cup {s} \in SUBSET Cells
    BY <1>1, <1>2
  <2>. HIDE DEF Q
  <2>. QED  BY <2>1, <2>2, FromLeast, Zenon
<1>7. ASSUME u \notin Q  PROVE R \subseteq Q
  <2>1. Closed(le_next, p, Q)
    BY <1>1, <1>2, <1>3, <1>7 DEF Closed
  <2>2. Q \in SUBSET Cells
    BY <1>2
  <2>. QED  BY <2>1, <2>2, FromLeast
<1>. QED  BY <1>0, <1>5, <1>6, <1>7

\* LIST_REMOVE takes the state out of its list, and changes no other.
LEMMA DetachLists ==
  ASSUME IInv, NEW t \in Threads, Detach(t)
  PROVE  /\ \A b \in Buckets :
              Reach(b)' = IF b = Hash(call[t].fd) THEN Reach(b) \ {call[t].st} ELSE Reach(b)
         /\ \A u \in Cells : InTable(u)' <=> InTable(u) /\ u # call[t].st
<1>. DEFINE s == call[t].st
            h == Hash(call[t].fd)
<1>0. call[t].pc = "detach" /\ call[t].pc # "idle"
  BY DEF Detach, At
<1>1. /\ TypeOK /\ h \in Buckets /\ s \in Reach(h) /\ le_next[s] # s
      /\ Reach(h) \subseteq Cells /\ s \in Cells /\ s # Nil
  BY <1>0, InCall, ReachClosed, ProcessAssumption DEF Half
<1>2. le_next \in [Cells -> Ptr] /\ lh_first \in [Buckets -> Ptr]
  BY <1>1 DEF TypeOK
<1>3. ASSUME NEW b \in Buckets
      PROVE  Reach(b)' = IF b = h THEN Reach(b) \ {s} ELSE Reach(b)
  <2>1. CASE /\ lh_first[h] = s /\ \A w \in Reach(h) : le_next[w] # s
             /\ lh_first' = [lh_first EXCEPT ![h] = le_next[s]] /\ UNCHANGED le_next
    <3>1. From(le_next, le_next[s]) = From(le_next, s) \ {s}
      BY <1>1, <1>2, <2>1, FromWithoutFirst DEF Reach
    <3>2. lh_first'[b] = IF b = h THEN le_next[s] ELSE lh_first[b]
      BY <1>2, <2>1
    <3>. QED  BY <2>1, <3>1, <3>2 DEF Reach
  <2>2. ASSUME NEW u \in Reach(h), le_next[u] = s, u # s, lh_first[h] # s,
               \A w \in Reach(h) : le_next[w] = s => w = u,
               le_next' = [le_next EXCEPT ![u] = le_next[s]], UNCHANGED lh_first
        PROVE  Reach(b)' = IF b = h THEN Reach(b) \ {s} ELSE Reach(b)
    <3>1. CASE b = h
      BY <1>1, <2>2, <3>1, RemoveMiddle
    <3>2. CASE b # h
      <4>1. u \notin Reach(b) /\ u \in Cells
        BY <1>1, <2>2, <3>2, ListsApart
      <4>2. From(le_next', lh_first[b]) = From(le_next, lh_first[b])
        BY <1>1, <1>2, <2>2, <4>1, FromElsewhere DEF Reach
      <4>. QED  BY <2>2, <3>2, <4>2 DEF Reach
    <3>. QED  BY <3>1, <3>2
  <2>. QED  BY <2>1, <2>2, DetachStore
<1>4. ASSUME NEW u \in Cells  PROVE InTable(u)' <=> InTable(u) /\ u # s
  <2>1. \A b \in Buckets : s \in Reach(b) => b = h
    BY <1>1, ListsApart
  <2>. QED  BY <1>1, <1>3, <2>1 DEF InTable
<1>. QED  BY <1>3, <1>4

\* The second half of LIST_REMOVE mends it.
LEMMA DetachInv ==
  ASSUME IInv, NEW t \in Threads, Detach(t)
  PROVE  IInv'
<1>. DEFINE s == call[t].st
            b == Hash(call[t].fd)
            n == le_next[s]
<1>0. call[t].pc = "detach" /\ call[t].pc # "idle" /\ mutex' = Nil
  BY DEF Detach, At, Release
<1>1. /\ TypeOK /\ b \in Buckets /\ s \in Reach(b) /\ fd[s] = call[t].fd
      /\ Reach(b) \subseteq Cells /\ s \in Cells /\ n \in Ptr /\ s # Nil
      /\ n # s /\ (n # Nil => le_prev[n] = le_prev[s] /\ n \in Reach(b))
  BY <1>0, InCall, ReachClosed, ProcessAssumption DEF Half, TypeOK
<1>2. UNCHANGED <<open, fd, le_prev>>
  BY DEF Detach
<1>3. /\ \A a \in Buckets : Reach(a)' = IF a = b THEN Reach(a) \ {s} ELSE Reach(a)
      /\ \A u \in Cells : InTable(u)' <=> InTable(u) /\ u # s
  BY DetachLists
<1>4. /\ call' \in [Threads -> Calls]
      /\ \A u \in Threads \ {t} : call'[u] = call[u]
      /\ call'[t].pc = "free" /\ call'[t].op = call[t].op
      /\ call'[t].fd = call[t].fd /\ call'[t].st = s
  BY <1>1, GotoEffect DEF Detach, Pcs
<1>5. mutex = t /\ \A u \in Threads \ {t} : call[u].pc \notin Holding
  BY <1>0, HolderAlone DEF Holding, IInv, MutexSound
<1>6. /\ \A a \in Buckets : lh_first[a] # Nil => le_prev[lh_first[a]] = First(a)
      /\ \A a \in Buckets : \A w \in Reach(a) :
           le_next[w] # Nil /\ w # s => le_prev[le_next[w]] = NextOf(w)
  BY <1>0, <1>5 DEF IInv, HeadBack, NextBack, Holding
<1>7. TypeOK'
  <2>1. lh_first' \in [Buckets -> Ptr] /\ le_next' \in [Cells -> Ptr]
    BY <1>1, DetachStore DEF TypeOK
  <2>. QED  BY <1>0, <1>1, <1>2, <1>4, <2>1 DEF Detach, TypeOK
<1>8. MutexSound'
  BY <1>0, <1>4, <1>5, ProcessAssumption DEF MutexSound, Holding
<1>9. CallsApart' /\ OpSound'
  BY <1>0, <1>2, <1>4 DEF IInv, CallsApart, OpSound
<1>10. InBucket' /\ OneState'
  BY <1>2, <1>3 DEF IInv, InBucket, OneState
<1>11. Accounted'
  <2>. SUFFICES ASSUME NEW w \in Cells, fd[w] # Nil, ~InTable(w), w # s
                PROVE  \E u \in Threads : call'[u].pc \in {"insert", "link", "free"} /\ call'[u].st = w
    BY <1>2, <1>3, <1>4 DEF Accounted
  <2>1. PICK u \in Threads : call[u].pc \in {"insert", "link", "free"} /\ call[u].st = w
    BY DEF IInv, Accounted
  <2>. QED  BY <2>1, <1>0, <1>4
<1>12. HeadBack'
  <2>. SUFFICES ASSUME NEW a \in Buckets, lh_first'[a] # Nil
                PROVE  le_prev[lh_first'[a]] = First(a)
    BY <1>2 DEF HeadBack, First
  <2>1. CASE lh_first'[a] = lh_first[a]
    BY <1>6, <2>1
  <2>2. CASE lh_first'[a] # lh_first[a]
    <3>1. a = b /\ lh_first'[a] = n /\ le_prev[s] = First(b)
      BY <1>1, <2>2, DetachStore DEF TypeOK
    <3>. QED  BY <1>1, <3>1
  <2>. QED  BY <2>1, <2>2
<1>13. NextBack'
  <2>. SUFFICES ASSUME NEW a \in Buckets, NEW w \in Reach(a), w # s, le_next'[w] # Nil
                PROVE  le_prev[le_next'[w]] = NextOf(w)
    <3>1. \A a \in Buckets : \A w \in Reach(a)' : w \in Reach(a) /\ w # s
      BY <1>1, <1>3, ListsApart
    <3>. QED  BY <1>2, <3>1 DEF NextBack, NextOf
  <2>0. w \in Cells
    BY <1>1, ReachClosed
  <2>1. CASE le_next'[w] = le_next[w]
    BY <1>6, <2>1
  <2>2. CASE le_next'[w] # le_next[w]
    <3>1. le_next'[w] = n /\ le_prev[s] = NextOf(w)
      BY <1>1, <2>0, <2>2, DetachStore DEF TypeOK
    <3>. QED  BY <1>1, <3>1
  <2>. QED  BY <2>1, <2>2
<1>14. Half(t)'
  BY <1>1, <1>2, <1>3, <1>4 DEF Half
<1>15. ASSUME NEW u \in Threads \ {t}, call[u].pc # "idle"  PROVE Half(u)'
  <2>1. call'[u] = call[u] /\ Half(u) /\ Hash(call[u].fd) \in Buckets /\ call[u].pc \notin Holding
    BY <1>4, <1>5, <1>15, InCall
  <2>2. call[u].fd # call[t].fd
    BY <1>0, <1>15, StatesApart
  <2>3. \A w \in Reach(Hash(call[u].fd)) : w # s => w \in Reach(Hash(call[u].fd))'
    BY <1>3, <2>1
  <2>. QED  BY <1>1, <1>2, <1>3, <2>1, <2>2, <2>3 DEF Half, Holding
<1>16. Halves'
  <2>1. ASSUME NEW u \in Threads \ {t}, call[u].pc = "idle"  PROVE Half(u)'
    BY <1>4, <2>1 DEF Half
  <2>. QED  BY <1>14, <1>15, <2>1 DEF Halves
<1>. QED
  BY <1>7, <1>8, <1>9, <1>10, <1>11, <1>12, <1>13, <1>16 DEF IInv


\* free() changes no list: the state is in none.
LEMMA FreeLists ==
  ASSUME IInv, NEW t \in Threads, Free(t)
  PROVE  /\ \A b \in Buckets : Reach(b)' = Reach(b)
         /\ \A u \in Cells : InTable(u)' <=> InTable(u)
         /\ \A b \in Buckets : \A p \in Reach(b) : From(le_next', p) = From(le_next, p)
<1>. DEFINE s == call[t].st
<1>0. call[t].pc = "free" /\ call[t].pc # "idle"
  BY DEF Free, At
<1>1. TypeOK /\ s \in Cells /\ ~InTable(s)
  BY <1>0, InCall DEF Half
<1>2. le_next' = [le_next EXCEPT ![s] = Nil] /\ UNCHANGED lh_first
  BY DEF Free
<1>3. le_next \in [Cells -> Ptr] /\ Nil \in Ptr
  BY <1>1 DEF TypeOK, Ptr
<1>4. ASSUME NEW b \in Buckets  PROVE Reach(b)' = Reach(b)
  <2>1. s \notin From(le_next, lh_first[b]) /\ lh_first[b] \in Ptr
    BY <1>1 DEF InTable, Reach, TypeOK
  <2>2. From(le_next', lh_first[b]) = From(le_next, lh_first[b])
    BY <1>1, <1>2, <1>3, <2>1, FromElsewhere
  <2>. QED  BY <1>2, <2>2 DEF Reach
<1>5. ASSUME NEW b \in Buckets, NEW p \in Reach(b)  PROVE From(le_next', p) = From(le_next, p)
  <2>1. lh_first[b] \in Ptr /\ p \in From(le_next, lh_first[b]) /\ p \in Ptr
    BY <1>1, ReachClosed DEF Reach, TypeOK, Ptr
  <2>2. From(le_next, p) \subseteq Reach(b)
    BY <1>3, <2>1, FromMember DEF Reach
  <2>3. s \notin From(le_next, p)
    BY <1>1, <2>2 DEF InTable
  <2>. QED  BY <1>1, <1>2, <1>3, <2>1, <2>3, FromElsewhere
<1>. QED  BY <1>4, <1>5 DEF InTable

\* free() does not disturb a call that is in the middle of a list.
LEMMA FreeInv ==
  ASSUME IInv, NEW t \in Threads, Free(t)
  PROVE  IInv'
<1>. DEFINE s == call[t].st
<1>0. call[t].pc = "free" /\ call[t].pc # "idle"
  BY DEF Free, At
<1>1. TypeOK /\ s \in Cells /\ ~InTable(s) /\ fd[s] = call[t].fd
  BY <1>0, InCall DEF Half
<1>2. UNCHANGED <<open, mutex, lh_first>>
  BY DEF Free
<1>3. /\ \A b \in Buckets : Reach(b)' = Reach(b)
      /\ \A u \in Cells : InTable(u)' <=> InTable(u)
      /\ \A b \in Buckets : \A p \in Reach(b) : From(le_next', p) = From(le_next, p)
  BY FreeLists
<1>4. /\ call' \in [Threads -> Calls]
      /\ \A u \in Threads \ {t} : call'[u] = call[u]
      /\ call'[t].pc \in {"lclose", "idle"}
      /\ call'[t].pc # "idle" => call'[t].fd = call[t].fd
  BY <1>1, MissedEffect DEF Free, Missed
<1>5. /\ fd'[s] = Nil
      /\ \A u \in Cells : u # s => /\ fd'[u] = fd[u] /\ le_next'[u] = le_next[u]
                                   /\ le_prev'[u] = le_prev[u]
  BY <1>1 DEF Free, TypeOK
<1>6. \A b \in Buckets : \A u \in Reach(b) : u \in Cells /\ u # s
  BY <1>1, ReachClosed DEF InTable
<1>7. TypeOK'
  <2>1. NextOf(Nil) \in {NextOf(u) : u \in Ptr} /\ Nil \in Ptr
    BY DEF Ptr
  <2>. QED  BY <1>1, <1>2, <1>4, <2>1 DEF Free, TypeOK
<1>8. MutexSound'
  BY <1>0, <1>2, <1>4 DEF IInv, MutexSound, Holding
<1>9. CallsApart' /\ OpSound'
  BY <1>0, <1>2, <1>4 DEF IInv, CallsApart, OpSound
<1>10. InBucket'
  BY <1>3, <1>5, <1>6 DEF IInv, InBucket
<1>11. OneState'
  BY <1>1, <1>2, <1>5 DEF IInv, OneState
<1>12. Accounted'
  <2>. SUFFICES ASSUME NEW w \in Cells, w # s, fd[w] # Nil, ~InTable(w)
                PROVE  \E u \in Threads : call'[u].pc \in {"insert", "link", "free"} /\ call'[u].st = w
    BY <1>3, <1>5 DEF Accounted
  <2>1. PICK u \in Threads : call[u].pc \in {"insert", "link", "free"} /\ call[u].st = w
    BY DEF IInv, Accounted
  <2>. QED  BY <2>1, <1>4
<1>13. HeadBack'
  <2>. SUFFICES ASSUME NEW b \in Buckets, lh_first[b] # Nil, le_prev[lh_first[b]] # First(b)
                PROVE  \E u \in Threads : call'[u].pc = "link" /\ Hash(call'[u].fd) = b
    <3>1. \A b \in Buckets : lh_first[b] # Nil => lh_first[b] \in Reach(b)
      BY <1>1, ReachClosed
    <3>. QED  BY <1>2, <1>5, <1>6, <3>1 DEF HeadBack, First
  <2>1. PICK u \in Threads : call[u].pc = "link" /\ Hash(call[u].fd) = b
    BY DEF IInv, HeadBack
  <2>. QED  BY <1>0, <1>4, <2>1
<1>14. NextBack'
  <2>. SUFFICES ASSUME NEW b \in Buckets, NEW w \in Reach(b), le_next[w] # Nil,
                       le_prev[le_next[w]] # NextOf(w)
                PROVE  \E u \in Threads : call'[u].pc = "detach" /\ call'[u].st = w
    <3>1. \A b \in Buckets : \A w \in Reach(b) : le_next[w] # Nil => le_next[w] \in Reach(b)
      BY <1>1, ReachClosed
    <3>. QED  BY <1>3, <1>5, <1>6, <3>1 DEF NextBack, NextOf
  <2>1. PICK u \in Threads : call[u].pc = "detach" /\ call[u].st = w
    BY DEF IInv, NextBack
  <2>. QED  BY <1>0, <1>4, <2>1
<1>15. Half(t)'
  <2>1. ASSUME NEW u \in Cells  PROVE fd'[u] # call[t].fd
    <3>1. call[t].fd # Nil
      BY <1>0, InCall, ProcessAssumption
    <3>. QED  BY <1>1, <1>5, <3>1 DEF IInv, OneState
  <2>. QED  BY <1>4, <2>1 DEF Half
<1>16. ASSUME NEW u \in Threads \ {t}, call[u].pc # "idle"  PROVE Half(u)'
  <2>. DEFINE x == call[u].st
              h == Hash(call[u].fd)
  <2>1. call'[u] = call[u] /\ Half(u) /\ h \in Buckets /\ call[u].fd \in Fds /\ call[u].fd # Nil
    BY <1>4, <1>16, InCall, ProcessAssumption
  <2>2. call[u].fd # call[t].fd
    BY <1>0, <1>16, StatesApart
  <2>3. \A w \in Cells : fd'[w] = call[u].fd <=> fd[w] = call[u].fd
    BY <1>1, <1>5, <2>1, <2>2
  <2>4. /\ Reach(h) \subseteq Cells
        /\ lh_first[h] # Nil => lh_first[h] \in Reach(h)
        /\ \A w \in Reach(h) : le_next[w] # Nil => le_next[w] \in Reach(h)
    BY <1>1, <2>1, ReachClosed
  <2>5. /\ call[u].pc \in {"insert", "link", "free"} =>
             x \in Cells /\ fd'[x] = call[u].fd /\ ~InTable(x)
        /\ call[u].pc \in {"redirect", "read", "unlink", "detach"} =>
             x \in Reach(h) /\ fd'[x] = call[u].fd
        /\ call[u].pc \in {"malloc", "lclose"} => \A w \in Cells : fd'[w] # call[u].fd
    BY <2>1, <2>3, <2>4 DEF Half
  <2>6. call[u].pc = "link" =>
          le_next'[x] = lh_first[h] /\ (lh_first[h] # Nil => le_prev'[lh_first[h]] = NextOf(x))
    BY <1>1, <1>5, <1>6, <2>1, <2>2, <2>4, <2>5 DEF Half
  <2>7. call[u].pc = "walk" =>
          /\ x # Nil => x \in Reach(h)
          /\ \A w \in Reach(h) : fd'[w] = call[u].fd => w \in From(le_next', x)
    <3>1. From(le_next', Nil) = From(le_next, Nil)
      BY FromNil
    <3>2. ASSUME call[u].pc = "walk", x # Nil
          PROVE  x \in Reach(h) /\ From(le_next', x) = From(le_next, x)
      BY <1>3, <2>1, <3>2 DEF Half
    <3>. QED  BY <2>1, <2>3, <2>4, <3>1, <3>2 DEF Half
  <2>8. call[u].pc = "detach" =>
          le_next'[x] # x /\ (le_next'[x] # Nil => le_prev'[le_next'[x]] = le_prev'[x])
    BY <1>5, <1>6, <2>1, <2>4, <2>5 DEF Half
  <2>9. Reach(Hash(call[u].fd))' = Reach(h) /\ (x \in Cells => (InTable(call[u].st)' <=> InTable(x)))
    BY <1>3, <2>1
  <2>10. From(le_next, call[u].st)' = From(le_next', x)
    BY <2>1
  <2>. QED  BY <1>2, <2>1, <2>5, <2>6, <2>7, <2>8, <2>9, <2>10 DEF Half, NextOf
<1>17. Halves'
  <2>1. ASSUME NEW u \in Threads \ {t}, call[u].pc = "idle"  PROVE Half(u)'
    BY <1>4, <2>1 DEF Half
  <2>. QED  BY <1>15, <1>16, <2>1 DEF Halves
<1>. QED
  BY <1>7, <1>8, <1>9, <1>10, <1>11, <1>12, <1>13, <1>14, <1>17 DEF IInv

(***************************************************************************)
(* The theorems.                                                           *)
(***************************************************************************)

\* Every step keeps the invariant: one case per action.
LEMMA InvStep == IInv /\ [Next]_vars => IInv'
<1>. SUFFICES ASSUME IInv, [Next]_vars  PROVE IInv'
  OBVIOUS
<1>1. CASE UNCHANGED vars
  <2>1. UNCHANGED <<phase, converter_addr, open, mutex, call, fd, lh_first, le_next, le_prev, fault>>
    BY <1>1 DEF vars, table
  <2>2. TypeOK'
    BY <2>1 DEF IInv, TypeOK
  <2>. QED  BY <2>1, <2>2, QuietStep DEF table
<1>2. CASE Startup \/ Exit \/ Fini \/ Gone
  BY <1>2, OpenSysctlInv, LifeInv DEF Startup
<1>3. ASSUME NEW t \in Threads, Step(t)  PROVE IInv'
  BY <1>3, MallocInv, InsertInv, LinkInv, LockInv, WalkInv, RedirectInv, ReadInv, UnlinkInv,
     DetachInv, FreeInv, LCloseInv DEF Step
<1>4. ASSUME NEW t \in Threads, NEW f \in Fds, Socket(t, f)  PROVE IInv'
  BY <1>4, SocketInv
<1>5. ASSUME NEW t \in Threads, NEW f \in Fds, NEW op \in {"connect", "recv", "close"},
             Enter(t, op, f)
      PROVE  IInv'
  BY <1>5, EnterInv
<1>. QED  BY <1>1, <1>2, <1>3, <1>4, <1>5 DEF Next

\* The invariant holds throughout.
LEMMA Invariance == Spec => []IInv
BY InvInit, InvStep, PTL DEF Spec

\* Type correctness: every variable of the process keeps to its declared set.
THEOREM TypeCorrect == Spec => []TypeOK
<1>1. IInv => TypeOK
  BY DEF IInv
<1>. QED  BY <1>1, Invariance, PTL


\* While the mutex is free the lists are well linked: every state is in the list
\* of its own bucket, and its le_prev is the address of the pointer that leads
\* to it, whatever the threads have inserted and removed.
THEOREM ListsWellLinked == Spec => []WellLinked
<1>1. ASSUME IInv  PROVE WellLinked
  <2>. SUFFICES ASSUME mutex = Nil, NEW b \in Buckets, NEW s \in Reach(b)
                PROVE  /\ fd[s] # Nil /\ Hash(fd[s]) = b
                       /\ \/ le_prev[s] = First(b) /\ lh_first[b] = s
                          \/ \E u \in Reach(b) : le_prev[s] = NextOf(u) /\ le_next[u] = s
    BY DEF WellLinked
  <2>1. fd[s] # Nil /\ Hash(fd[s]) = b
    BY <1>1, ProcessAssumption DEF IInv, InBucket
  <2>2. \A t \in Threads : call[t].pc \notin Holding
    BY <1>1, TakenFree
  <2>3. TypeOK /\ s \in Cells /\ s # Nil
    BY <1>1, ReachClosed, ProcessAssumption DEF IInv
  <2>4. CASE lh_first[b] = s
    BY <1>1, <2>1, <2>2, <2>3, <2>4 DEF IInv, HeadBack, Holding
  <2>5. CASE lh_first[b] # s
    <3>1. PICK u \in Reach(b) : u # s /\ le_next[u] = s
      BY <2>3, <2>5, FromPred DEF Reach, TypeOK
    <3>2. le_prev[s] = NextOf(u)
      BY <1>1, <2>2, <2>3, <3>1 DEF IInv, NextBack, Holding
    <3>. QED  BY <2>1, <3>1, <3>2
  <2>. QED  BY <2>4, <2>5
<1>. QED  BY <1>1, Invariance, PTL

\* The program runs only with an address.
Resolved == phase = "main" => converter_addr = "resolved"

\* From the end of init to exit() no call uses an invalid _converter_addr.
THEOREM AddressValid == Spec => []AddressReady
<1>1. Init => Resolved /\ AddressReady
  BY DEF Init, Resolved, AddressReady
<1>2. Resolved /\ AddressReady /\ [Next]_vars => (Resolved /\ AddressReady)'
  <2>. SUFFICES ASSUME Resolved, AddressReady, [Next]_vars
                PROVE  Resolved' /\ AddressReady'
    OBVIOUS
  <2>. USE DEF Resolved, AddressReady
  <2>1. CASE UNCHANGED vars
    BY <2>1 DEF vars
  <2>2. CASE Startup
    BY <2>2 DEF Startup, OpenSysctl, ValidateSysctl, ValidateKernel, ValidateParameters,
                Unresolved, Fail, Pass, InInit, At, Running
  <2>3. CASE Exit \/ Fini \/ Gone
    BY <2>3 DEF Exit, Fini, Gone, Pass, Running
  <2>4. ASSUME NEW t \in Threads, Redirect(t)  PROVE Resolved' /\ AddressReady'
    BY <2>4 DEF Redirect
  <2>5. ASSUME NEW t \in Threads, Step(t)  PROVE Redirect(t) \/ UNCHANGED <<phase, converter_addr, fault>>
    BY <2>5 DEF Step, Malloc, Insert, Link, Lock, Walk, Read, Unlink, Detach, Free, LClose
  <2>6. ASSUME NEW t \in Threads, NEW f \in Fds, Socket(t, f)  PROVE Resolved' /\ AddressReady'
    BY <2>6 DEF Socket
  <2>7. ASSUME NEW t \in Threads, NEW f \in Fds, NEW op \in {"connect", "recv", "close"},
               Enter(t, op, f)
        PROVE  Resolved' /\ AddressReady'
    BY <2>7 DEF Enter
  <2>. QED  BY <2>1, <2>2, <2>3, <2>4, <2>5, <2>6, <2>7 DEF Next
<1>. QED  BY <1>1, <1>2, PTL DEF Spec

-----------------------------------------------------------------------------
(***************************************************************************)
(* The lists implement the table.                                          *)
(***************************************************************************)
Looked == {"redirect", "read", "unlink", "detach", "free", "lclose"}

\* A step that keeps every state in its place and what each call has found is
\* no step of the table.
LEMMA TableStutters ==
  ASSUME \A s \in Cells : InTable(s)' <=> InTable(s),
         \A s \in Cells : InTable(s) => fd'[s] = fd[s],
         \A t \in Threads : \/ call'[t] = call[t]
                            \/ call[t].pc \notin Looked /\ call'[t].pc \notin Looked
                            \/ /\ call[t].pc \in Looked /\ call'[t].pc \in Looked
                               /\ call'[t].fd = call[t].fd /\ call'[t].st = call[t].st
  PROVE  UNCHANGED States!vars
<1>1. Owner' = Owner
  BY DEF Owner
<1>2. Found' = Found
  BY DEF Found, Looked
<1>. QED  BY <1>1, <1>2 DEF States!vars

\* The initial lists are the empty table.
LEMMA TableInit == Init => States!Init
<1>. SUFFICES ASSUME Init  PROVE States!Init
  OBVIOUS
<1>1. \A b \in Buckets : Reach(b) = {}
  BY FromNil DEF Init, Reach
<1>2. NoCall.pc = "idle"
  BY DEF NoCall
<1>. QED  BY <1>1, <1>2 DEF Init, States!Init, States!NoResult, Owner, Found, InTable


\* What a thread has found, when one thread's call changes.
LEMMA FoundChange ==
  ASSUME TypeOK, NEW t \in Threads, \A u \in Threads \ {t} : call'[u] = call[u]
  PROVE  /\ Found \in [Threads -> [fd : Fds \cup {Nil}, st : Ptr]]
         /\ call'[t].pc \in Looked =>
              Found' = [Found EXCEPT ![t] = [fd |-> call'[t].fd, st |-> call'[t].st]]
         /\ call'[t].pc \notin Looked => Found' = [Found EXCEPT ![t] = [fd |-> Nil, st |-> Nil]]
<1>1. Found \in [Threads -> [fd : Fds \cup {Nil}, st : Ptr]]
  BY DEF Found, TypeOK, Calls, Ptr
<1>. QED  BY <1>1 DEF Found, Looked

\* LIST_INSERT_HEAD takes effect when the head is set.
LEMMA LinkTable ==
  ASSUME IInv, NEW t \in Threads, Link(t)
  PROVE  [States!Next]_(States!vars)
<1>. DEFINE s == call[t].st
            f == call[t].fd
<1>0. call[t].pc = "link" /\ call[t].pc # "idle"
  BY DEF Link, At
<1>1. TypeOK /\ s \in Cells /\ ~InTable(s) /\ fd[s] = f /\ f \in Fds /\ f # Nil
  BY <1>0, InCall, ProcessAssumption DEF Half
<1>2. UNCHANGED fd /\ \A u \in Cells : InTable(u)' <=> InTable(u) \/ u = s
  BY LinkLists DEF Link
<1>3. /\ call'[t].pc = "idle"
      /\ \A u \in Threads \ {t} : call'[u] = call[u]
  BY <1>1, ReturnEffect DEF Link
<1>4. Owner[s] = Nil /\ Owner' = [Owner EXCEPT ![s] = f]
  BY <1>1, <1>2 DEF Owner
<1>5. \A u \in Cells : Owner[u] # f
  BY <1>1 DEF Owner, IInv, OneState
<1>6. Found' = Found
  BY <1>0, <1>3 DEF Found
<1>7. States!Insert(s, f)
  BY <1>4, <1>5, <1>6 DEF States!Insert
<1>. QED  BY <1>1, <1>7 DEF States!Next

\* LIST_REMOVE takes effect when the pointer that leads to the state is set.
LEMMA DetachTable ==
  ASSUME IInv, NEW t \in Threads, Detach(t)
  PROVE  [States!Next]_(States!vars)
<1>. DEFINE s == call[t].st
            f == call[t].fd
<1>0. call[t].pc = "detach" /\ call[t].pc # "idle"
  BY DEF Detach, At
<1>1. /\ TypeOK /\ s \in Reach(Hash(f)) /\ Hash(f) \in Buckets /\ fd[s] = f /\ f \in Fds
      /\ s \in Cells /\ s # Nil
  BY <1>0, InCall, ReachClosed, ProcessAssumption DEF Half
<1>2. InTable(s) /\ UNCHANGED fd /\ \A u \in Cells : InTable(u)' <=> InTable(u) /\ u # s
  BY <1>1, DetachLists DEF Detach, InTable
<1>3. /\ call'[t].pc = "free" /\ call'[t].fd = f /\ call'[t].st = s
      /\ \A u \in Threads \ {t} : call'[u] = call[u]
  BY <1>1, GotoEffect DEF Detach, Pcs
<1>4. Owner[s] = f /\ Owner' = [Owner EXCEPT ![s] = Nil]
  BY <1>1, <1>2 DEF Owner
<1>5. Found[t].fd = f /\ Found[t].st = s
  BY <1>0 DEF Found
<1>6. Found' = Found
  BY <1>0, <1>3 DEF Found
<1>7. States!Remove(t)
  BY <1>1, <1>4, <1>5, <1>6 DEF States!Remove
<1>. QED  BY <1>7 DEF States!Next

\* _lookup takes effect when it leaves the list, with the state or without.
LEMMA WalkTable ==
  ASSUME IInv, NEW t \in Threads, Walk(t)
  PROVE  [States!Next]_(States!vars)
<1>. DEFINE s == call[t].st
            f == call[t].fd
<1>0. call[t].pc = "walk" /\ call[t].pc # "idle" /\ call[t].op \in {"connect", "recv", "close"}
  BY DEF Walk, At, IInv, OpSound
<1>1. TypeOK /\ Hash(f) \in Buckets /\ f \in Fds /\ f # Nil /\ s \in Ptr /\ Half(t)
  BY <1>0, InCall, ProcessAssumption
<1>2. UNCHANGED <<fd, lh_first, le_next>> /\ \A u \in Cells : InTable(u)' <=> InTable(u)
  BY ReachKept DEF Walk, table
<1>3. Owner' = Owner
  BY <1>2 DEF Owner
<1>4. Found[t] = [fd |-> Nil, st |-> Nil]
  BY <1>0 DEF Found
<1>5. CASE s = Nil /\ Missed(t)
  <2>1. \A u \in Cells : Owner[u] # f
    BY <1>0, <1>1, <1>5, WalkMisses DEF Owner
  <2>2. /\ \A u \in Threads \ {t} : call'[u] = call[u]
        /\ \/ call'[t].pc = "lclose" /\ call'[t].fd = f /\ call'[t].st = s
           \/ call'[t].pc = "idle"
    BY <1>1, <1>5, MissedEffect
  <2>3. CASE call'[t].pc = "lclose" /\ call'[t].fd = f /\ call'[t].st = s
    <3>1. Found' = [Found EXCEPT ![t] = [fd |-> f, st |-> Nil]]
      BY <1>1, <1>5, <2>2, <2>3, FoundChange DEF Looked
    <3>2. States!Find(t, f)
      BY <1>3, <1>4, <2>1, <3>1 DEF States!Find, States!NoResult
    <3>. QED  BY <1>1, <3>2 DEF States!Next
  <2>4. CASE call'[t].pc = "idle"
    BY <1>0, <1>2, <2>2, <2>4, TableStutters DEF Looked
  <2>. QED  BY <2>2, <2>3, <2>4
<1>6. CASE s # Nil /\ fd[s] = f /\ Goto(t, Hit(call[t].op))
  <2>0. Hit(call[t].op) \in {"unlink", "redirect", "read"} /\ Hit(call[t].op) \in Pcs
    BY <1>0 DEF Hit, Pcs
  <2>1. /\ \A u \in Threads \ {t} : call'[u] = call[u]
        /\ call'[t].pc \in {"unlink", "redirect", "read"}
        /\ call'[t].fd = f /\ call'[t].st = s
    BY <1>1, <1>6, <2>0, GotoEffect
  <2>2. s \in Cells /\ Owner[s] = f
    BY <1>0, <1>1, <1>6 DEF Owner, Half, InTable, Ptr
  <2>3. Found' = [Found EXCEPT ![t] = [fd |-> f, st |-> s]]
    BY <1>1, <2>1, FoundChange DEF Looked
  <2>4. States!Find(t, f)
    BY <1>3, <1>4, <2>2, <2>3 DEF States!Find, States!NoResult
  <2>. QED  BY <1>1, <2>4 DEF States!Next
<1>7. CASE s # Nil /\ call' = [call EXCEPT ![t].st = le_next[s]]
  <2>1. call'[t].pc = "walk" /\ \A u \in Threads \ {t} : call'[u] = call[u]
    BY <1>0, <1>1, <1>7 DEF TypeOK, Calls
  <2>. QED  BY <1>0, <1>2, <2>1, TableStutters DEF Looked
<1>. QED  BY <1>5, <1>6, <1>7 DEF Walk

\* A call that is over forgets what it found.
LEMMA ReturnTable ==
  ASSUME IInv, NEW t \in Threads, UNCHANGED table, call'[t].pc = "idle",
         \A u \in Threads \ {t} : call'[u] = call[u]
  PROVE  [States!Next]_(States!vars)
<1>1. UNCHANGED fd /\ \A u \in Cells : InTable(u)' <=> InTable(u)
  BY ReachKept DEF table
<1>2. Owner' = Owner
  BY <1>1 DEF Owner
<1>3. Found' = [Found EXCEPT ![t] = [fd |-> Nil, st |-> Nil]]
  BY FoundChange DEF IInv, Looked
<1>4. States!Return(t)
  BY <1>2, <1>3 DEF States!Return, States!NoResult
<1>. QED  BY <1>4 DEF States!Next

\* free() comes after the removal; the call may be over with it.
LEMMA FreeTable ==
  ASSUME IInv, NEW t \in Threads, Free(t)
  PROVE  [States!Next]_(States!vars)
<1>. DEFINE s == call[t].st
<1>0. call[t].pc = "free" /\ call[t].pc # "idle"
  BY DEF Free, At
<1>1. TypeOK /\ s \in Cells /\ ~InTable(s)
  BY <1>0, InCall DEF Half
<1>2. \A u \in Cells : InTable(u)' <=> InTable(u)
  BY FreeLists
<1>3. \A u \in Cells : InTable(u) => fd'[u] = fd[u]
  BY <1>1 DEF Free, TypeOK
<1>4. Owner' = Owner
  BY <1>2, <1>3 DEF Owner
<1>5. /\ \A u \in Threads \ {t} : call'[u] = call[u]
      /\ \/ call'[t].pc = "lclose" /\ call'[t].fd = call[t].fd /\ call'[t].st = s
         \/ call'[t].pc = "idle"
  BY <1>1, MissedEffect DEF Free, Missed
<1>6. CASE call'[t].pc = "lclose" /\ call'[t].fd = call[t].fd /\ call'[t].st = s
  BY <1>0, <1>2, <1>3, <1>5, <1>6, TableStutters DEF Looked
<1>7. CASE call'[t].pc = "idle"
  <2>1. Found' = [Found EXCEPT ![t] = [fd |-> Nil, st |-> Nil]]
    BY <1>1, <1>5, <1>7, FoundChange DEF Looked
  <2>2. States!Return(t)
    BY <1>4, <2>1 DEF States!Return, States!NoResult
  <2>. QED  BY <2>2 DEF States!Next
<1>. QED  BY <1>5, <1>6, <1>7

\* The steps that do not show: before the list is changed, before it is left.
LEMMA HiddenTable ==
  ASSUME IInv, NEW t \in Threads, Malloc(t) \/ Insert(t) \/ Lock(t) \/ Redirect(t) \/ Unlink(t)
  PROVE  UNCHANGED States!vars
<1>0. TypeOK
  BY DEF IInv
<1>1. CASE Malloc(t)
  <2>1. call[t].pc = "malloc" /\ \A u \in Cells : InTable(u)' <=> InTable(u)
    BY <1>1, ReachKept DEF Malloc, At
  <2>2. \A u \in Cells : InTable(u) => fd[u] # Nil
    BY ProcessAssumption DEF InTable, IInv, InBucket
  <2>3. \A u \in Cells : InTable(u) => fd'[u] = fd[u]
    BY <1>0, <1>1, <2>2 DEF Malloc, TypeOK
  <2>4. call'[t].pc \in {"insert", "idle"} /\ \A u \in Threads \ {t} : call'[u] = call[u]
    BY <1>0, <1>1, MoveEffect, ReturnEffect DEF Malloc, Pcs, Ptr
  <2>. QED  BY <2>1, <2>3, <2>4, TableStutters DEF Looked
<1>2. CASE Insert(t)
  <2>1. call[t].pc = "insert" /\ UNCHANGED fd /\ \A u \in Cells : InTable(u)' <=> InTable(u)
    BY <1>2, InsertLists DEF Insert, At
  <2>2. call'[t].pc = "link" /\ \A u \in Threads \ {t} : call'[u] = call[u]
    BY <1>0, <1>2, GotoEffect DEF Insert, Pcs
  <2>. QED  BY <2>1, <2>2, TableStutters DEF Looked
<1>3. CASE Lock(t)
  <2>1. call[t].pc = "lock" /\ UNCHANGED fd /\ \A u \in Cells : InTable(u)' <=> InTable(u)
    BY <1>3, ReachKept DEF Lock, At, table
  <2>2. lh_first[Hash(call[t].fd)] \in Ptr
    BY <1>0, <2>1, InCall DEF TypeOK
  <2>3. call'[t].pc = "walk" /\ \A u \in Threads \ {t} : call'[u] = call[u]
    BY <1>0, <1>3, <2>2, MoveEffect DEF Lock, Pcs
  <2>. QED  BY <2>1, <2>3, TableStutters DEF Looked
<1>4. CASE Redirect(t)
  <2>1. call[t].pc = "redirect" /\ UNCHANGED fd /\ \A u \in Cells : InTable(u)' <=> InTable(u)
    BY <1>4, ReachKept DEF Redirect, At, table
  <2>2. \/ UNCHANGED call
        \/ /\ call'[t].pc = "read" /\ call'[t].fd = call[t].fd /\ call'[t].st = call[t].st
           /\ \A u \in Threads \ {t} : call'[u] = call[u]
    BY <1>0, <1>4, GotoEffect DEF Redirect, Pcs
  <2>. QED  BY <2>1, <2>2, TableStutters DEF Looked
<1>5. CASE Unlink(t)
  <2>1. call[t].pc = "unlink" /\ UNCHANGED fd /\ \A u \in Cells : InTable(u)' <=> InTable(u)
    BY <1>5, ReachKept DEF Unlink, At
  <2>2. /\ call'[t].pc = "detach" /\ call'[t].fd = call[t].fd /\ call'[t].st = call[t].st
        /\ \A u \in Threads \ {t} : call'[u] = call[u]
    BY <1>0, <1>5, GotoEffect DEF Unlink, Pcs
  <2>. QED  BY <2>1, <2>2, TableStutters DEF Looked
<1>. QED  BY <1>1, <1>2, <1>3, <1>4, <1>5

\* Start-up, the end of the process and the beginning of a call do not show
\* either.
LEMMA BeginTable ==
  ASSUME IInv, NEW t \in Threads, UNCHANGED table,
         \/ UNCHANGED call
         \/ /\ call[t].pc = "idle" /\ call'[t].pc \in {"lock", "malloc"}
            /\ \A u \in Threads \ {t} : call'[u] = call[u]
  PROVE  UNCHANGED States!vars
<1>1. UNCHANGED fd /\ \A u \in Cells : InTable(u)' <=> InTable(u)
  BY ReachKept DEF table
<1>. QED  BY <1>1, TableStutters DEF Looked

\* Every step of the lists is a step of the table, or does not show.
LEMMA TableStep == IInv /\ [Next]_vars => [States!Next]_(States!vars)
<1>. SUFFICES ASSUME IInv, [Next]_vars  PROVE [States!Next]_(States!vars)
  OBVIOUS
<1>0. TypeOK /\ Main \in Threads
  BY ProcessAssumption DEF IInv
<1>1. CASE UNCHANGED vars
  BY <1>0, <1>1, BeginTable DEF vars
<1>2. CASE OpenSysctl
  <2>1. call[Main].pc = "idle" /\ UNCHANGED table
    BY <1>2 DEF OpenSysctl, InInit, At
  <2>2. \/ UNCHANGED call
        \/ call'[Main].pc = "lock" /\ \A u \in Threads \ {Main} : call'[u] = call[u]
    <3>1. ASSUME NEW f \in Fds,
                 call' = [call EXCEPT ![Main] = [pc |-> "lock", op |-> "close", fd |-> f, st |-> Nil]]
          PROVE  call'[Main].pc = "lock" /\ \A u \in Threads \ {Main} : call'[u] = call[u]
      BY <1>0, <3>1, BeginEffect DEF Pcs
    <3>. QED  BY <1>2, <3>1 DEF OpenSysctl
  <2>. QED  BY <1>0, <2>1, <2>2, BeginTable
<1>3. CASE ValidateSysctl \/ ValidateKernel \/ ValidateParameters \/ Exit \/ Fini \/ Gone
  <2>1. UNCHANGED <<call, table>>
    BY <1>3 DEF ValidateSysctl, ValidateKernel, ValidateParameters, Exit, Fini, Gone
  <2>. QED  BY <1>0, <2>1, BeginTable
<1>4. ASSUME NEW t \in Threads, Step(t)  PROVE [States!Next]_(States!vars)
  <2>1. CASE Read(t)
    <3>1. CASE Return(t)
      BY <1>0, <2>1, <3>1, ReturnEffect, ReturnTable DEF Read
    <3>2. CASE Goto(t, "unlink")
      <4>1. call[t].pc = "read" /\ UNCHANGED fd /\ \A u \in Cells : InTable(u)' <=> InTable(u)
        BY <2>1, ReachKept DEF Read, At, table
      <4>2. /\ call'[t].pc = "unlink" /\ call'[t].fd = call[t].fd /\ call'[t].st = call[t].st
            /\ \A u \in Threads \ {t} : call'[u] = call[u]
        BY <1>0, <3>2, GotoEffect DEF Pcs
      <4>. QED  BY <4>1, <4>2, TableStutters DEF Looked
    <3>. QED  BY <2>1, <3>1, <3>2 DEF Read
  <2>2. CASE LClose(t)
    BY <1>0, <2>2, ReturnEffect, ReturnTable DEF LClose
  <2>. QED  BY <1>4, <2>1, <2>2, HiddenTable, LinkTable, WalkTable, DetachTable, FreeTable DEF Step
<1>5. ASSUME NEW t \in Threads, NEW f \in Fds, Socket(t, f)  PROVE UNCHANGED States!vars
  <2>1. call[t].pc = "idle" /\ UNCHANGED table
    BY <1>5 DEF Socket, MayCall, At
  <2>2. call'[t].pc = "malloc" /\ \A u \in Threads \ {t} : call'[u] = call[u]
    BY <1>0, <1>5, BeginEffect DEF Socket, Pcs
  <2>. QED  BY <2>1, <2>2, BeginTable
<1>6. ASSUME NEW t \in Threads, NEW f \in Fds, NEW op \in {"connect", "recv", "close"},
             Enter(t, op, f)
      PROVE  UNCHANGED States!vars
  <2>1. call[t].pc = "idle" /\ UNCHANGED table
    BY <1>6 DEF Enter, MayCall, At
  <2>2. call'[t].pc = "lock" /\ \A u \in Threads \ {t} : call'[u] = call[u]
    BY <1>0, <1>6, BeginEffect DEF Enter, Pcs
  <2>. QED  BY <2>1, <2>2, BeginTable
<1>. QED  BY <1>1, <1>2, <1>3, <1>4, <1>5, <1>6 DEF Next, Startup

\* The lists and the mutex implement the table: insertion, removal and look-up
\* each take effect at one instant, a look-up finds the state of its descriptor
\* exactly when there is one, and a state is removed once.
THEOREM ListsImplementTable == Spec => TableContract
BY TableInit, TableStep, Invariance, PTL DEF Spec, TableContract, States!Spec
=============================================================================

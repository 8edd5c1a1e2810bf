--------------------------- MODULE ConvertProcess ---------------------------
(***************************************************************************)
(* The process lib_convert is loaded into: its start-up and its end        *)
(* (_validate_config, init and fini of src/lib_convert/convert_client.c),  *)
(* and the table of socket states as the linked lists it is made of        *)
(* (src/lib_convert/bsd_queue.h).  ConvertClient begins where start-up is  *)
(* over and takes a bucket for a set; here a call is reduced to what it    *)
(* does to the table and to _converter_addr, and start-up to whether its   *)
(* checks succeed.                                                         *)
(*                                                                         *)
(* The loader runs the constructors of the other libraries before init, so *)
(* their calls, and those of threads they start, may come before it; other *)
(* threads and destructors go on while exit() runs fini.                   *)
(***************************************************************************)
EXTENDS Naturals

CONSTANTS
  Threads, Main,  \* the threads; the one that runs the loader
  Fds,            \* descriptor numbers
  Cells,          \* the heap cells malloc returns for socket_state_t
  Nil,            \* NULL, and nobody
  NUM_BUCKETS     \* the size of the hash table (1024 in the code)

ASSUME ProcessAssumption ==
  /\ Main \in Threads /\ Fds \subseteq Nat /\ NUM_BUCKETS \in Nat \ {0}
  /\ Nil \notin Threads \cup Fds \cup Cells

VARIABLES
  phase,           \* how far the process has come
  converter_addr,  \* _converter_addr
  open,            \* the descriptors the kernel has handed out
  mutex,           \* the thread that holds _socket_htable_mutex
  call,            \* call[t]: the intercepted call thread t is in
  fd,              \* fd[s]: the fd field of an allocated state, Nil when free
  lh_first,        \* lh_first[b]: the head of bucket b
  le_next,         \* le_next[s], le_prev[s]: the links of state s; le_prev is the
  le_prev,         \*   address of the pointer that leads to s
  fault            \* an invalid _converter_addr was used

table == <<fd, lh_first, le_next, le_prev>>
vars == <<converter_addr, phase, open, mutex, call, table, fault>>

Phases == {"libs", "sysctl", "kernel", "params", "main", "exit", "fini", "gone"}
Buckets == 0 .. (NUM_BUCKETS - 1)
Ptr == Cells \cup {Nil}
Pcs == {"idle", "malloc", "insert", "link", "lock", "walk", "redirect", "read",
        "unlink", "detach", "free", "lclose"}
Calls == [pc : Pcs, op : {"none", "socket", "connect", "recv", "close"},
          fd : Fds \cup {Nil}, st : Ptr]
NoCall == [pc |-> "idle", op |-> "none", fd |-> Nil, st |-> Nil]

\* &LIST_FIRST(head) of bucket b, and &LIST_NEXT(s).
First(b) == <<"head", b>>
NextOf(s) == <<"next", s>>

TypeOK ==
  /\ phase \in Phases
  /\ converter_addr \in {"NULL", "resolved", "freed"}
  /\ open \subseteq Fds /\ mutex \in Threads \cup {Nil}
  /\ call \in [Threads -> Calls]
  /\ fd \in [Cells -> Fds \cup {Nil}]
  /\ lh_first \in [Buckets -> Ptr] /\ le_next \in [Cells -> Ptr]
  /\ le_prev \in [Cells -> {First(b) : b \in Buckets} \cup {NextOf(s) : s \in Ptr}]
  /\ fault \in BOOLEAN

Init ==
  /\ phase = "libs" /\ converter_addr = "NULL"
  /\ open = {} /\ mutex = Nil
  /\ call = [t \in Threads |-> NoCall]
  /\ fd = [s \in Cells |-> Nil]
  /\ lh_first = [b \in Buckets |-> Nil]
  /\ le_next = [s \in Cells |-> Nil] /\ le_prev = [s \in Cells |-> NextOf(Nil)]
  /\ fault = FALSE

Running == phase # "gone" /\ ~fault
At(t, p) == Running /\ call[t].pc = p
Goto(t, p) == call' = [call EXCEPT ![t].pc = p]
Return(t) == call' = [call EXCEPT ![t] = NoCall]

\* Mutant: the list operations do not exclude each other.
Take_Anyway(t) == mutex' = t

\* pthread_mutex_lock and pthread_mutex_unlock.
Take(t) == mutex = Nil /\ mutex' = t

\* Mutant: _lookup keeps the mutex when there is no state.
Release_IfFound(t) == mutex' = IF call[t].pc = "walk" /\ call[t].st = Nil THEN mutex ELSE Nil

Release(t) == mutex' = Nil

-----------------------------------------------------------------------------
(***************************************************************************)
(* Start-up and end.                                                       *)
(***************************************************************************)
Hash(n) == n % NUM_BUCKETS

Pass(p) == phase' = p /\ UNCHANGED converter_addr
\* exit(1): the constructor does not return, and fini runs.
Fail == Pass("exit")

InInit(p) == At(Main, "idle") /\ phase = p

\* init, _read_sysctl_fastopen: open the file, read it and close it.  close is
\* the library's own: it looks for a state under the descriptor of the file.
OpenSysctl ==
  /\ InInit("libs")
  /\ \/ Fail /\ UNCHANGED <<open, call>>
     \/ /\ Pass("sysctl")
        /\ \E f \in Fds \ open :
             /\ open' = open \cup {f}
             /\ call' = [call EXCEPT ![Main] =
                           [pc |-> "lock", op |-> "close", fd |-> f, st |-> Nil]]
  /\ UNCHANGED <<mutex, table, fault>>

\* _validate_sysctl_fastopen, once the file is closed: it could not be read, did
\* not hold a number, or lacks a flag; or all is well.
ValidateSysctl ==
  /\ InInit("sysctl")
  /\ Fail \/ Pass("kernel")
  /\ UNCHANGED <<open, mutex, call, table, fault>>

\* _validate_kernel_version: uname fails, the kernel is too old, or it is not.
ValidateKernel ==
  /\ InInit("kernel")
  /\ Fail \/ Pass("params")
  /\ UNCHANGED <<open, mutex, call, table, fault>>

\* Mutant: an address that cannot be resolved does not stop init.
Unresolved_GoOn == Pass("main")

\* CONVERT_ADDR is missing, or getaddrinfo fails: the address is wrong, or a
\* CONVERT_PORT that ends in a newline was taken for a number.
Unresolved == Fail

\* _validate_parameters.
ValidateParameters ==
  /\ InInit("params")
  /\ \/ Unresolved
     \/ phase' = "main" /\ converter_addr' = "resolved"
  /\ UNCHANGED <<open, mutex, call, table, fault>>

\* The program ends: exit() runs the destructors.
Exit ==
  /\ Running /\ phase = "main" /\ Pass("exit")
  /\ UNCHANGED <<open, mutex, call, table, fault>>

\* fini.  freeaddrinfo(NULL) does nothing.
Fini ==
  /\ Running /\ phase = "exit"
  /\ converter_addr' = IF converter_addr = "NULL" THEN "NULL" ELSE "freed"
  /\ phase' = "fini"
  /\ UNCHANGED <<open, mutex, call, table, fault>>

Gone ==
  /\ Running /\ phase = "fini" /\ Pass("gone")
  /\ UNCHANGED <<open, mutex, call, table, fault>>

-----------------------------------------------------------------------------
(***************************************************************************)
(* The intercepted calls.                                                  *)
(***************************************************************************)
InUse(f) == \E t \in Threads : call[t].pc # "idle" /\ call[t].fd = f

\* A thread makes a call outside init; Main runs init from "sysctl" to "params".
MayCall(t) == At(t, "idle") /\ ~(t = Main /\ phase \in {"sysctl", "kernel", "params"})

\* socket(): lsocket hands out a descriptor.
Socket(t, f) ==
  /\ MayCall(t) /\ f \notin open
  /\ open' = open \cup {f}
  /\ call' = [call EXCEPT ![t] = [pc |-> "malloc", op |-> "socket", fd |-> f, st |-> Nil]]
  /\ UNCHANGED <<converter_addr, phase, mutex, table, fault>>

\* connect, recv, send and close begin with _lookup.
Enter(t, op, f) ==
  /\ MayCall(t) /\ f \in open /\ ~InUse(f)
  /\ call' = [call EXCEPT ![t] = [pc |-> "lock", op |-> op, fd |-> f, st |-> Nil]]
  /\ UNCHANGED <<converter_addr, phase, open, mutex, table, fault>>

\* _alloc: malloc, which may fail.  The links of the new state are not set.
Malloc(t) ==
  /\ At(t, "malloc")
  /\ \/ \E s \in Cells :
          /\ fd[s] = Nil /\ fd' = [fd EXCEPT ![s] = call[t].fd]
          /\ call' = [call EXCEPT ![t] = [@ EXCEPT !.pc = "insert", !.st = s]]
     \/ Return(t) /\ UNCHANGED fd
  /\ UNCHANGED <<converter_addr, phase, open, mutex, lh_first, le_next, le_prev, fault>>

\* Mutant: the state that was first keeps pointing back to the head.
PointBack_Not(s, p) == UNCHANGED le_prev

\* State s, unless it is NULL, is now reached through p.
PointBack(s, p) == IF s = Nil THEN UNCHANGED le_prev ELSE le_prev' = [le_prev EXCEPT ![s] = p]

\* LIST_INSERT_HEAD, the list first: the new state points to the first one.
Insert(t) ==
  LET s == call[t].st
      b == Hash(call[t].fd) IN
  /\ At(t, "insert") /\ Take(t) /\ Goto(t, "link")
  /\ le_next' = [le_next EXCEPT ![s] = lh_first[b]]
  /\ PointBack(lh_first[b], NextOf(s))
  /\ UNCHANGED <<converter_addr, phase, open, fd, lh_first, fault>>

\* LIST_INSERT_HEAD: the head points to the new state, which points back.
Link(t) ==
  LET s == call[t].st
      b == Hash(call[t].fd) IN
  /\ At(t, "link") /\ Release(t) /\ Return(t)
  /\ lh_first' = [lh_first EXCEPT ![b] = s]
  /\ le_prev' = [le_prev EXCEPT ![s] = First(b)]
  /\ UNCHANGED <<converter_addr, phase, open, fd, le_next, fault>>

\* _lookup: the mutex, and the first state of the bucket.
Lock(t) ==
  /\ At(t, "lock") /\ Take(t)
  /\ call' = [call EXCEPT ![t] = [@ EXCEPT !.pc = "walk", !.st = lh_first[Hash(call[t].fd)]]]
  /\ UNCHANGED <<converter_addr, phase, open, table, fault>>

Missed(t) == IF call[t].op = "close" THEN Goto(t, "lclose") ELSE Return(t)

Hit(op) == CASE op = "close" -> "unlink" [] op = "connect" -> "redirect" [] op = "recv" -> "read"

\* _lookup: one round of LIST_FOREACH.
Walk(t) ==
  LET s == call[t].st IN
  /\ At(t, "walk")
  /\ \/ s = Nil /\ Missed(t) /\ Release(t)
     \/ s # Nil /\ fd[s] = call[t].fd /\ Goto(t, Hit(call[t].op)) /\ Release(t)
     \/ /\ s # Nil /\ fd[s] # call[t].fd /\ UNCHANGED mutex
        /\ call' = [call EXCEPT ![t].st = le_next[s]]
  /\ UNCHANGED <<converter_addr, phase, open, table, fault>>

\* _redirect passes _converter_addr->ai_addr to lconnect; it is NULL before init
\* is done, and freed after fini.
Redirect(t) ==
  /\ At(t, "redirect")
  /\ \/ converter_addr = "resolved" /\ Goto(t, "read") /\ UNCHANGED fault
     \/ converter_addr # "resolved" /\ fault' = TRUE /\ UNCHANGED call
  /\ UNCHANGED <<converter_addr, phase, open, mutex, table>>

\* _redirect or _read_convert is over: the state is kept for a later call, or
\* freed.
Read(t) ==
  /\ At(t, "read")
  /\ Return(t) \/ Goto(t, "unlink")
  /\ UNCHANGED <<converter_addr, phase, open, mutex, table, fault>>

\* LIST_REMOVE: the next state points back past this one.
Unlink(t) ==
  LET s == call[t].st IN
  /\ At(t, "unlink") /\ Take(t) /\ Goto(t, "detach")
  /\ PointBack(le_next[s], le_prev[s])
  /\ UNCHANGED <<converter_addr, phase, open, fd, lh_first, le_next, fault>>

\* *(elm)->field.le_prev = LIST_NEXT((elm), field)
Store(p, s) ==
  \/ \E b \in Buckets : /\ p = First(b) /\ lh_first' = [lh_first EXCEPT ![b] = s]
                        /\ UNCHANGED le_next
  \/ \E u \in Cells : /\ p = NextOf(u) /\ le_next' = [le_next EXCEPT ![u] = s]
                      /\ UNCHANGED lh_first

\* LIST_REMOVE: what led to this state leads to the next one.
Detach(t) ==
  LET s == call[t].st IN
  /\ At(t, "detach") /\ Release(t) /\ Goto(t, "free")
  /\ Store(le_prev[s], le_next[s])
  /\ UNCHANGED <<converter_addr, phase, open, fd, le_prev, fault>>

\* free(): the links of a free cell do not matter.
Free(t) ==
  LET s == call[t].st IN
  /\ At(t, "free")
  /\ fd' = [fd EXCEPT ![s] = Nil]
  /\ le_next' = [le_next EXCEPT ![s] = Nil] /\ le_prev' = [le_prev EXCEPT ![s] = NextOf(Nil)]
  /\ IF call[t].op = "close" THEN Goto(t, "lclose") ELSE Return(t)
  /\ UNCHANGED <<converter_addr, phase, open, mutex, lh_first, fault>>

LClose(t) ==
  /\ At(t, "lclose") /\ Return(t)
  /\ open' = open \ {call[t].fd}
  /\ UNCHANGED <<converter_addr, phase, mutex, table, fault>>

-----------------------------------------------------------------------------
Startup == OpenSysctl \/ ValidateSysctl \/ ValidateKernel \/ ValidateParameters

Step(t) ==
  \/ Malloc(t) \/ Insert(t) \/ Link(t) \/ Lock(t) \/ Walk(t) \/ Redirect(t) \/ Read(t)
  \/ Unlink(t) \/ Detach(t) \/ Free(t) \/ LClose(t)

Next ==
  \/ Startup \/ Exit \/ Fini \/ Gone
  \/ \E t \in Threads : Step(t)
  \/ \E t \in Threads, f \in Fds :
       Socket(t, f) \/ \E op \in {"connect", "recv", "close"} : Enter(t, op, f)

Spec == Init /\ [][Next]_vars

\* The loader runs init once the other constructors have returned, exit ends the
\* process, and the operating system schedules the threads.  Nothing makes the
\* mutex fair.
FairSpec == /\ Spec /\ WF_vars(Startup) /\ WF_vars(Fini) /\ WF_vars(Gone)
            /\ \A t \in Threads : WF_vars(Step(t))

-----------------------------------------------------------------------------
(***************************************************************************)
(* Properties.                                                             *)
(***************************************************************************)

\* S holds what pointer p leads to, and with each state the one its link leads to.
Closed(next, p, S) == p \in S \cup {Nil} /\ \A u \in S : next[u] \in S \cup {Nil}

\* The states LIST_FOREACH meets from p on: the least set that is so closed.
From(next, p) == {s \in Cells : \A S \in SUBSET Cells : Closed(next, p, S) => s \in S}

Reach(b) == From(le_next, lh_first[b])

InTable(s) == \E b \in Buckets : s \in Reach(b)

\* Whose state s is, and what _lookup has returned to the call of thread t.
Owner == [s \in Cells |-> IF InTable(s) THEN fd[s] ELSE Nil]
Found ==
  [t \in Threads |->
     IF call[t].pc \in {"redirect", "read", "unlink", "detach", "free", "lclose"}
     THEN [fd |-> call[t].fd, st |-> call[t].st] ELSE [fd |-> Nil, st |-> Nil]]

States == INSTANCE StateTable WITH owner <- Owner, found <- Found

\* The lists and the mutex implement the table the calls rely on: each insertion
\* and each removal takes effect at once, _lookup finds the state of its
\* descriptor exactly when there is one, and no state is removed twice.
TableContract == States!Spec

\* While the mutex is free every list is well linked: le_prev of each state is
\* the address of the pointer that leads to it, which LIST_REMOVE relies on, and
\* a state is in the list of its own bucket.
WellLinked ==
  mutex = Nil => \A b \in Buckets : \A s \in Reach(b) :
    /\ fd[s] # Nil /\ Hash(fd[s]) = b
    /\ \/ le_prev[s] = First(b) /\ lh_first[b] = s
       \/ \E u \in Reach(b) : le_prev[s] = NextOf(u) /\ le_next[u] = s

\* From the end of init to exit() _converter_addr is valid whenever a call uses
\* it: every failure of _validate_parameters keeps the program from running.
\* Calls of other libraries' constructors, or during exit(), have no such
\* assurance.
AddressReady == fault => phase # "main"

\* No path of a call keeps the mutex, whatever the thread.  So init, once it has
\* opened its file, ends in the program or in exit(), although its own close()
\* waits for the mutex that calls in progress take; only other threads that take
\* it and give it back over and over, always before Main, can hold init up.
StartupEnds ==
  /\ mutex # Nil ~> mutex = Nil \/ phase = "gone" \/ fault
  /\ \/ phase = "sysctl" ~> phase \in {"main", "gone"} \/ fault
     \/ []<>(mutex = Nil) /\ []<>(mutex \notin {Nil, Main})
=============================================================================

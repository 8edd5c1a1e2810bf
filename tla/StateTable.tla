----------------------------- MODULE StateTable -----------------------------
(***************************************************************************)
(* What the table of socket states of lib_convert promises to the calls    *)
(* that use it: _alloc, _lookup, _free and _free_state of                  *)
(* src/lib_convert/convert_client.c, each taking effect at one instant.    *)
(* ConvertProcess implements it with linked lists and a mutex, and         *)
(* ConvertClient with sets.                                                *)
(***************************************************************************)
CONSTANTS Threads, Fds, Cells, Nil

VARIABLES
  owner,   \* owner[s]: the descriptor whose state s is, Nil when not in the table
  found    \* found[t]: what _lookup returned to the call thread t is in

vars == <<owner, found>>

NoResult == [fd |-> Nil, st |-> Nil]

Init == /\ owner = [s \in Cells |-> Nil]
        /\ found = [t \in Threads |-> NoResult]

\* A descriptor never has two states.
Insert(s, fd) ==
  /\ owner[s] = Nil /\ \A u \in Cells : owner[u] # fd
  /\ owner' = [owner EXCEPT ![s] = fd]
  /\ UNCHANGED found

\* A state that is in the table is found, and found under its own descriptor.
Find(t, fd) ==
  /\ found[t] = NoResult
  /\ \/ \E s \in Cells : owner[s] = fd /\ found' = [found EXCEPT ![t] = [fd |-> fd, st |-> s]]
     \/ /\ \A s \in Cells : owner[s] # fd
        /\ found' = [found EXCEPT ![t] = [fd |-> fd, st |-> Nil]]
  /\ UNCHANGED owner

\* A state is removed once, by a call on its own descriptor that found it.
Remove(t) ==
  LET r == found[t] IN
  /\ r.st # Nil /\ owner[r.st] = r.fd
  /\ owner' = [owner EXCEPT ![r.st] = Nil]
  /\ UNCHANGED found

Return(t) == /\ found' = [found EXCEPT ![t] = NoResult]
             /\ UNCHANGED owner

Next ==
  \/ \E s \in Cells, fd \in Fds : Insert(s, fd)
  \/ \E t \in Threads : Remove(t) \/ Return(t) \/ \E fd \in Fds : Find(t, fd)

Spec == Init /\ [][Next]_vars
=============================================================================

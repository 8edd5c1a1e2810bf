---------------------- MODULE PerformanceLoggerProofs ----------------------
(***************************************************************************)
(* Theorems about PerformanceLogger, for any clients, descriptor numbers   *)
(* and bounds on the subflows.                                             *)
(***************************************************************************)
EXTENDS PerformanceLogger, SequenceTheorems, TLAPS

(***************************************************************************)
(* The inductive invariant: what holds of each client and its logger, and  *)
(* what holds of the server.                                               *)
(***************************************************************************)

\* The subflows of connection c.
KernelOK(c) ==
  /\ Len(subs[c]) <= joined[c]
  /\ pc[c] = "none" => fd[c] = Closed /\ joined[c] = 0

\* The first of the items left has an id that is, or is not yet, in the cache.
Asking == {"info", "sub_insert", "sub_commit"}
Inserting == {"row_insert", "row_commit"}
HeadOK(c) ==
  /\ pc[c] \in {"none", "init", "ended"} => loc[c] = NoLocals
  /\ pc[c] \in Asking => loc[c].tcp_info # <<>> /\ Head(loc[c].tcp_info).id \notin loc[c].cache
  /\ pc[c] \in Inserting => loc[c].tcp_info # <<>> /\ Head(loc[c].tcp_info).id \in loc[c].cache

\* The cache holds the ids that have a row in subflows, until the logger ends.
CacheOK(c) ==
  \A i \in Ids :
    /\ Len(subflows[c][i]) <= 1
    /\ i \in loc[c].cache => Len(subflows[c][i]) = 1
    /\ Len(subflows[c][i]) = 1 /\ pc[c] # "ended" => i \in loc[c].cache
    /\ rows[c][i] # NoRow => Len(subflows[c][i]) = 1

\* r, under the id i, is about connection c.
OwnRow(c, i, r) == r[1] = c \/ (r = Garbage /\ i >= Slots /\ joined[c] > Slots)

\* The logger of a client that was not closed through another's measures it.
OwnOK(c) ==
  c \notin mistaken =>
    /\ pc[c] \notin {"none", "ended"} => fd[c] # Closed
    /\ loc[c].sockfd \in {Closed, fd[c]}
    /\ \A k \in 1 .. Len(loc[c].tcp_info) :
         OwnRow(c, loc[c].tcp_info[k].id, loc[c].tcp_info[k].of)
    /\ \A i \in Ids : rows[c][i] = NoRow \/ OwnRow(c, i, rows[c][i])

\* As long as no subflow has left, an id stands for one subflow.
Whole(c) == c \notin mistaken /\ Len(subs[c]) = joined[c]
ExactOK(c) ==
  Whole(c) =>
    /\ \A k \in 1 .. Len(subs[c]) : subs[c][k] = k
    /\ \A k \in 1 .. Len(loc[c].tcp_info) :
         loc[c].tcp_info[k].id < Slots => loc[c].tcp_info[k].of = <<c, loc[c].tcp_info[k].id + 1>>
    /\ pc[c] \in {"sub_insert", "sub_commit"} /\ Head(loc[c].tcp_info).id < Slots =>
         loc[c].sinfo = <<c, Head(loc[c].tcp_info).id + 1>>
    /\ \A i \in Ids : i < Slots =>
         /\ rows[c][i] \in {NoRow, <<c, i + 1>>}
         /\ subflows[c][i] \in {<<>>, <<<<c, i + 1>>>>}

LoggerOK(c) == KernelOK(c) /\ HeadOK(c) /\ CacheOK(c) /\ OwnOK(c) /\ ExactOK(c)

\* No two clients share a number; a pair is closed through its own logger or
\* counted as mistaken; perf_loggers names loggers that were started.
ServerOK ==
  /\ \A c, d \in Conns : fd[c] # Closed /\ fd[c] = fd[d] => c = d
  /\ main = "join" => /\ closing.conn \in Conns
                      /\ closing.log = closing.conn \/ closing.conn \in mistaken
  /\ \A f \in Fds : perf_loggers[f] # Nobody => pc[perf_loggers[f]] # "none"

IInv == TypeOK /\ ServerOK /\ (\A c \in Conns : LoggerOK(c))

-----------------------------------------------------------------------------
(***************************************************************************)
(* The clients, and what the extension reports.                            *)
(***************************************************************************)

\* Clients are named by positive numbers, and each has room for a subflow.
LEMMA ConnForm ==
  ASSUME NEW c \in Conns
  PROVE  c \in Nat /\ c # Nobody /\ MaxSubflows \in Nat /\ MaxSubflows >= 1 /\ Changes[c] <= MaxSubflows - 1
<1>1. c \in Nat /\ c # Nobody /\ MaxSubflows \in Nat
  BY LoggerAssumption
<1>2. Changes[c] \in 0 .. (MaxSubflows - 1)
  BY LoggerAssumption
<1>. QED  BY <1>1, <1>2

\* The initial locals are locals.
LEMMA NoLocalsForm ==
  /\ NoLocals \in Locals
  /\ NoLocals.sockfd = Closed /\ NoLocals.tcp_info = <<>> /\ NoLocals.cache = {}
BY DEF NoLocals, Locals, Subflows

\* The items of a sequence.
LEMMA SeqItem ==
  ASSUME NEW S, NEW q \in Seq(S), NEW k \in 1 .. Len(q)
  PROVE  q[k] \in S
OBVIOUS

\* A sequence of less than one item is empty.
LEMMA NoItem ==
  ASSUME NEW S, NEW q \in Seq(S), Len(q) <= 1, Len(q) # 1
  PROVE  q = <<>>
<1>1. q # <<>> => Len(q) \in Nat \ {0}
  BY EmptySeq
<1>2. \A n \in Nat \ {0} : n <= 1 => n = 1
  OBVIOUS
<1>. QED  BY <1>1, <1>2, Zenon

\* The items of get_subflow_tcp_info.
LEMMA InfoForm ==
  ASSUME TypeOK, NEW d \in Conns, KernelOK(d)
  PROVE  /\ get_subflow_tcp_info(d) \in Seq(Info)
         /\ Len(get_subflow_tcp_info(d)) = Len(subs[d])
         /\ \A k \in 1 .. Len(subs[d]) : /\ get_subflow_tcp_info(d)[k].id = k - 1
                                         /\ get_subflow_tcp_info(d)[k].of = Slot(d, k)
         /\ get_subflow_info(d) = get_subflow_tcp_info(d)
<1>1. /\ subs[d] \in Seq(1 .. MaxSubflows) /\ joined[d] \in 0 .. MaxSubflows /\ Len(subs[d]) <= joined[d]
      /\ MaxSubflows \in Nat
  BY LoggerAssumption DEF TypeOK, KernelOK
<1>2. Len(subs[d]) \in Nat /\ Len(subs[d]) <= MaxSubflows
  BY <1>1
<1>3. \A k \in 1 .. Len(subs[d]) : Id(k) = k - 1 /\ k - 1 \in Ids
  BY <1>1, <1>2 DEF Id, Ids
<1>4. \A k \in 1 .. Len(subs[d]) : Slot(d, k) \in Subflows
  BY <1>1 DEF Slot, Subflows
<1>5. \A k \in 1 .. Len(subs[d]) : [id |-> Id(k), of |-> Slot(d, k)] \in Info
  BY <1>3, <1>4 DEF Info
<1>6. get_subflow_tcp_info(d) \in [1 .. Len(subs[d]) -> Info]
  BY <1>5 DEF get_subflow_tcp_info
<1>7. get_subflow_tcp_info(d) \in Seq(Info) /\ Len(get_subflow_tcp_info(d)) = Len(subs[d])
  BY <1>2, <1>6
<1>8. \A k \in 1 .. Len(subs[d]) : /\ get_subflow_tcp_info(d)[k].id = k - 1
                                   /\ get_subflow_tcp_info(d)[k].of = Slot(d, k)
  BY <1>3 DEF get_subflow_tcp_info
<1>. QED  BY <1>7, <1>8 DEF get_subflow_tcp_info, get_subflow_info

\* A logger whose client was not closed through another's asks for its own
\* connection, whatever numbers have been handed out again.
LEMMA BehindOwn ==
  ASSUME ServerOK, NEW c \in Conns, OwnOK(c), c \notin mistaken, NEW d \in Behind(loc[c].sockfd)
  PROVE  d = c
BY DEF ServerOK, OwnOK, Behind

\* What holds of a client and its logger depends on them alone.
LEMMA KeepLogger ==
  ASSUME NEW c, LoggerOK(c), pc'[c] = pc[c], loc'[c] = loc[c], subflows'[c] = subflows[c],
         rows'[c] = rows[c], fd'[c] = fd[c], subs'[c] = subs[c], joined'[c] = joined[c],
         c \notin mistaken' => c \notin mistaken
  PROVE  LoggerOK(c)'
<1>1. KernelOK(c)' /\ HeadOK(c)'
  BY DEF LoggerOK, KernelOK, HeadOK
<1>2. CacheOK(c)'
  BY DEF LoggerOK, CacheOK
<1>3. OwnOK(c)'
  BY DEF LoggerOK, OwnOK, OwnRow
<1>4. ExactOK(c)'
  BY DEF LoggerOK, ExactOK, Whole
<1>. QED  BY <1>1, <1>2, <1>3, <1>4 DEF LoggerOK

\* A step of one logger.
LEMMA OneLogger ==
  ASSUME IInv, NEW c \in Conns, NEW p, p # "none", pc' = [pc EXCEPT ![c] = p],
         \A d \in Conns \ {c} : /\ loc'[d] = loc[d] /\ subflows'[d] = subflows[d]
                                /\ rows'[d] = rows[d],
         UNCHANGED <<closing, perf_loggers, mistaken, kernel>>,
         main' = main \/ main' = "crashed", TypeOK', LoggerOK(c)'
  PROVE  IInv'
<1>1. UNCHANGED <<closing, perf_loggers, mistaken, fd, joined, subs>>
  BY DEF kernel
<1>2. pc'[c] = p /\ \A d \in Conns \ {c} : pc'[d] = pc[d]
  BY DEF IInv, TypeOK
<1>3. ASSUME NEW d \in Conns  PROVE LoggerOK(d)'
  BY <1>1, <1>2, KeepLogger DEF IInv
<1>4. ServerOK'
  <2>1. \A f \in Fds : perf_loggers[f] # Nobody => perf_loggers[f] \in Conns
    BY DEF IInv, TypeOK
  <2>. QED  BY <1>1, <1>2, <2>1 DEF IInv, ServerOK
<1>. QED  BY <1>3, <1>4 DEF IInv

\* The initial state satisfies the invariant.
LEMMA InvInit == Init => IInv
<1>. SUFFICES ASSUME Init  PROVE IInv
  OBVIOUS
<1>1. TypeOK
  <2>1. subs \in [Conns -> Seq(1 .. MaxSubflows)] /\ joined \in [Conns -> 0 .. MaxSubflows]
    BY LoggerAssumption DEF Init
  <2>2. loc \in [Conns -> Locals]
    BY NoLocalsForm DEF Init
  <2>3. subflows \in [Conns -> [Ids -> Seq(Subflows)]]
    BY DEF Init
  <2>4. rows \in [Conns -> [Ids -> Subflows \cup {NoRow}]]
    BY DEF Init
  <2>. QED  BY <2>1, <2>2, <2>3, <2>4 DEF Init, TypeOK, Pcs
<1>2. ASSUME NEW c \in Conns  PROVE LoggerOK(c)
  <2>1. /\ pc[c] = "none" /\ loc[c] = NoLocals /\ fd[c] = Closed /\ joined[c] = 0 /\ subs[c] = <<>>
        /\ \A i \in Ids : subflows[c][i] = <<>> /\ rows[c][i] = NoRow
    BY DEF Init
  <2>2. KernelOK(c) /\ HeadOK(c)
    BY <2>1 DEF KernelOK, HeadOK, Asking, Inserting
  <2>3. CacheOK(c)
    BY <2>1, NoLocalsForm DEF CacheOK
  <2>4. OwnOK(c)
    BY <2>1, NoLocalsForm DEF OwnOK
  <2>5. ExactOK(c)
    BY <2>1, NoLocalsForm DEF ExactOK
  <2>. QED  BY <2>2, <2>3, <2>4, <2>5 DEF LoggerOK
<1>3. ServerOK
  BY DEF Init, ServerOK
<1>. QED  BY <1>1, <1>2, <1>3 DEF IInv

-----------------------------------------------------------------------------
(***************************************************************************)
(* The steps of a logger.                                                  *)
(***************************************************************************)

\* A step of one logger that gets to p with the locals l and writes at most to
\* its own rows.
LEMMA LoggerMoves ==
  ASSUME IInv, NEW c \in Conns, NEW p \in Pcs \ {"none"}, NEW l \in Locals, Goto(c, p), Set(c, l),
         \A d \in Conns \ {c} : subflows'[d] = subflows[d] /\ rows'[d] = rows[d],
         subflows' \in [Conns -> [Ids -> Seq(Subflows)]],
         rows' \in [Conns -> [Ids -> Subflows \cup {NoRow}]], lock' \in Conns \cup {Nobody},
         UNCHANGED <<server, kernel, thread_run>>, LoggerOK(c)'
  PROVE  IInv'
<1>1. UNCHANGED <<main, closing, perf_loggers, mistaken, fd, joined, subs, thread_run>>
  BY DEF server, kernel
<1>2. pc' = [pc EXCEPT ![c] = p] /\ loc' = [loc EXCEPT ![c] = l]
  BY DEF Goto, Set
<1>3. pc' \in [Conns -> Pcs] /\ loc' \in [Conns -> Locals]
  BY <1>2 DEF IInv, TypeOK
<1>4. TypeOK'
  BY <1>1, <1>3 DEF IInv, TypeOK
<1>5. \A d \in Conns \ {c} : loc'[d] = loc[d]
  BY <1>2 DEF IInv, TypeOK
<1>. QED  BY <1>1, <1>2, <1>4, <1>5, OneLogger DEF kernel

\* An exception, or the end of the while loop: the locals are gone, the rows stay.
LEMMA RaiseInv ==
  ASSUME IInv, NEW c \in Conns, Goto(c, "ended"), Set(c, NoLocals), pc[c] # "none",
         UNCHANGED <<server, kernel, thread_run, subflows, rows>>, lock' \in Conns \cup {Nobody}
  PROVE  IInv'
<1>1. UNCHANGED <<mistaken, fd, joined, subs, subflows, rows>>
  BY DEF server, kernel
<1>2. pc'[c] = "ended" /\ loc'[c] = NoLocals
  BY DEF Goto, Set, IInv, TypeOK
<1>3. LoggerOK(c)
  BY DEF IInv
<1>4. KernelOK(c)' /\ HeadOK(c)'
  BY <1>1, <1>2, <1>3 DEF LoggerOK, KernelOK, HeadOK, Asking, Inserting
<1>5. CacheOK(c)'
  BY <1>1, <1>2, <1>3, NoLocalsForm DEF LoggerOK, CacheOK
<1>6. OwnOK(c)'
  BY <1>1, <1>2, <1>3, NoLocalsForm DEF LoggerOK, OwnOK, OwnRow
<1>7. ExactOK(c)'
  BY <1>1, <1>2, <1>3, NoLocalsForm DEF LoggerOK, ExactOK, Whole
<1>8. LoggerOK(c)'
  BY <1>4, <1>5, <1>6, <1>7 DEF LoggerOK
<1>9. subflows' \in [Conns -> [Ids -> Seq(Subflows)]] /\ rows' \in [Conns -> [Ids -> Subflows \cup {NoRow}]]
  BY DEF IInv, TypeOK
<1>10. "ended" \in Pcs \ {"none"}
  BY DEF Pcs
<1>. QED  BY <1>8, <1>9, <1>10, NoLocalsForm, LoggerMoves

\* The for loop comes to the next item: of own rows that are about one subflow.
LEMMA IterateInv ==
  ASSUME IInv, NEW c \in Conns, NEW l \in Locals, Iterate(c, l), pc[c] \notin {"none", "ended"},
         l.cache = loc[c].cache, l.sockfd \in {Closed, loc[c].sockfd},
         c \notin mistaken => \A k \in 1 .. Len(l.tcp_info) : OwnRow(c, l.tcp_info[k].id, l.tcp_info[k].of),
         Whole(c) => \A k \in 1 .. Len(l.tcp_info) :
                       l.tcp_info[k].id < Slots => l.tcp_info[k].of = <<c, l.tcp_info[k].id + 1>>,
         \A i \in Ids : /\ rows'[c][i] # NoRow => Len(subflows[c][i]) = 1
                        /\ c \notin mistaken => rows'[c][i] = NoRow \/ OwnRow(c, i, rows'[c][i])
                        /\ Whole(c) /\ i < Slots => rows'[c][i] \in {NoRow, <<c, i + 1>>},
         \A d \in Conns \ {c} : rows'[d] = rows[d],
         rows' \in [Conns -> [Ids -> Subflows \cup {NoRow}]], lock' \in Conns \cup {Nobody},
         UNCHANGED <<server, kernel, thread_run, subflows>>
  PROVE  IInv'
<1>1. UNCHANGED <<mistaken, fd, joined, subs, subflows>>
  BY DEF server, kernel
<1>2. PICK p \in {"while", "row_insert", "info"}, m \in Locals :
        /\ Goto(c, p) /\ Set(c, m)
        /\ m.tcp_info = l.tcp_info /\ m.cache = l.cache /\ m.sockfd \in {l.sockfd, fd[c]}
        /\ p = "row_insert" => l.tcp_info # <<>> /\ Head(l.tcp_info).id \in l.cache
        /\ p = "info" => l.tcp_info # <<>> /\ Head(l.tcp_info).id \notin l.cache
  <2>1. [l EXCEPT !.sockfd = fd[c]] \in Locals
    BY DEF IInv, TypeOK, Locals
  <2>2. /\ [l EXCEPT !.sockfd = fd[c]].tcp_info = l.tcp_info /\ [l EXCEPT !.sockfd = fd[c]].cache = l.cache
        /\ [l EXCEPT !.sockfd = fd[c]].sockfd = fd[c]
    BY DEF Locals
  <2>. QED  BY <2>1, <2>2 DEF Iterate
<1>3. pc'[c] = p /\ loc'[c] = m
  BY <1>2 DEF Goto, Set, IInv, TypeOK
<1>4. LoggerOK(c)
  BY DEF IInv
<1>5. KernelOK(c)'
  BY <1>1, <1>2, <1>3, <1>4 DEF LoggerOK, KernelOK
<1>6. HeadOK(c)'
  BY <1>2, <1>3 DEF HeadOK, Asking, Inserting
<1>7. CacheOK(c)'
  BY <1>1, <1>2, <1>3, <1>4 DEF LoggerOK, CacheOK
<1>8. OwnOK(c)'
  <2>. SUFFICES ASSUME c \notin mistaken
                PROVE  /\ fd[c] # Closed /\ m.sockfd \in {Closed, fd[c]}
                       /\ \A k \in 1 .. Len(m.tcp_info) : OwnRow(c, m.tcp_info[k].id, m.tcp_info[k].of)
                       /\ \A i \in Ids : rows'[c][i] = NoRow \/ OwnRow(c, i, rows'[c][i])
    BY <1>1, <1>3 DEF OwnOK, OwnRow
  <2>1. fd[c] # Closed /\ loc[c].sockfd \in {Closed, fd[c]}
    BY <1>4 DEF LoggerOK, OwnOK
  <2>. QED  BY <1>2, <2>1
<1>9. ExactOK(c)'
  <2>. SUFFICES ASSUME Whole(c)
                PROVE  /\ \A k \in 1 .. Len(subs[c]) : subs[c][k] = k
                       /\ \A k \in 1 .. Len(m.tcp_info) :
                            m.tcp_info[k].id < Slots => m.tcp_info[k].of = <<c, m.tcp_info[k].id + 1>>
                       /\ \A i \in Ids : i < Slots =>
                            /\ rows'[c][i] \in {NoRow, <<c, i + 1>>}
                            /\ subflows[c][i] \in {<<>>, <<<<c, i + 1>>>>}
    BY <1>1, <1>2, <1>3 DEF ExactOK, Whole
  <2>. QED  BY <1>2, <1>4 DEF LoggerOK, ExactOK
<1>10. LoggerOK(c)'
  BY <1>5, <1>6, <1>7, <1>8, <1>9 DEF LoggerOK
<1>11. subflows' \in [Conns -> [Ids -> Seq(Subflows)]]
  BY DEF IInv, TypeOK
<1>12. p \in Pcs \ {"none"}
  BY <1>2 DEF Pcs
<1>. QED  BY <1>2, <1>10, <1>11, <1>12, LoggerMoves

\* A step that changes neither the locals that matter nor the rows.
LEMMA AdvanceInv ==
  ASSUME IInv, NEW c \in Conns, NEW p \in Pcs \ {"none", "ended"}, NEW l \in Locals, Goto(c, p), Set(c, l),
         pc[c] \notin {"none", "ended"}, l.tcp_info = loc[c].tcp_info, l.cache = loc[c].cache,
         l.sockfd \in {Closed, fd[c], loc[c].sockfd}, p \notin {"init"},
         p \in Asking => pc[c] \in Asking, p \in Inserting => pc[c] \in Inserting,
         p \in {"sub_insert", "sub_commit"} /\ Whole(c) /\ Head(l.tcp_info).id < Slots =>
           l.sinfo = <<c, Head(l.tcp_info).id + 1>>,
         UNCHANGED <<server, kernel, thread_run, subflows, rows>>, lock' \in Conns \cup {Nobody}
  PROVE  IInv'
<1>1. UNCHANGED <<mistaken, fd, joined, subs, subflows, rows>>
  BY DEF server, kernel
<1>2. pc'[c] = p /\ loc'[c] = l
  BY DEF Goto, Set, IInv, TypeOK
<1>3. LoggerOK(c)
  BY DEF IInv
<1>4. KernelOK(c)'
  BY <1>1, <1>2, <1>3 DEF LoggerOK, KernelOK
<1>5. HeadOK(c)'
  BY <1>2, <1>3 DEF LoggerOK, HeadOK, Asking, Inserting
<1>6. CacheOK(c)'
  BY <1>1, <1>2, <1>3 DEF LoggerOK, CacheOK
<1>7. OwnOK(c)'
  <2>. SUFFICES ASSUME c \notin mistaken
                PROVE  /\ fd[c] # Closed /\ l.sockfd \in {Closed, fd[c]}
                       /\ \A k \in 1 .. Len(l.tcp_info) : OwnRow(c, l.tcp_info[k].id, l.tcp_info[k].of)
                       /\ \A i \in Ids : rows[c][i] = NoRow \/ OwnRow(c, i, rows[c][i])
    BY <1>1, <1>2 DEF OwnOK, OwnRow
  <2>. QED  BY <1>3 DEF LoggerOK, OwnOK
<1>8. ExactOK(c)'
  <2>. SUFFICES ASSUME Whole(c)
                PROVE  /\ \A k \in 1 .. Len(subs[c]) : subs[c][k] = k
                       /\ \A k \in 1 .. Len(l.tcp_info) :
                            l.tcp_info[k].id < Slots => l.tcp_info[k].of = <<c, l.tcp_info[k].id + 1>>
                       /\ p \in {"sub_insert", "sub_commit"} /\ Head(l.tcp_info).id < Slots =>
                            l.sinfo = <<c, Head(l.tcp_info).id + 1>>
                       /\ \A i \in Ids : i < Slots =>
                            /\ rows[c][i] \in {NoRow, <<c, i + 1>>}
                            /\ subflows[c][i] \in {<<>>, <<<<c, i + 1>>>>}
    BY <1>1, <1>2 DEF ExactOK, Whole
  <2>. QED  BY <1>3 DEF LoggerOK, ExactOK
<1>9. LoggerOK(c)'
  BY <1>4, <1>5, <1>6, <1>7, <1>8 DEF LoggerOK
<1>10. subflows' \in [Conns -> [Ids -> Seq(Subflows)]] /\ rows' \in [Conns -> [Ids -> Subflows \cup {NoRow}]]
  BY DEF IInv, TypeOK
<1>. QED  BY <1>9, <1>10, LoggerMoves

\* Locals that stay are set to what they were.
LEMMA StillSet ==
  ASSUME TypeOK, NEW c \in Conns, UNCHANGED loc
  PROVE  Set(c, loc[c]) /\ loc[c] \in Locals
BY DEF TypeOK, Set

\* init_db, or the exception it raises.
LEMMA InitDbInv ==
  ASSUME IInv, NEW c \in Conns, InitDb(c)
  PROVE  IInv'
<1>1. /\ pc[c] = "init" /\ UNCHANGED <<server, kernel, thread_run, subflows, rows>>
      /\ lock' \in Conns \cup {Nobody}
  BY DEF InitDb, At, db, IInv, TypeOK
<1>2. CASE Goto(c, "while") /\ UNCHANGED loc
  <2>1. Set(c, loc[c]) /\ loc[c] \in Locals
    BY <1>2, StillSet DEF IInv
  <2>2. "while" \in Pcs \ {"none", "ended"}
    BY DEF Pcs
  <2>. QED  BY <1>1, <1>2, <2>1, <2>2, AdvanceInv DEF Asking, Inserting
<1>3. CASE Raise(c)
  BY <1>1, <1>3, RaiseInv DEF Raise
<1>. QED  BY <1>2, <1>3 DEF InitDb

\* The test of the while loop, and fileno().
LEMMA WhileInv ==
  ASSUME IInv, NEW c \in Conns, While(c)
  PROVE  IInv'
<1>1. /\ pc[c] = "while" /\ UNCHANGED <<server, kernel, thread_run, subflows, rows>>
      /\ lock' \in Conns \cup {Nobody}
  BY DEF While, At, db, IInv, TypeOK
<1>2. CASE Goto(c, "tcp_info") /\ Set(c, [loc[c] EXCEPT !.sockfd = fd[c]])
  <2>0. PICK l : l = [loc[c] EXCEPT !.sockfd = fd[c]]
    OBVIOUS
  <2>1. l \in Locals /\ l.tcp_info = loc[c].tcp_info /\ l.cache = loc[c].cache /\ l.sockfd = fd[c]
    <3>1. loc[c] \in Locals /\ fd[c] \in Fds \cup {Closed}
      BY DEF IInv, TypeOK
    <3>. QED  BY <2>0, <3>1 DEF Locals
  <2>2. "tcp_info" \in Pcs \ {"none", "ended"}
    BY DEF Pcs
  <2>. QED  BY <1>1, <1>2, <2>0, <2>1, <2>2, AdvanceInv DEF Asking, Inserting
<1>3. CASE Goto(c, "ended") /\ Set(c, NoLocals)
  BY <1>1, <1>3, RaiseInv
<1>. QED  BY <1>2, <1>3 DEF While

\* The items of getsockopt are of the logger's own connection.
LEMMA TcpInfoInv ==
  ASSUME IInv, NEW c \in Conns, TcpInfo(c)
  PROVE  IInv'
<1>1. /\ pc[c] = "tcp_info" /\ UNCHANGED <<server, kernel, thread_run, subflows, rows>>
      /\ lock' \in Conns \cup {Nobody} /\ LoggerOK(c) /\ rows' \in [Conns -> [Ids -> Subflows \cup {NoRow}]]
  BY DEF TcpInfo, At, db, IInv, TypeOK
<1>2. CASE Raise(c)
  BY <1>1, <1>2, RaiseInv DEF Raise
<1>3. ASSUME NEW d \in Behind(loc[c].sockfd),
             Iterate(c, [loc[c] EXCEPT !.tcp_info = get_subflow_tcp_info(d), !.sockfd = Closed])
      PROVE  IInv'
  <2>1. d \in Conns /\ KernelOK(d)
    BY DEF Behind, IInv, LoggerOK
  <2>2. /\ get_subflow_tcp_info(d) \in Seq(Info)
        /\ Len(get_subflow_tcp_info(d)) = Len(subs[d])
        /\ \A k \in 1 .. Len(subs[d]) : /\ get_subflow_tcp_info(d)[k].id = k - 1
                                        /\ get_subflow_tcp_info(d)[k].of = Slot(d, k)
    BY <2>1, InfoForm DEF IInv
  <2>0. PICK l : l = [loc[c] EXCEPT !.tcp_info = get_subflow_tcp_info(d), !.sockfd = Closed]
    OBVIOUS
  <2>3. l \in Locals /\ l.tcp_info = get_subflow_tcp_info(d) /\ l.cache = loc[c].cache /\ l.sockfd = Closed
    <3>1. loc[c] \in Locals
      BY DEF IInv, TypeOK
    <3>. QED  BY <2>0, <2>2, <3>1 DEF Locals
  <2>4. c \notin mistaken => d = c
    BY <1>1, BehindOwn DEF IInv, LoggerOK
  <2>5. subs[d] \in Seq(1 .. MaxSubflows) /\ Len(subs[d]) \in Nat /\ joined[d] \in Nat /\ Len(subs[d]) <= joined[d]
    BY <2>1, LoggerAssumption DEF IInv, TypeOK, KernelOK
  <2>6. c \notin mistaken => \A k \in 1 .. Len(l.tcp_info) : OwnRow(c, l.tcp_info[k].id, l.tcp_info[k].of)
    <3>. SUFFICES ASSUME c \notin mistaken, NEW k \in 1 .. Len(subs[c])
                  PROVE  OwnRow(c, k - 1, Slot(c, k))
      BY <2>2, <2>3, <2>4
    <3>1. CASE k <= Slots
      BY <3>1 DEF Slot, OwnRow
    <3>2. CASE ~ (k <= Slots)
      <4>1. k - 1 >= Slots /\ joined[c] > Slots
        BY <2>4, <2>5, <3>2 DEF Slots
      <4>. QED  BY <3>2, <4>1 DEF Slot, OwnRow
    <3>. QED  BY <3>1, <3>2
  <2>7. Whole(c) => \A k \in 1 .. Len(l.tcp_info) :
                      l.tcp_info[k].id < Slots => l.tcp_info[k].of = <<c, l.tcp_info[k].id + 1>>
    <3>. SUFFICES ASSUME Whole(c), NEW k \in 1 .. Len(subs[c]), k - 1 < Slots
                  PROVE  Slot(c, k) = <<c, (k - 1) + 1>>
      BY <2>2, <2>3, <2>4 DEF Whole
    <3>1. subs[c][k] = k
      BY <1>1 DEF LoggerOK, ExactOK
    <3>. QED  BY <2>5, <3>1 DEF Slot, Slots
  <2>8. \A i \in Ids : /\ rows[c][i] # NoRow => Len(subflows[c][i]) = 1
                       /\ c \notin mistaken => rows[c][i] = NoRow \/ OwnRow(c, i, rows[c][i])
                       /\ Whole(c) /\ i < Slots => rows[c][i] \in {NoRow, <<c, i + 1>>}
    BY <1>1 DEF LoggerOK, CacheOK, OwnOK, ExactOK
  <2>9. Iterate(c, l)
    BY <1>3, <2>0
  <2>. QED  BY <1>1, <2>3, <2>6, <2>7, <2>8, <2>9, IterateInv
<1>. QED  BY <1>2, <1>3 DEF TcpInfo

\* The addresses are those of the item's own subflow while none has left; an item
\* that was not filled needs a third subflow.
LEMMA SubflowInfoInv ==
  ASSUME IInv, NEW c \in Conns, SubflowInfo(c)
  PROVE  IInv'
<1>. DEFINE id == Head(loc[c].tcp_info).id
<1>1. /\ pc[c] = "info" /\ UNCHANGED <<closing, perf_loggers, mistaken, kernel, thread_run, subflows, rows, lock>>
      /\ lock' \in Conns \cup {Nobody} /\ LoggerOK(c)
  BY DEF SubflowInfo, At, db, IInv, TypeOK
<1>2. CASE Raise(c) /\ UNCHANGED main
  BY <1>1, <1>2, RaiseInv DEF Raise, server
<1>3. ASSUME NEW d \in Behind(loc[c].sockfd), Unfilled(d) # {}, main' = "crashed", UNCHANGED <<pc, loc>>
      PROVE  IInv'
  <2>4. UNCHANGED <<closing, perf_loggers, mistaken, fd, joined, subs, thread_run, subflows, rows, lock, pc, loc>>
    BY <1>1, <1>3 DEF kernel
  <2>6. TypeOK'
    BY <1>3, <2>4 DEF IInv, TypeOK
  <2>7. ServerOK'
    BY <1>3, <2>4 DEF IInv, ServerOK
  <2>8. ASSUME NEW e \in Conns  PROVE LoggerOK(e)'
    BY <2>4, KeepLogger DEF IInv
  <2>. QED  BY <2>6, <2>7, <2>8 DEF IInv
<1>4. ASSUME NEW d \in Behind(loc[c].sockfd), Filter(d, id) # {}, Goto(c, "sub_insert"), UNCHANGED main,
             Set(c, [loc[c] EXCEPT !.sinfo = FirstLeft(d, id).of, !.sockfd = Closed])
      PROVE  IInv'
  <2>1. d \in Conns /\ KernelOK(d)
    BY DEF Behind, IInv, LoggerOK
  <2>2. /\ get_subflow_tcp_info(d) \in Seq(Info)
        /\ Len(get_subflow_tcp_info(d)) = Len(subs[d])
        /\ \A k \in 1 .. Len(subs[d]) : /\ get_subflow_tcp_info(d)[k].id = k - 1
                                        /\ get_subflow_tcp_info(d)[k].of = Slot(d, k)
        /\ get_subflow_info(d) = get_subflow_tcp_info(d)
    BY <2>1, InfoForm DEF IInv
  <2>3. subs[d] \in Seq(1 .. MaxSubflows) /\ Len(subs[d]) \in Nat
    BY <2>1 DEF IInv, TypeOK
  <2>4. loc[c] \in Locals /\ loc[c].tcp_info # <<>>
    BY <1>1 DEF IInv, TypeOK, LoggerOK, HeadOK, Asking
  <2>5. id \in Nat
    <3>1. loc[c].tcp_info \in Seq(Info)
      BY <2>4 DEF Locals
    <3>2. Head(loc[c].tcp_info) \in Info
      BY <2>4, <3>1
    <3>. QED  BY <3>2 DEF Info, Ids
  <2>. HIDE DEF id
  <2>6. PICK k \in 1 .. Len(subs[d]) : k = id + 1
    <3>1. PICK k \in Filter(d, id) : TRUE
      BY <1>4
    <3>2. k \in 1 .. Len(subs[d]) /\ k - 1 = id
      BY <2>2, <3>1 DEF Filter, HasId
    <3>3. k = id + 1
      BY <2>3, <2>5, <3>2
    <3>. QED  BY <3>2, <3>3
  <2>7. Filter(d, id) = {k}
    <3>1. \A j \in 1 .. Len(subs[d]) : HasId(get_subflow_info(d)[j], id) <=> j - 1 = id
      BY <2>2 DEF HasId
    <3>. QED  BY <2>3, <2>5, <2>6, <3>1 DEF Filter
  <2>8. Min(Filter(d, id)) = k
    <3>1. k <= k
      BY <2>3, <2>6
    <3>. QED  BY <2>7, <3>1 DEF Min
  <2>9. FirstLeft(d, id).of = Slot(d, k)
    BY <2>2, <2>6, <2>8 DEF FirstLeft
  <2>10. Slot(d, k) \in Subflows
    <3>1. subs[d][k] \in 1 .. MaxSubflows
      BY <2>3, <2>6, SeqItem
    <3>. QED  BY <2>1, <3>1 DEF Slot, Subflows
  <2>0. PICK l : l = [loc[c] EXCEPT !.sinfo = FirstLeft(d, id).of, !.sockfd = Closed]
    OBVIOUS
  <2>11. /\ l \in Locals /\ l.tcp_info = loc[c].tcp_info /\ l.cache = loc[c].cache /\ l.sockfd = Closed
         /\ l.sinfo = Slot(d, k)
    BY <2>0, <2>4, <2>9, <2>10 DEF Locals
  <2>12. Whole(c) /\ id < Slots => Slot(d, k) = <<c, id + 1>>
    <3>. SUFFICES ASSUME Whole(c), id < Slots  PROVE Slot(d, k) = <<c, id + 1>>
      OBVIOUS
    <3>1. d = c
      BY <1>1, BehindOwn DEF IInv, LoggerOK, Whole
    <3>2. subs[c][k] = k
      BY <1>1, <2>6, <3>1 DEF LoggerOK, ExactOK
    <3>. QED  BY <2>3, <2>5, <2>6, <3>1, <3>2 DEF Slot, Slots
  <2>13. Head(l.tcp_info).id = id
    BY <2>11 DEF id
  <2>14. UNCHANGED <<server, kernel, thread_run, subflows, rows>> /\ "sub_insert" \in Pcs \ {"none", "ended"}
    BY <1>1, <1>4 DEF server, Pcs
  <2>15. pc[c] \in Asking /\ "sub_insert" \notin Inserting
    BY <1>1 DEF Asking, Inserting
  <2>16. Goto(c, "sub_insert") /\ Set(c, l)
    BY <1>4, <2>0
  <2>. QED  BY <1>1, <2>11, <2>12, <2>13, <2>14, <2>15, <2>16, AdvanceInv
<1>. QED  BY <1>1, <1>2, <1>3, <1>4 DEF SubflowInfo

\* An INSERT, or the exception when the database is locked.
LEMMA ExecuteInv ==
  ASSUME IInv, NEW c \in Conns, Execute(c)
  PROVE  IInv'
<1>1. /\ pc[c] \in {"sub_insert", "row_insert"} /\ UNCHANGED <<server, kernel, thread_run, subflows, rows>>
      /\ lock' \in Conns \cup {Nobody} /\ LoggerOK(c)
  BY DEF Execute, At, IInv, TypeOK
<1>2. CASE Raise(c)
  BY <1>1, <1>2, RaiseInv DEF Raise
<1>3. CASE ~ Raise(c)
  <2>1. /\ UNCHANGED loc
        /\ \/ pc[c] = "sub_insert" /\ Goto(c, "sub_commit")
           \/ pc[c] = "row_insert" /\ Goto(c, "row_commit")
    BY <1>3 DEF Execute, At
  <2>2. Set(c, loc[c]) /\ loc[c] \in Locals
    BY <2>1, StillSet DEF IInv
  <2>3. CASE pc[c] = "sub_insert" /\ Goto(c, "sub_commit")
    <3>1. "sub_commit" \in Pcs \ {"none", "ended"} /\ pc[c] \in Asking /\ "sub_commit" \notin Inserting
      BY <2>3 DEF Pcs, Asking, Inserting
    <3>2. Whole(c) /\ Head(loc[c].tcp_info).id < Slots => loc[c].sinfo = <<c, Head(loc[c].tcp_info).id + 1>>
      BY <1>1, <2>3 DEF LoggerOK, ExactOK
    <3>. QED  BY <1>1, <2>2, <2>3, <3>1, <3>2, AdvanceInv
  <2>4. CASE pc[c] = "row_insert" /\ Goto(c, "row_commit")
    <3>1. "row_commit" \in Pcs \ {"none", "ended"} /\ pc[c] \in Inserting /\ "row_commit" \notin Asking
      BY <2>4 DEF Pcs, Asking, Inserting
    <3>. QED  BY <1>1, <2>2, <2>4, <3>1, AdvanceInv
  <2>. QED  BY <2>1, <2>3, <2>4
<1>. QED  BY <1>2, <1>3

\* The commit of a row of tcp_conn_info: its id has its row of subflows.
LEMMA CommitRowInv ==
  ASSUME IInv, NEW c \in Conns, CommitRow(c)
  PROVE  IInv'
<1>. DEFINE r == Head(loc[c].tcp_info)
            q == loc[c].tcp_info
<1>1. /\ pc[c] = "row_commit" /\ UNCHANGED <<server, kernel, thread_run, subflows>>
      /\ lock' \in Conns \cup {Nobody} /\ LoggerOK(c)
      /\ rows' = [rows EXCEPT ![c][r.id] = r.of]
      /\ Iterate(c, [loc[c] EXCEPT !.tcp_info = Tail(@)])
  BY DEF CommitRow, At, Unlock, IInv, TypeOK
<1>2. /\ q \in Seq(Info) /\ q # <<>> /\ r.id \in loc[c].cache /\ loc[c] \in Locals
  BY <1>1 DEF IInv, TypeOK, Locals, LoggerOK, HeadOK, Inserting
<1>3. r = q[1] /\ 1 \in 1 .. Len(q) /\ r \in Info
  BY <1>2
<1>4. r.id \in Ids /\ r.of \in Subflows
  BY <1>3 DEF Info
<1>5. /\ rows'[c][r.id] = r.of /\ \A i \in Ids : i # r.id => rows'[c][i] = rows[c][i]
      /\ \A d \in Conns \ {c} : rows'[d] = rows[d]
      /\ rows' \in [Conns -> [Ids -> Subflows \cup {NoRow}]]
  <2>1. rows \in [Conns -> [Ids -> Subflows \cup {NoRow}]]
    BY DEF IInv, TypeOK
  <2>2. rows' = [rows EXCEPT ![c] = [rows[c] EXCEPT ![r.id] = r.of]]
    BY <1>1
  <2>3. [rows[c] EXCEPT ![r.id] = r.of] \in [Ids -> Subflows \cup {NoRow}]
    BY <1>4, <2>1
  <2>. QED  BY <1>4, <2>1, <2>2, <2>3
<1>0. PICK l : l = [loc[c] EXCEPT !.tcp_info = Tail(@)]
  OBVIOUS
<1>6. l \in Locals /\ l.tcp_info = Tail(q) /\ l.cache = loc[c].cache /\ l.sockfd = loc[c].sockfd
  <2>1. Tail(q) \in Seq(Info)
    BY <1>2
  <2>. QED  BY <1>0, <1>2, <2>1 DEF Locals
<1>7. Iterate(c, l)
  BY <1>0, <1>1
<1>8. \A k \in 1 .. Len(l.tcp_info) : l.tcp_info[k] = q[k + 1] /\ k + 1 \in 1 .. Len(q)
  <2>1. Len(Tail(q)) = Len(q) - 1 /\ Len(q) \in Nat
    BY <1>2
  <2>2. \A k \in 1 .. Len(Tail(q)) : Tail(q)[k] = q[k + 1]
    BY <1>2, <2>1
  <2>. QED  BY <1>6, <2>1, <2>2
<1>. HIDE DEF r, q
<1>9. c \notin mistaken => \A k \in 1 .. Len(q) : OwnRow(c, q[k].id, q[k].of)
  BY <1>1 DEF LoggerOK, OwnOK, q
<1>10. Whole(c) => \A k \in 1 .. Len(q) : q[k].id < Slots => q[k].of = <<c, q[k].id + 1>>
  BY <1>1 DEF LoggerOK, ExactOK, q
<1>11. \A i \in Ids : /\ rows'[c][i] # NoRow => Len(subflows[c][i]) = 1
                      /\ c \notin mistaken => rows'[c][i] = NoRow \/ OwnRow(c, i, rows'[c][i])
                      /\ Whole(c) /\ i < Slots => rows'[c][i] \in {NoRow, <<c, i + 1>>}
  <2>. TAKE i \in Ids
  <2>1. CASE i = r.id
    <3>1. Len(subflows[c][i]) = 1
      BY <1>1, <1>2, <2>1 DEF LoggerOK, CacheOK
    <3>2. c \notin mistaken => OwnRow(c, i, rows'[c][i])
      BY <1>3, <1>5, <1>9, <2>1
    <3>3. Whole(c) /\ i < Slots => rows'[c][i] = <<c, i + 1>>
      BY <1>3, <1>5, <1>10, <2>1
    <3>. QED  BY <3>1, <3>2, <3>3
  <2>2. CASE i # r.id
    BY <1>1, <1>5, <2>2 DEF LoggerOK, CacheOK, OwnOK, ExactOK
  <2>. QED  BY <2>1, <2>2
<1>12. c \notin mistaken => \A k \in 1 .. Len(l.tcp_info) : OwnRow(c, l.tcp_info[k].id, l.tcp_info[k].of)
  BY <1>8, <1>9
<1>13. Whole(c) => \A k \in 1 .. Len(l.tcp_info) :
                     l.tcp_info[k].id < Slots => l.tcp_info[k].of = <<c, l.tcp_info[k].id + 1>>
  BY <1>8, <1>10
<1>. QED  BY <1>1, <1>5, <1>6, <1>7, <1>11, <1>12, <1>13, IterateInv


\* The commit of a row of subflows, under an id that had none: the id enters the
\* cache.
LEMMA CommitSubflowInv ==
  ASSUME IInv, NEW c \in Conns, CommitSubflow(c)
  PROVE  IInv'
<1>1. PICK q, id, s, C : /\ q = loc[c].tcp_info /\ id = Head(loc[c].tcp_info).id /\ s = loc[c].sinfo
                         /\ C = loc[c].cache \cup {id}
  OBVIOUS
<1>2. /\ pc[c] = "sub_commit" /\ UNCHANGED <<server, kernel, thread_run, rows>>
      /\ lock' \in Conns \cup {Nobody} /\ LoggerOK(c) /\ Goto(c, "row_insert")
      /\ subflows' = [subflows EXCEPT ![c][id] = Append(@, s)]
      /\ Set(c, [loc[c] EXCEPT !.cache = C, !.sinfo = Garbage])
  BY <1>1 DEF CommitSubflow, At, Unlock, Remember, IInv, TypeOK
<1>3. /\ loc[c] \in Locals /\ q \in Seq(Info) /\ q # <<>> /\ s \in Subflows /\ id \notin loc[c].cache
  BY <1>1, <1>2 DEF IInv, TypeOK, Locals, LoggerOK, HeadOK, Asking
<1>4. id \in Ids /\ C \in SUBSET Ids
  <2>1. Head(q) \in Info
    BY <1>3
  <2>2. id \in Ids
    BY <1>1, <2>1 DEF Info
  <2>. QED  BY <1>1, <1>3, <2>2 DEF Locals
<1>5. PICK l : l = [loc[c] EXCEPT !.cache = C, !.sinfo = Garbage]
  OBVIOUS
<1>6. l \in Locals /\ l.tcp_info = q /\ l.cache = C /\ l.sockfd = loc[c].sockfd
  <2>1. Garbage \in Subflows
    BY DEF Subflows
  <2>. QED  BY <1>1, <1>3, <1>4, <1>5, <2>1 DEF Locals
<1>7. subflows[c][id] = <<>>
  <2>1. subflows[c][id] \in Seq(Subflows)
    BY <1>4 DEF IInv, TypeOK
  <2>2. Len(subflows[c][id]) <= 1 /\ Len(subflows[c][id]) # 1
    BY <1>2, <1>3, <1>4 DEF LoggerOK, CacheOK
  <2>. QED  BY <2>1, <2>2, NoItem
<1>8. /\ subflows'[c][id] = <<s>> /\ \A i \in Ids : i # id => subflows'[c][i] = subflows[c][i]
      /\ \A d \in Conns \ {c} : subflows'[d] = subflows[d]
      /\ subflows' \in [Conns -> [Ids -> Seq(Subflows)]]
  <2>1. subflows \in [Conns -> [Ids -> Seq(Subflows)]]
    BY DEF IInv, TypeOK
  <2>2. subflows' = [subflows EXCEPT ![c] = [subflows[c] EXCEPT ![id] = <<s>>]]
    <3>1. Append(subflows[c][id], s) = <<s>>
      BY <1>3, <1>7
    <3>2. subflows' = [subflows EXCEPT ![c] = [subflows[c] EXCEPT ![id] = Append(subflows[c][id], s)]]
      BY <1>2
    <3>. QED  BY <3>1, <3>2, Zenon
  <2>3. <<s>> \in Seq(Subflows)
    BY <1>3
  <2>4. [subflows[c] EXCEPT ![id] = <<s>>] \in [Ids -> Seq(Subflows)]
    BY <1>4, <2>1, <2>3
  <2>. QED  BY <1>4, <2>1, <2>2, <2>4
<1>9. pc'[c] = "row_insert" /\ loc'[c] = l
  BY <1>2, <1>5 DEF Goto, Set, IInv, TypeOK
<1>10. UNCHANGED <<mistaken, fd, joined, subs, rows>>
  BY <1>2 DEF server, kernel
<1>11. KernelOK(c)'
  BY <1>2, <1>9, <1>10 DEF LoggerOK, KernelOK
<1>12. HeadOK(c)'
  BY <1>1, <1>3, <1>6, <1>9 DEF HeadOK, Asking, Inserting
<1>13. CacheOK(c)'
  <2>. SUFFICES ASSUME NEW i \in Ids
                PROVE  /\ Len(subflows'[c][i]) <= 1
                       /\ i \in C => Len(subflows'[c][i]) = 1
                       /\ Len(subflows'[c][i]) = 1 => i \in C
                       /\ rows[c][i] # NoRow => Len(subflows'[c][i]) = 1
    BY <1>6, <1>9, <1>10 DEF CacheOK
  <2>1. CASE i = id
    <3>1. Len(<<s>>) = 1 /\ id \in C
      BY <1>1
    <3>2. Len(subflows'[c][i]) = 1 /\ i \in C
      BY <1>8, <2>1, <3>1, Zenon
    <3>. QED  BY <3>2
  <2>2. CASE i # id
    BY <1>1, <1>2, <1>8, <2>2 DEF LoggerOK, CacheOK
  <2>. QED  BY <2>1, <2>2
<1>14. OwnOK(c)'
  BY <1>1, <1>2, <1>6, <1>9, <1>10 DEF LoggerOK, OwnOK, OwnRow
<1>15. ExactOK(c)'
  <2>. SUFFICES ASSUME Whole(c)
                PROVE  /\ \A k \in 1 .. Len(subs[c]) : subs[c][k] = k
                       /\ \A k \in 1 .. Len(q) : q[k].id < Slots => q[k].of = <<c, q[k].id + 1>>
                       /\ \A i \in Ids : i < Slots =>
                            /\ rows[c][i] \in {NoRow, <<c, i + 1>>}
                            /\ subflows'[c][i] \in {<<>>, <<<<c, i + 1>>>>}
    <3>1. /\ pc'[c] = "row_insert" /\ loc'[c].tcp_info = q /\ subs'[c] = subs[c] /\ rows'[c] = rows[c]
          /\ Whole(c)' <=> Whole(c)
      BY <1>6, <1>9, <1>10 DEF Whole
    <3>. QED  BY <3>1 DEF ExactOK
  <2>1. ExactOK(c)
    BY <1>2 DEF LoggerOK
  <2>2. id < Slots => s = <<c, id + 1>>
    BY <1>1, <1>2, <2>1 DEF ExactOK
  <2>3. \A i \in Ids : i < Slots => subflows'[c][i] \in {<<>>, <<<<c, i + 1>>>>}
    BY <1>8, <2>1, <2>2 DEF ExactOK
  <2>. QED  BY <1>1, <2>1, <2>3 DEF ExactOK
<1>16. LoggerOK(c)'
  BY <1>11, <1>12, <1>13, <1>14, <1>15 DEF LoggerOK
<1>17. "row_insert" \in Pcs \ {"none"} /\ rows' \in [Conns -> [Ids -> Subflows \cup {NoRow}]]
       /\ (\A d \in Conns \ {c} : rows'[d] = rows[d]) /\ UNCHANGED <<server, kernel, thread_run>>
       /\ Set(c, l)
  BY <1>2, <1>5 DEF Pcs, IInv, TypeOK
<1>. QED  BY <1>2, <1>6, <1>8, <1>16, <1>17, LoggerMoves

\* The commit raises.
LEMMA CommitFailsInv ==
  ASSUME IInv, NEW c \in Conns, CommitFails(c)
  PROVE  IInv'
<1>1. pc[c] # "none" /\ UNCHANGED <<server, kernel, thread_run, subflows, rows>> /\ lock' \in Conns \cup {Nobody}
  BY DEF CommitFails, At, IInv, TypeOK
<1>. QED  BY <1>1, RaiseInv DEF CommitFails, Raise

\* A step of a logger preserves the invariant.
LEMMA LoggerStepInv ==
  ASSUME IInv, NEW c \in Conns, LoggerStep(c)
  PROVE  IInv'
BY InitDbInv, WhileInv, TcpInfoInv, SubflowInfoInv, ExecuteInv, CommitSubflowInv, CommitRowInv, CommitFailsInv
   DEF LoggerStep


-----------------------------------------------------------------------------
(***************************************************************************)
(* The server's steps.                                                     *)
(***************************************************************************)

\* A new client's socket has a number nobody uses; its logger knows of nothing.
LEMMA StartInv ==
  ASSUME IInv, NEW c \in Conns, Start(c)
  PROVE  IInv'
<1>1. PICK f \in Fds :
        /\ \A d \in Conns : fd[d] # f
        /\ fd' = [fd EXCEPT ![c] = f]
        /\ perf_loggers' = [perf_loggers EXCEPT ![f] = c]
        /\ lock' = IF lock # Nobody /\ lock = perf_loggers[f] /\ pc[lock] = "ended"
                   THEN Nobody ELSE lock
  BY DEF Start
<1>2. PICK s, j : s = (IF c \in Plain THEN <<>> ELSE <<1>>) /\ j = (IF c \in Plain THEN 0 ELSE 1)
  OBVIOUS
<1>3. /\ main = "loop" /\ pc[c] = "none"
      /\ subs' = [subs EXCEPT ![c] = s] /\ joined' = [joined EXCEPT ![c] = j]
      /\ pc' = [pc EXCEPT ![c] = "init"] /\ thread_run' = [thread_run EXCEPT ![c] = TRUE]
      /\ UNCHANGED <<main, closing, mistaken, loc, subflows, rows>>
  BY <1>2 DEF Start, Goto
<1>4. s \in Seq(1 .. MaxSubflows) /\ Len(s) = j /\ j \in 0 .. MaxSubflows /\ \A k \in 1 .. Len(s) : s[k] = k
  <2>1. MaxSubflows \in Nat /\ MaxSubflows >= 1
    BY ConnForm
  <2>2. CASE c \in Plain
    BY <1>2, <2>1, <2>2
  <2>3. CASE c \notin Plain
    <3>1. 1 \in 1 .. MaxSubflows
      BY <2>1
    <3>. QED  BY <1>2, <2>1, <2>3, <3>1
  <2>. QED  BY <2>2, <2>3
<1>5. f # Closed
  BY LoggerAssumption
<1>6. /\ fd' \in [Conns -> Fds \cup {Closed}] /\ fd'[c] = f /\ \A d \in Conns \ {c} : fd'[d] = fd[d]
      /\ perf_loggers' \in [Fds -> Conns \cup {Nobody}]
      /\ perf_loggers'[f] = c /\ \A g \in Fds \ {f} : perf_loggers'[g] = perf_loggers[g]
      /\ lock' \in Conns \cup {Nobody}
  BY <1>1 DEF IInv, TypeOK
<1>7. /\ subs' \in [Conns -> Seq(1 .. MaxSubflows)] /\ subs'[c] = s /\ \A d \in Conns \ {c} : subs'[d] = subs[d]
      /\ joined' \in [Conns -> 0 .. MaxSubflows] /\ joined'[c] = j /\ \A d \in Conns \ {c} : joined'[d] = joined[d]
  BY <1>3, <1>4 DEF IInv, TypeOK
<1>8. /\ pc' \in [Conns -> Pcs] /\ pc'[c] = "init" /\ \A d \in Conns \ {c} : pc'[d] = pc[d]
      /\ thread_run' \in [Conns -> BOOLEAN]
  BY <1>3 DEF IInv, TypeOK, Pcs
<1>9. TypeOK'
  BY <1>3, <1>6, <1>7, <1>8 DEF IInv, TypeOK
<1>10. ServerOK'
  <2>1. \A d, e \in Conns : fd'[d] # Closed /\ fd'[d] = fd'[e] => d = e
    BY <1>1, <1>6 DEF IInv, ServerOK
  <2>2. \A g \in Fds : perf_loggers'[g] # Nobody => pc'[perf_loggers'[g]] # "none"
    <3>. TAKE g \in Fds
    <3>1. CASE g = f
      BY <1>6, <1>8, <3>1
    <3>2. CASE g # f
      <4>1. perf_loggers'[g] = perf_loggers[g] /\ perf_loggers[g] \in Conns \cup {Nobody}
        BY <1>6, <3>2 DEF IInv, TypeOK
      <4>. QED  BY <1>8, <4>1 DEF IInv, ServerOK
    <3>. QED  BY <3>1, <3>2
  <2>. QED  BY <1>3, <2>1, <2>2 DEF ServerOK
<1>11. LoggerOK(c)'
  <2>1. LoggerOK(c) /\ loc[c] = NoLocals
    BY <1>3 DEF IInv, LoggerOK, HeadOK
  <2>2. ASSUME NEW i \in Ids  PROVE subflows[c][i] = <<>> /\ rows[c][i] = NoRow
    <3>1. Len(subflows[c][i]) <= 1 /\ Len(subflows[c][i]) # 1 /\ (rows[c][i] # NoRow => Len(subflows[c][i]) = 1)
      BY <1>3, <2>1, NoLocalsForm DEF LoggerOK, CacheOK
    <3>2. subflows[c][i] \in Seq(Subflows)
      BY DEF IInv, TypeOK
    <3>3. subflows[c][i] = <<>>
      BY <3>1, <3>2, NoItem
    <3>. QED  BY <3>1, <3>3
  <2>3. loc'[c] = NoLocals /\ subflows'[c] = subflows[c] /\ rows'[c] = rows[c] /\ mistaken' = mistaken
    BY <1>3, <2>1
  <2>4. KernelOK(c)' /\ HeadOK(c)'
    BY <1>4, <1>7, <1>8, <2>3 DEF KernelOK, HeadOK, Asking, Inserting
  <2>5. CacheOK(c)'
    BY <1>3, <1>8, <2>1, <2>3 DEF LoggerOK, CacheOK
  <2>6. OwnOK(c)'
    BY <1>5, <1>6, <1>8, <2>2, <2>3, NoLocalsForm DEF OwnOK
  <2>7. ExactOK(c)'
    BY <1>4, <1>7, <1>8, <2>2, <2>3, NoLocalsForm DEF ExactOK
  <2>. QED  BY <2>4, <2>5, <2>6, <2>7 DEF LoggerOK
<1>12. ASSUME NEW d \in Conns \ {c}  PROVE LoggerOK(d)'
  BY <1>3, <1>6, <1>7, <1>8, KeepLogger DEF IInv
<1>. QED  BY <1>9, <1>10, <1>11, <1>12 DEF IInv

\* A client that is closed through another's logger is counted as mistaken.
LEMMA CleanupInv ==
  ASSUME IInv, NEW c \in Conns, NEW l \in Conns, Cleanup(c, l)
  PROVE  IInv'
<1>1. /\ main' = "join" /\ closing' = [conn |-> c, log |-> l]
      /\ thread_run' = [thread_run EXCEPT ![l] = FALSE]
      /\ mistaken' = (IF l = c THEN mistaken ELSE mistaken \cup {c})
      /\ UNCHANGED <<perf_loggers, fd, joined, subs, pc, loc, subflows, rows, lock>>
  BY DEF Cleanup, kernel, db
<1>2. TypeOK'
  <2>1. closing' \in [conn : Conns \cup {Nobody}, log : Conns \cup {Nobody}]
    BY <1>1
  <2>2. thread_run' \in [Conns -> BOOLEAN] /\ mistaken' \subseteq Conns
    BY <1>1 DEF IInv, TypeOK
  <2>. QED  BY <1>1, <2>1, <2>2 DEF IInv, TypeOK
<1>3. ServerOK'
  BY <1>1 DEF IInv, ServerOK
<1>4. ASSUME NEW d \in Conns  PROVE LoggerOK(d)'
  BY <1>1, KeepLogger DEF IInv
<1>. QED  BY <1>2, <1>3, <1>4 DEF IInv

\* The socket of a client is closed when its logger has ended, or was mistaken
\* for another's.
LEMMA CloseLogger ==
  ASSUME NEW c, LoggerOK(c), pc'[c] = pc[c], loc'[c] = loc[c], subflows'[c] = subflows[c],
         rows'[c] = rows[c], fd'[c] = Closed, subs'[c] = subs[c], joined'[c] = joined[c],
         mistaken' = mistaken, c \notin mistaken => pc[c] \in {"none", "ended"}
  PROVE  LoggerOK(c)'
<1>1. KernelOK(c)' /\ HeadOK(c)'
  BY DEF LoggerOK, KernelOK, HeadOK
<1>2. CacheOK(c)'
  BY DEF LoggerOK, CacheOK
<1>3. OwnOK(c)'
  <2>. SUFFICES ASSUME c \notin mistaken
                PROVE  /\ loc[c].sockfd = Closed /\ Len(loc[c].tcp_info) = 0
                       /\ \A i \in Ids : rows[c][i] = NoRow \/ OwnRow(c, i, rows[c][i])
    BY DEF OwnOK, OwnRow
  <2>1. loc[c] = NoLocals
    BY DEF LoggerOK, HeadOK
  <2>2. Len(<<>>) = 0
    OBVIOUS
  <2>. QED  BY <2>1, <2>2, NoLocalsForm DEF LoggerOK, OwnOK
<1>4. ExactOK(c)'
  BY DEF LoggerOK, ExactOK, Whole
<1>. QED  BY <1>1, <1>2, <1>3, <1>4 DEF LoggerOK

\* The join returns and the client's socket is closed.
LEMMA JoinInv ==
  ASSUME IInv, Join
  PROVE  IInv'
<1>1. PICK x : x = closing.conn
  OBVIOUS
<1>2. /\ main = "join" /\ pc[closing.log] = "ended" /\ fd' = [fd EXCEPT ![x] = Closed]
      /\ main' = "loop" /\ closing' = [conn |-> Nobody, log |-> Nobody]
      /\ UNCHANGED <<perf_loggers, mistaken, joined, subs, pc, thread_run, loc, subflows, rows, lock>>
  BY <1>1 DEF Join, Ended, db
<1>3. x \in Conns /\ (x \notin mistaken => pc[x] = "ended")
  BY <1>1, <1>2 DEF IInv, ServerOK
<1>4. fd' \in [Conns -> Fds \cup {Closed}] /\ fd'[x] = Closed /\ \A d \in Conns \ {x} : fd'[d] = fd[d]
  BY <1>2, <1>3 DEF IInv, TypeOK
<1>5. TypeOK'
  BY <1>2, <1>4 DEF IInv, TypeOK
<1>6. ServerOK'
  BY <1>2, <1>4 DEF IInv, ServerOK
<1>7. LoggerOK(x)'
  BY <1>2, <1>3, <1>4, CloseLogger DEF IInv
<1>8. ASSUME NEW d \in Conns \ {x}  PROVE LoggerOK(d)'
  BY <1>2, <1>4, KeepLogger DEF IInv
<1>. QED  BY <1>3, <1>5, <1>6, <1>7, <1>8 DEF IInv

\* The server's loop dies.
LEMMA DieInv ==
  ASSUME IInv, Die
  PROVE  IInv'
<1>1. /\ main' = "dead"
      /\ UNCHANGED <<closing, perf_loggers, mistaken, fd, joined, subs, pc, thread_run, loc, subflows, rows, lock>>
  BY DEF Die, kernel, db
<1>2. TypeOK'
  BY <1>1 DEF IInv, TypeOK
<1>3. ServerOK'
  BY <1>1 DEF IInv, ServerOK
<1>4. ASSUME NEW d \in Conns  PROVE LoggerOK(d)'
  BY <1>1, KeepLogger DEF IInv
<1>. QED  BY <1>2, <1>3, <1>4 DEF IInv

\* The process ends when all loggers have.
LEMMA ExitInv ==
  ASSUME IInv, Exit
  PROVE  IInv'
<1>1. /\ main' = "exited" /\ \A c \in Conns : pc[c] \in {"none", "ended"} /\ fd'[c] = Closed
      /\ fd' \in [Conns -> Fds \cup {Closed}] /\ lock' = Nobody
      /\ UNCHANGED <<closing, perf_loggers, mistaken, joined, subs, pc, thread_run, loc, subflows, rows>>
  BY DEF Exit
<1>2. TypeOK'
  BY <1>1 DEF IInv, TypeOK
<1>3. ServerOK'
  BY <1>1 DEF IInv, ServerOK
<1>4. ASSUME NEW d \in Conns  PROVE LoggerOK(d)'
  BY <1>1, CloseLogger DEF IInv
<1>. QED  BY <1>2, <1>3, <1>4 DEF IInv


-----------------------------------------------------------------------------
(***************************************************************************)
(* The kernel's steps.                                                     *)
(***************************************************************************)

\* The subflows of one connection change.
LEMMA OneKernel ==
  ASSUME IInv, NEW c \in Conns, UNCHANGED <<server, fd, pc, thread_run, loc, db>>,
         subs' \in [Conns -> Seq(1 .. MaxSubflows)], joined' \in [Conns -> 0 .. MaxSubflows],
         \A d \in Conns \ {c} : subs'[d] = subs[d] /\ joined'[d] = joined[d],
         LoggerOK(c)'
  PROVE  IInv'
<1>1. UNCHANGED <<main, closing, perf_loggers, mistaken, fd, pc, thread_run, loc, subflows, rows, lock>>
  BY DEF server, db
<1>2. TypeOK'
  BY <1>1 DEF IInv, TypeOK
<1>3. ServerOK'
  BY <1>1 DEF IInv, ServerOK
<1>4. ASSUME NEW d \in Conns \ {c}  PROVE LoggerOK(d)'
  BY <1>1, KeepLogger DEF IInv
<1>. QED  BY <1>2, <1>3, <1>4 DEF IInv

\* A subflow joins.
LEMMA SubflowJoinsInv ==
  ASSUME IInv, NEW c \in Conns, SubflowJoins(c)
  PROVE  IInv'
<1>1. PICK s, j : s = subs[c] /\ j = joined[c]
  OBVIOUS
<1>2. /\ fd[c] # Closed /\ (j - 1) + (j - Len(s)) < Changes[c]
      /\ joined' = [joined EXCEPT ![c] = j + 1] /\ subs' = [subs EXCEPT ![c] = Append(s, j + 1)]
      /\ UNCHANGED <<server, fd, pc, thread_run, loc, db>>
  BY <1>1 DEF SubflowJoins, Changed
<1>3. /\ MaxSubflows \in Nat /\ Changes[c] \in 0 .. (MaxSubflows - 1) /\ LoggerOK(c)
      /\ s \in Seq(1 .. MaxSubflows) /\ j \in 0 .. MaxSubflows /\ Len(s) <= j
  BY <1>1, LoggerAssumption DEF IInv, TypeOK, LoggerOK, KernelOK
<1>4. PICK n \in Nat : n = Len(s)
  BY <1>3
<1>5. j + 1 \in 0 .. MaxSubflows /\ j + 1 \in 1 .. MaxSubflows
  BY <1>2, <1>3, <1>4
<1>6. /\ Append(s, j + 1) \in Seq(1 .. MaxSubflows) /\ Len(Append(s, j + 1)) = n + 1
      /\ \A k \in 1 .. n : Append(s, j + 1)[k] = s[k]
      /\ Append(s, j + 1)[n + 1] = j + 1
  BY <1>3, <1>4, <1>5
<1>7. /\ subs' \in [Conns -> Seq(1 .. MaxSubflows)] /\ subs'[c] = Append(s, j + 1)
      /\ joined' \in [Conns -> 0 .. MaxSubflows] /\ joined'[c] = j + 1
      /\ \A d \in Conns \ {c} : subs'[d] = subs[d] /\ joined'[d] = joined[d]
  BY <1>2, <1>5, <1>6 DEF IInv, TypeOK
<1>8. UNCHANGED <<mistaken, fd, pc, loc, subflows, rows>>
  BY <1>2 DEF server, db
<1>9. KernelOK(c)'
  <2>1. n + 1 <= j + 1
    BY <1>3, <1>4
  <2>2. pc[c] # "none"
    BY <1>2, <1>3 DEF LoggerOK, KernelOK
  <2>. QED  BY <1>6, <1>7, <1>8, <2>1, <2>2 DEF KernelOK
<1>10. HeadOK(c)' /\ CacheOK(c)'
  BY <1>3, <1>8 DEF LoggerOK, HeadOK, CacheOK
<1>11. OwnOK(c)'
  <2>1. j > Slots => j + 1 > Slots
    BY <1>3 DEF Slots
  <2>2. \A i, r : OwnRow(c, i, r) => OwnRow(c, i, r)'
    BY <1>1, <1>7, <2>1 DEF OwnRow
  <2>. QED  BY <1>3, <1>8, <2>2 DEF LoggerOK, OwnOK, OwnRow
<1>12. ExactOK(c)'
  <2>. SUFFICES ASSUME Whole(c)'  PROVE ExactOK(c)'
    BY DEF ExactOK
  <2>1. Whole(c) /\ n = j
    BY <1>1, <1>3, <1>4, <1>6, <1>7, <1>8 DEF Whole
  <2>2. ExactOK(c)
    BY <1>3 DEF LoggerOK
  <2>3. \A k \in 1 .. n : s[k] = k
    BY <1>1, <1>4, <2>1, <2>2 DEF ExactOK
  <2>4. \A k \in 1 .. (n + 1) : Append(s, j + 1)[k] = k
    BY <1>6, <2>1, <2>3
  <2>5. \A k \in 1 .. Len(subs'[c]) : subs'[c][k] = k
    BY <1>6, <1>7, <2>4
  <2>. QED  BY <1>8, <2>1, <2>2, <2>5 DEF ExactOK
<1>13. LoggerOK(c)'
  BY <1>9, <1>10, <1>11, <1>12 DEF LoggerOK
<1>. QED  BY <1>2, <1>7, <1>13, OneKernel

\* What is left of a sequence.
LEMMA RemoveForm ==
  ASSUME NEW S, NEW s \in Seq(S), NEW i \in 1 .. Len(s)
  PROVE  RemoveAt(s, i) \in Seq(S) /\ Len(RemoveAt(s, i)) = Len(s) - 1
<1>1. Len(s) \in Nat /\ \A k \in 1 .. Len(s) : s[k] \in S
  BY SeqItem
<1>2. PICK a, b : a = SubSeq(s, 1, i - 1) /\ b = SubSeq(s, i + 1, Len(s))
  OBVIOUS
<1>3. a \in Seq(S) /\ Len(a) = i - 1
  BY <1>1, <1>2
<1>4. b \in Seq(S) /\ Len(b) = Len(s) - i
  BY <1>1, <1>2
<1>5. a \o b \in Seq(S) /\ Len(a \o b) = Len(a) + Len(b)
  BY <1>3, <1>4, ConcatProperties
<1>6. Len(a) + Len(b) = Len(s) - 1
  BY <1>1, <1>3, <1>4
<1>7. RemoveAt(s, i) = a \o b
  BY <1>2 DEF RemoveAt
<1>. QED  BY <1>5, <1>6, <1>7

\* A subflow leaves: the numbers say nothing from now on.
LEMMA SubflowLeavesInv ==
  ASSUME IInv, NEW c \in Conns, SubflowLeaves(c)
  PROVE  IInv'
<1>1. PICK i \in 1 .. Len(subs[c]) : subs' = [subs EXCEPT ![c] = RemoveAt(@, i)]
  BY DEF SubflowLeaves
<1>2. PICK s, t : s = subs[c] /\ t = RemoveAt(subs[c], i)
  OBVIOUS
<1>3. /\ fd[c] # Closed /\ joined' = joined /\ subs' = [subs EXCEPT ![c] = t]
      /\ UNCHANGED <<server, fd, pc, thread_run, loc, db>>
  BY <1>1, <1>2 DEF SubflowLeaves
<1>4. /\ LoggerOK(c) /\ s \in Seq(1 .. MaxSubflows) /\ Len(s) \in Nat
      /\ joined[c] \in Nat /\ Len(s) <= joined[c]
  BY <1>2, LoggerAssumption DEF IInv, TypeOK, LoggerOK, KernelOK
<1>5. t \in Seq(1 .. MaxSubflows) /\ Len(t) = Len(s) - 1
  BY <1>1, <1>2, <1>4, RemoveForm
<1>6. /\ subs' \in [Conns -> Seq(1 .. MaxSubflows)] /\ subs'[c] = t /\ joined' \in [Conns -> 0 .. MaxSubflows]
      /\ \A d \in Conns \ {c} : subs'[d] = subs[d] /\ joined'[d] = joined[d]
  BY <1>3, <1>5 DEF IInv, TypeOK
<1>7. UNCHANGED <<mistaken, fd, pc, loc, subflows, rows>>
  BY <1>3 DEF server, db
<1>8. Len(t) <= joined[c] /\ Len(t) # joined[c] /\ joined[c] >= joined[c]
  BY <1>4, <1>5
<1>9. KernelOK(c)'
  BY <1>3, <1>4, <1>6, <1>7, <1>8 DEF LoggerOK, KernelOK
<1>10. HeadOK(c)' /\ CacheOK(c)'
  BY <1>4, <1>7 DEF LoggerOK, HeadOK, CacheOK
<1>11. OwnOK(c)'
  BY <1>3, <1>4, <1>7 DEF LoggerOK, OwnOK, OwnRow
<1>12. ExactOK(c)'
  BY <1>3, <1>6, <1>8 DEF ExactOK, Whole
<1>13. LoggerOK(c)'
  BY <1>9, <1>10, <1>11, <1>12 DEF LoggerOK
<1>. QED  BY <1>3, <1>6, <1>8, <1>13, OneKernel

-----------------------------------------------------------------------------
(***************************************************************************)
(* The theorems.                                                           *)
(***************************************************************************)

\* Every step preserves the invariant.
LEMMA InvStep == IInv /\ [Next]_vars => IInv'
<1>. SUFFICES ASSUME IInv, [Next]_vars  PROVE IInv'
  OBVIOUS
<1>1. CASE Next
  BY <1>1, LoggerStepInv, StartInv, SubflowJoinsInv, SubflowLeavesInv, CleanupInv, JoinInv, DieInv, ExitInv
     DEF Next
<1>2. CASE UNCHANGED vars
  <2>1. UNCHANGED <<main, closing, perf_loggers, mistaken, fd, joined, subs, pc, thread_run, loc, subflows, rows,
                    lock>>
    BY <1>2 DEF vars, server, kernel, db
  <2>2. TypeOK'
    BY <2>1 DEF IInv, TypeOK
  <2>3. ServerOK'
    BY <2>1 DEF IInv, ServerOK
  <2>4. ASSUME NEW c \in Conns  PROVE LoggerOK(c)'
    BY <2>1, KeepLogger DEF IInv
  <2>. QED  BY <2>2, <2>3, <2>4 DEF IInv
<1>. QED  BY <1>1, <1>2

\* The invariant holds in every reachable state.
THEOREM Invariance == Spec => []IInv
BY InvInit, InvStep, PTL DEF Spec

\* Every variable of the server, the kernel, the loggers and the database keeps
\* its type: no more than MaxSubflows subflows ever join, and the numbers given
\* to subflows stay below it.
THEOREM TypeCorrect == Spec => []TypeOK
<1>1. IInv => TypeOK
  BY DEF IInv
<1>. QED  BY <1>1, Invariance, PTL

\* Every row of tcp_conn_info has its one row in subflows.
THEOREM OneSubflowRow == Spec => []SubflowOnce
<1>1. IInv => SubflowOnce
  BY DEF IInv, LoggerOK, CacheOK, SubflowOnce
<1>. QED  BY <1>1, Invariance, PTL

\* The rows of a logger measure its own client's connection.
THEOREM OwnRows == Spec => []RowsOwn
<1>1. IInv => RowsOwn
  BY DEF IInv, LoggerOK, OwnOK, OwnRow, RowsOwn
<1>. QED  BY <1>1, Invariance, PTL

\* The addresses under an id are those of the subflow its rows measure, while
\* none has left.
THEOREM OwnAddresses == Spec => []AddressesMatch
<1>1. IInv => AddressesMatch
  <2>. SUFFICES ASSUME IInv, NEW c \in Conns \ mistaken, Len(subs[c]) = joined[c],
                       NEW i \in Ids, rows[c][i] # NoRow, i < Slots
                PROVE  subflows[c][i] = <<rows[c][i]>>
    BY DEF AddressesMatch
  <2>1. rows[c][i] = <<c, i + 1>> /\ subflows[c][i] \in {<<>>, <<<<c, i + 1>>>>}
    BY DEF IInv, LoggerOK, ExactOK, Whole
  <2>2. Len(subflows[c][i]) = 1
    BY DEF IInv, LoggerOK, CacheOK
  <2>3. Len(<<>>) = 0 /\ 0 # 1
    OBVIOUS
  <2>4. subflows[c][i] # <<>>
    BY <2>2, <2>3, Zenon
  <2>. QED  BY <2>1, <2>4, Zenon
<1>. QED  BY <1>1, Invariance, PTL


-----------------------------------------------------------------------------
(***************************************************************************)
(* The contract with the server.                                           *)
(***************************************************************************)

\* A step of a logger moves its thread, or crashes the process.
LEMMA LoggerThread ==
  ASSUME IInv, NEW c \in Conns, LoggerStep(c)
  PROVE  /\ main # "crashed" /\ UNCHANGED thread_run
         /\ \/ main' = "crashed" /\ UNCHANGED pc
            \/ /\ UNCHANGED main /\ pc[c] \notin {"none", "ended"}
               /\ \E p \in Pcs \ {"none"} : pc' = [pc EXCEPT ![c] = p]
<1>1. CASE InitDb(c) \/ While(c) \/ TcpInfo(c) \/ Execute(c) \/ CommitSubflow(c) \/ CommitRow(c) \/ CommitFails(c)
  BY <1>1 DEF InitDb, While, TcpInfo, Execute, CommitSubflow, CommitRow, CommitFails, Iterate, Raise, Goto, At,
              Pcs, server
<1>2. CASE SubflowInfo(c)
  BY <1>2 DEF SubflowInfo, Raise, Goto, At, Pcs
<1>. QED  BY <1>1, <1>2 DEF LoggerStep

\* One thread moves.
LEMMA ThreadMoves ==
  ASSUME TypeOK, NEW c \in Conns, NEW p, pc' = [pc EXCEPT ![c] = p], UNCHANGED main, main # "crashed"
  PROVE  /\ [d \in Conns |-> Thread(d)]' = [[d \in Conns |-> Thread(d)] EXCEPT ![c] = Thread(c)']
         /\ Thread(c)' = IF p = "none" THEN "none" ELSE IF p = "ended" THEN "ended" ELSE "running"
<1>1. pc'[c] = p /\ \A d \in Conns \ {c} : pc'[d] = pc[d]
  BY DEF TypeOK
<1>2. \A d \in Conns \ {c} : Thread(d)' = Thread(d)
  BY <1>1 DEF Thread
<1>3. Thread(c)' = IF p = "none" THEN "none" ELSE IF p = "ended" THEN "ended" ELSE "running"
  BY <1>1 DEF Thread
<1>. QED  BY <1>2, <1>3

\* Neither the loggers nor the kernel do to a logger's thread what the contract
\* does not allow: it is started once, stopped only when it was started, and ends
\* by itself, by an exception, or with the process.  (That it ends once it was
\* told to stop is the rest of LoggerContract, and TLC's.)
THEOREM LifeKept == Spec => Life!Spec
<1>. DEFINE thread == [c \in Conns |-> Thread(c)]
<1>1. Init => Life!Init
  <2>. SUFFICES ASSUME Init  PROVE Life!Init
    OBVIOUS
  <2>1. \A c \in Conns : Thread(c) = "none"
    BY DEF Init, Thread
  <2>. QED  BY <2>1 DEF Init, Life!Init
<1>2. IInv /\ [Next]_vars => [Life!Next]_(Life!vars)
  <2>. SUFFICES ASSUME IInv, [Next]_vars  PROVE Life!Next \/ UNCHANGED <<thread, thread_run>>
    BY DEF Life!vars
  <2>1. ASSUME UNCHANGED <<main, pc, thread_run>>  PROVE UNCHANGED <<thread, thread_run>>
    BY <2>1 DEF Thread
  <2>2. ASSUME NEW c \in Conns, LoggerStep(c)  PROVE Life!Next \/ UNCHANGED <<thread, thread_run>>
    <3>1. CASE main' = "crashed" /\ UNCHANGED pc
      <4>1. main # "crashed" /\ UNCHANGED thread_run
        BY <2>2, LoggerThread
      <4>2. \A d \in Conns : Thread(d)' = IF Thread(d) = "running" THEN "ended" ELSE Thread(d)
        BY <3>1, <4>1 DEF Thread
      <4>3. thread' = [d \in Conns |-> IF thread[d] = "running" THEN "ended" ELSE thread[d]]
        BY <4>2
      <4>. QED  BY <4>1, <4>3 DEF Life!Next, Life!Crash
    <3>2. CASE ~ (main' = "crashed" /\ UNCHANGED pc)
      <4>1. main # "crashed" /\ UNCHANGED <<thread_run, main>> /\ pc[c] \notin {"none", "ended"}
        BY <2>2, <3>2, LoggerThread
      <4>2. PICK p \in Pcs \ {"none"} : pc' = [pc EXCEPT ![c] = p]
        BY <2>2, <3>2, LoggerThread
      <4>3. thread[c] = "running"
        BY <4>1 DEF Thread
      <4>4. thread' = [thread EXCEPT ![c] = Thread(c)'] /\ Thread(c)' = IF p = "ended" THEN "ended" ELSE "running"
        BY <4>1, <4>2, ThreadMoves DEF IInv
      <4>5. CASE p = "ended"
        BY <4>1, <4>3, <4>4, <4>5 DEF Life!Next, Life!Ends
      <4>6. CASE p # "ended"
        BY <4>1, <4>3, <4>4, <4>6
      <4>. QED  BY <4>5, <4>6
    <3>. QED  BY <3>1, <3>2
  <2>3. ASSUME NEW c \in Conns, Start(c)  PROVE Life!Next
    <3>1. /\ main = "loop" /\ UNCHANGED main /\ pc[c] = "none" /\ pc' = [pc EXCEPT ![c] = "init"]
          /\ thread_run' = [thread_run EXCEPT ![c] = TRUE]
      BY <2>3 DEF Start, Goto
    <3>2. thread[c] = "none"
      BY <3>1 DEF Thread
    <3>3. thread' = [thread EXCEPT ![c] = Thread(c)'] /\ Thread(c)' = "running"
      <4>1. PICK p : p = "init" /\ pc' = [pc EXCEPT ![c] = p]
        BY <3>1
      <4>2. main # "crashed" /\ UNCHANGED main /\ TypeOK /\ p \notin {"none", "ended"}
        BY <3>1, <4>1 DEF IInv
      <4>. QED  BY <4>1, <4>2, ThreadMoves
    <3>. QED  BY <3>1, <3>2, <3>3 DEF Life!Next, Life!Start
  <2>4. ASSUME NEW c \in Conns, NEW l \in Conns, Cleanup(c, l)  PROVE Life!Next
    <3>1. /\ main = "loop" /\ main' = "join" /\ UNCHANGED pc
          /\ thread_run' = [thread_run EXCEPT ![l] = FALSE]
      BY <2>4 DEF Cleanup
    <3>2. pc[l] # "none"
      <4>1. CASE l = c
        BY <2>4, <4>1 DEF Cleanup, IInv, LoggerOK, KernelOK
      <4>2. CASE \E f \in Fds : perf_loggers[f] = l
        <5>1. l # Nobody
          BY ConnForm
        <5>. QED  BY <4>2, <5>1 DEF IInv, ServerOK
      <4>. QED  BY <2>4, <4>1, <4>2 DEF Cleanup
    <3>3. thread[l] # "none"
      BY <3>2 DEF Thread
    <3>4. \A d \in Conns : Thread(d)' = Thread(d)
      BY <3>1 DEF Thread
    <3>. QED  BY <3>1, <3>3, <3>4 DEF Life!Next, Life!Stop
  <2>5. CASE Join \/ Die \/ Exit
    <3>1. main # "crashed" /\ main' # "crashed" /\ UNCHANGED <<pc, thread_run>>
      BY <2>5 DEF Join, Die, Exit
    <3>2. \A d \in Conns : Thread(d)' = Thread(d)
      BY <3>1 DEF Thread
    <3>. QED  BY <3>1, <3>2
  <2>6. CASE (\E c \in Conns : SubflowJoins(c) \/ SubflowLeaves(c)) \/ UNCHANGED vars
    <3>1. UNCHANGED <<main, pc, thread_run>>
      BY <2>6 DEF SubflowJoins, SubflowLeaves, vars, server
    <3>. QED  BY <2>1, <3>1
  <2>. QED  BY <2>2, <2>3, <2>4, <2>5, <2>6 DEF Next
<1>. QED  BY <1>1, <1>2, Invariance, PTL DEF Spec, Life!Spec
=============================================================================

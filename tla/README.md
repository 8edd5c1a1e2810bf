# A verification project for the 5G Transport Converter

The repository redirects an application's MPTCP connections through a Transport
Converter. A library that is preloaded into the application (`src/lib_convert`)
intercepts its socket calls, connects to the Converter instead of the
destination, and tells it in a Convert message where the connection should go. The
Converter (`src/5GTC`) connects to the destination over TCP, answers, forwards the
two byte streams, and logs the performance of the MPTCP subflows.

This directory holds TLA+ models of the parts in which the order of events, a
failure half way or the edge of a number decides whether the system is right, the
TLC configurations that check them, and TLAPS proofs about the library.

The repository has no documentation of its own besides comments and docstrings;
these are what the models are compared with where code and words disagree.

## Inventory

| Part | State | Operations | What makes it hard |
|---|---|---|---|
| lib_convert, intercepted calls (`convert_client.c` 63-476) | hash table of `socket_state_t`, one mutex; the pointer each running call holds | `socket`, `connect`, `recv`, `send`, `close` | threads; a pointer that outlives its critical section; descriptor numbers that come back; five exits that each must free the state once; blocking and failing system calls |
| lib_convert, start-up and end (478-695) | Converter address, port, cookie | constructor, destructor | other libraries' constructors and threads make intercepted calls before it, during it and after it; its own `close` is intercepted |
| lists (`bsd_queue.h`, `LIST_*`) | `lh_first`, `le_next`, `le_prev` | insert at the head, remove, traverse | pointers to pointers, under one mutex |
| Convert messages in C (`convert_util.c/.h`, `convert.h`) | buffer, cursor, remaining length | `convert_write`, `convert_parse_header`, `convert_parse_tlvs`, `convert_free_opts` | one-byte lengths, unsigned subtraction, padding; blocks that three exits have to free |
| Convert messages in Python (`pkg/convert.py`) | list of TLVs, offset | `read_convert_header`, `ipv6_to_ipv4` | a second reader of the same format, with other checks |
| Converter server (`main.py`) | `inputs`, `forward_map`, `perf_loggers`, local variables across blocking calls | accept, header, connect, answer, register, forward, clean up | one thread that blocks; a list of readable sockets that ages; tables indexed by numbers that come back; exceptions at every call |
| Performance logger (`logger.py`) | `_thread_run`, thread, subflow cache, local variables across `getsockopt` calls | `run`, `stop`, `_run_logger` | joined from the select loop; may die by itself; descriptor numbers and subflow ids that change meaning between two calls |
| `mptcp_util` | two slots on the stack | `get_subflow_info`, `get_subflow_tcp_info` | more subflows than slots; ids that are positions |
| Measurement database (`db.py`) | two tables, SQLite's write lock | `create_tables`, two inserts | loggers that wait for each other's transactions, and die in them |
| Evaluation programs (`evaluation/mptcp_client.c`, `mptcp_server.py`) | counters and `LOOP` of a client; local variables and threads of the server | header, read, write, SIGINT; accept, a thread per client | both ends block in writes; short reads; resets; a signal that restarts calls; 32-bit counters |
| Web UI, plots, scripts, `deprecated/` | - | - | input and output, third-party, or unused |

How they interact: the application's calls enter the library; the library and the
server exchange one Convert message each way and then opaque bytes; the server
starts one logger thread per pair, and stops and joins it when the pair ends; the
kernel connects all of them through descriptors, whose numbers it reuses.

What makes each part correct:

* the library: the program runs only after a start-up that found the Converter;
  memory safety of the states; the lists stay linked; the table follows the kernel's
  descriptors; every state is freed exactly once; the Converter sees the header
  first and no data before its answer; the application sees no Convert bytes;
* the messages: what is written is what is read, by both readers, and reading ends;
* the server: each stream arrives intact at its own far end; the tables agree with
  each other and with the open sockets; nothing leaks; it goes on serving; it does
  not end for reasons it should survive;
* the loggers: a row measures the connection it is filed under; what the Web UI
  looks up is there once; a logger ends when it is told to, and lets go of the database;
* the evaluation programs: client and server do not block each other for good, count
  what they move, and end when told to, and the server outlives its clients.

`PROJECT.json` lists the hazards line by line with the properties that cover them.

## Modules

| Module | Models | Checked by |
|---|---|---|
| `ConvertClient` | the intercepted calls | `MCConvertClient`, `client_*.cfg` |
| `ConvertClientProofs`, `ConvertNetworkProofs` | theorems about `ConvertClient`: its memory and table; what passes on its connections, and its contracts | TLAPS |
| `ConvertProcess` | start-up, end, and the table as linked lists | `MCConvertProcess`, `library_process.cfg` |
| `ConvertProcessProofs` | theorems about `ConvertProcess` | TLAPS |
| `ConvertCodec` | the messages, one writer and two readers | `MCConvertCodec`, `codec_messages.cfg` |
| `ConvertCodecProofs` | theorems about `ConvertCodec` | TLAPS |
| `TCServer` | the Converter's loop, with the life of its logger threads | `MCTCServer`, `server_*.cfg` |
| `TCServerProofs` | theorems about `TCServer` | TLAPS |
| `PerformanceLogger` | the loggers, the extension they call, the database, and the end of the server | `MCPerformanceLogger`, `logger_rows.cfg` |
| `PerformanceLoggerProofs` | theorems about `PerformanceLogger` | TLAPS |
| `Evaluation` | the evaluation client and server, the workload that is measured through the Converter | `MCEvaluation`, `evaluation_transfer.cfg` |
| `EvaluationProofs` | theorems about `Evaluation` | TLAPS |
| `StateTable` | abstract: a table of states, each operation at one instant | implemented by `ConvertProcess` and `ConvertClient` |
| `Conversation` | abstract: what client and Converter promise each other on a connection | implemented by `ConvertClient` and `TCServer` |
| `LoggerLife` | abstract: what server and loggers promise each other | implemented by `TCServer` and `PerformanceLogger` |

Definitions whose comment begins with *Mutant* are altered copies of the
definition that follows. No specification uses them. `PROJECT.json` says which
property fails when the one is put in the other's place; they document that the
property depends on that part of the code.

### Composition by contract

Components that interact are not multiplied into one state space. Each pair has an
abstract specification of what passes between them, and each of the two is shown to
implement it (`INSTANCE ... WITH` a refinement mapping, the abstract specification as a
property of the detailed one), with the other as its environment:

* `StateTable`. The calls rely on `_alloc`, `_lookup` and `_free_state` taking effect at
  once. `ConvertProcess` maps its pointers to the table (a state is in it from the
  store into `lh_first` to the store through `le_prev`) and shows that lists and mutex
  keep that promise; `ConvertClient`, whose buckets are sets, implements the same table
  with one step per critical section. That the sets lose no behaviour of the lists is
  not checked mechanically: both let any thread insert, find or remove at any time.
* `Conversation`. One header, one answer, no data before it, nothing of the
  destination's before the acceptance. In `ConvertClient` the library must keep the
  client's part while the Converter of the model does anything the protocol allows; in
  `TCServer` it is the other way round. A client that found the connection ended has
  heard its answer, too. The mapping of `ConvertClient` is checked for blocking
  sockets; with `AsyncConnect` the state is dropped while the connect goes on
  (`client_cleared_connected`), and what the application sends then is not the library's.
* `LoggerLife`. The server starts a logger once and joins it after telling it to stop; a
  logger that was told to stop ends. `TCServer` implements the safety part
  (`LoggerContract` there), and its fairness condition on `LoggerEnds`, without which
  `ClientsServed` fails, is what `LoggerContract` of `PerformanceLogger` establishes.

### ConvertClient

A thread's step is what runs between two points at which something else can
interfere: one critical section, one system call, one `free`. `call[t]` is the
frame of the call thread `t` is in: its point (`pc`), the descriptor it was given, the
pointer `_lookup` returned (`st`) and what follows `_free_state` (`then`).

| Code | Model |
|---|---|
| `_socket_htable`, `LIST_INSERT_HEAD`, `LIST_REMOVE` | `htable[b]`, the set of the cells linked in a bucket; `Alloc`, `Unlink` |
| `malloc`, `free` | `obj[cell]`, the `fd` field or `Nil`; `Alloc` may fail, `Free` |
| `_lookup` at the head of connect, recv, send, close | `Enter`, used by `Connect`, `Recv`, `Send`, `Close` |
| `_redirect`: build the message and connect; send | `Redirect`; `SendHdr` |
| `_read_convert`: header; TLVs; error label; success | `RdHdr`; `RdTlv`; `RdErr`; `FreeThen(t, "run")` |
| `SYSCALL_SKIP`, `SYSCALL_RUN` | `Skipped`, `AfterRun` |
| the real calls | `LConnect`, `LRecv`, `LSend`, `LClose` |
| use of a freed or unlinked state | `UseFreed`: sets `memerr`, after which nothing is said |

The kernel is external: `net[fd]` holds who the socket is connected to, what was
written to it, and a receive queue of chunks, each a Convert header, a group of TLVs or
application data. Each system call may also fail. `Overlaps` says whether the
application may have two calls on one descriptor in progress; `overlap` records
that it had. `AsyncConnect` stands for non-blocking sockets and interrupted
connects, `RawIO` for an application that uses `read()`, which the library does not
intercept. Calls on a descriptor that is not open do not change anything and are
left out. `_read_convert` is called with `peek` false everywhere, and is modelled
so.

### ConvertProcess

`phase` follows the loader: the constructors of other libraries (`libs`), the three
checks of `init` (`sysctl`, `kernel`, `params`), the program (`main`), `exit` and `fini`. Threads
may make intercepted calls in all of them, except that the thread that runs `init`
makes only the one in it: `close` of the sysctl file.

| Code | Model |
|---|---|
| `_read_sysctl_fastopen`, up to `close`; the rest, `_validate_sysctl_fastopen` | `OpenSysctl`; `ValidateSysctl` |
| `_validate_kernel_version`, `_validate_parameters` | `ValidateKernel`, `ValidateParameters` |
| `init`'s `exit(1)`, `fini` | `Fail`, `Fini` |
| `malloc` in `_alloc`; the two halves of `LIST_INSERT_HEAD` | `Malloc`; `Insert`, `Link` |
| `_lookup`: lock; one round of `LIST_FOREACH` | `Lock`; `Walk` |
| the two halves of `LIST_REMOVE`; `free` | `Unlink`, `Detach` with `Store`; `Free` |
| `_converter_addr->ai_addr` in `_redirect` | `Redirect`: `fault` when the address is NULL or freed |

Of a check of `init` only matters whether it succeeds: no property tells one sysctl,
kernel or port from another. What a call does on the network is `ConvertClient`'s subject; here `Redirect` and `Read`
only decide whether the state is kept. `le_prev` holds the address of a pointer, as in
the code: of a head or of a `le_next`. The application has one call at a time on a
descriptor: `ConvertClient` shows what overlapping calls do. An uninitialised `le_next`
of a fresh state is `Nil` until `Insert` writes it; nothing reads it before.

### ConvertCodec

A TLV is its type, its length field, the words it really takes and what it says. The
buffer has the 1024 bytes of the code and both length fields the width of a
byte. `heap` counts the blocks `convert_parse_tlvs` has allocated and nobody has freed.
A step is one turn of a loop: over the writer's table, over the TLVs in
`convert_parse_tlvs`, in `read_convert_header` and in `handle_connection`. Besides the
messages `convert_write` writes, both readers are given short messages from elsewhere
(`Foreign`), whose TLVs may be cut short or have a length of 0. The library's recv
waits for all it asks for (`MSG_WAITALL`); the Converter's two recv calls do not
(`PyHeader`). A short first one gets the client refused (`pyshort`). The second returns
`data`, any number of the message's TLVs from the first on, and `torn` says that the last
of them came in part: scapy then raises, or leaves the fields unset it has no bytes for.
`DestinationKept` covers every such cut. What wraps in
a `size_t` is modelled by its consequence: `malloc` refuses such a size, and a
buffer of such a size is undefined behaviour.

### TCServer

One thread, whose `pc` names the blocking call or the place in the loop it is at.
A step ends where the server may block, or where what happens on the network
makes a difference. `todo` is the rest of `readable`; `cur` holds the local
variables. An exception nobody catches leads to `pc = "dead"`; what follows
(`cleanup`, threads that keep the process) is in `PerformanceLogger`.

| Code | Model |
|---|---|
| `select`, the for loop | `Select`, `EndLoop` |
| `accept` | `Accept`, with the closing of the previous client when `client_sock` is rebound |
| `read_convert_header`, first and second recv | `ReadHeader`, `ReadTlvs` |
| `handle_tlv_connect`: connect; answer; tables and logger | `ConnectServer`; `SendReply`; `Register` |
| `handle_connection` returns false | `Refuse` |
| `read_and_forward`: recv; send | `ReadAndForward`; `SendData` |
| `cleanup_socket_pair`: tables and `_thread_run`; join and close | `Cleanup`; `Join` |
| `_run_logger` ends, raises | `LoggerEnds`, `LoggerFails` |

Assumptions: a header names at most one destination; a client sends no data before
the answer, which `ClientContract` of `ConvertClient` establishes for clients of the
library; the kernel may hand out any free number, because the logger's database
files move the lowest free one; the Web UI is another process; `send` on a blocking
socket takes all it is given. A reset is seen by any later call on the socket.

### PerformanceLogger

One thread per client (`pc[c]`, `loc[c]`) and what the server's thread does to loggers
(`main`). A subflow is named by its connection and its place among those that joined;
`subs[c]` is the kernel's list. The extension makes ids up from positions and has two
slots: what it reads behind them is `Garbage`, and `get_subflow_info` may meet an
unknown address family there, which leaves a NULL item and ends the process.

| Code | Model |
|---|---|
| `init_db`, `create_tables` | `InitDb` |
| `while self._thread_run`, `fileno()` | `While` |
| `get_subflow_tcp_info`; the for loop | `TcpInfo`; `Iterate` |
| `get_subflow_info`, the filter and its `[0]` | `SubflowInfo`, `Filter`, `FirstLeft` |
| `cursor.execute` of either insert | `Execute`: takes the write lock, or raises |
| the two commits; the cache | `CommitSubflow`, `Remember`; `CommitRow`; `CommitFails` |
| `run`; `cleanup_socket_pair` with `stop`; the join | `Start`; `Cleanup`; `Join` |
| the loop's last exception; `cleanup` and the end | `Die`; `Exit` |

`mistaken` is a history variable: the clients that were closed through another
client's logger, which stale entries of `perf_loggers` make possible
(`LoggerStopped` of `TCServer` says when). Such a client's logger runs on with a number
that may be another's, and is left out of `RowsOwn` and `AddressesMatch`. The Web UI
reads the database in its own process: it can make a commit fail. SQLite releases the
lock of an open transaction when its connection is collected, which happens when
`perf_loggers` forgets the logger. Only the last row of each id is kept.

### Evaluation

The programs that generate the measured traffic. Each client of `Clients` that
`Setups` gives a command line is a process; the server is the accept loop (`spc`) and
one thread per client (`hpc`). Payload is counted, except for the one byte that the
client treats differently, the magic number, which can only be the first on its way
(`magic`): `generate_random_data_buffer` filters it out of the rest.

| Code | Model |
|---|---|
| `main`: connect; the three writes; `while (LOOP)` | `Connect`; `WriteHeader`; `While` |
| `main`: read; what is done with it | `Read`; `Got`, `Complete` |
| `main`: write; after it | `StartWrite`, `Write`; `Wrote`, `Complete` |
| `sigint_handler` | `Interrupt`; `InterruptWrite` when it cuts a write short |
| `run`, `read_client_header` | `Accept`, `ReadMagic`, `ReadType`, `ReadSize` |
| `handle_client` | `Start`, `Generate`, `SendAll`, `Recv` |

The six bytes of the header are counted in `header`; `ReadSize` may receive fewer than
the four bytes of the size, and then works with `size % Weight[k]`, the size modulo `Base` to the power k. `Base` (256 in the
code), `IntHalf` (2^31) and `Cap`, the room in one direction, are scaled down. The
kernel resets a connection that is closed with unread data, and one on which
something arrives after the close; no other reset is modelled. A Python socket
is closed with its last reference (`SockClosed`): `run` holds one in `client` until the
next client is accepted and one in `conn` until its header is read. `LogPerf` stands for
`--perf` by the reference the logger keeps. Buffer sizes are positive, and none of the
bytes of a size is the magic number.

## Runs

| Run | Instance | Shows |
|---|---|---|
| `client_races` | 2 threads, 1 descriptor, overlapping calls, every answer, asynchronous connects, `read()` | memory errors need overlapping calls |
| `client_table` | 2 threads, 2 descriptors in one bucket, no overlap, blocking sockets | table, kernel and heap agree through every path and reuse; order and visibility of the Convert bytes; `Conversation` and `StateTable` |
| `library_process` | 2 threads, 2 descriptors in one bucket, calls in every phase, every check of `init` passing or failing | lists implement `StateTable`; the address is valid while the program runs; start-up ends |
| `codec_messages` | 64 sets of TLVs, lengths around 1024 bytes, messages from elsewhere | lengths, framing, round trip, heap, the destination however short the Converter's reads, termination |
| `server_pairs` | 2 connections, 4 descriptors, resets by the second client | forwarding, tables, loggers, causes of death; `LoggerLife` |
| `server_service` | 2 prompt clients, 2 descriptors, all headers, resets by a destination | every client is answered or turned away, or named no destination and waits for the next client; no descriptor leaks; `Conversation` |
| `logger_rows` | 3 clients, one without MPTCP, on 2 descriptors; up to 3 subflows | rows, addresses, lock and end of the loggers, abandoned ones included; `LoggerLife` with its liveness; what keeps a dead server |
| `evaluation_transfer` | each type of client alone, two followed by another; interrupted, killed; 2 bytes of room, int of 4 bits | writes block each other only after a short read; payload is not taken for the magic number; no exception in `run`; clients and threads end |

Runs that show a disagreement between the code and its own words:

| Run | What happens |
|---|---|
| `client_error_unreported` | `connect()` returns 0 after the Converter's refusal |
| `client_cleared_connected` | a failed redirection leaves the descriptor connected to the Converter |
| `server_double_close` | two readable ends of an ended pair: `KeyError` ends the server |
| `server_blocked` | a client that stops inside its header stops everybody |

One more disagreement is a fact that a passing run establishes: `convert_util.h` says
that the caller of `convert_parse_tlvs` must free what it returns, and the second part of
`OptsAccounted` (`codec_messages`) says that `_read_convert` leaves the options of every
accepted answer with TLVs allocated. `PROJECT.json` lists it with the others under
`findings`.

Two properties need a word on what they do not claim. `ClientsServed`: a client whose
header has no Connect TLV is neither answered nor closed by `handle_connection`; its
socket is closed when `client_sock` is rebound to the next client. The property demands
that, and allows such a client to wait for ever only while nobody comes after it.
`StartupEnds`: it demands first that every call lets go of the mutex, whoever makes it.
Given that, `init` may fail to end only if others take and release the mutex again
and again, since a mutex need not be fair.

Every module has its `TypeOK`. A run lists it for `ConvertClient`, about which it is
proved; for the others it holds on the instances of the runs and is left to the proofs.

Bounds, and why they are enough. Two threads make every pair of calls meet; the
table's properties relate two states of one bucket, so two descriptors with the same
hash and two cells do. A stream of two or three chunks is enough to put the header, the
answer and data in the wrong order (`MaxSent`, `MaxQueue`). Two connections are
enough for one to take over the other's descriptor numbers, with four numbers for both
pairs to be open at once and with two for the process to run out. One chunk
per direction (`MaxData`) with a buffer of one (`BufCap`) makes a send block. Threads
and cells, and the server's descriptor numbers, are only compared with each
other, which justifies the symmetry sets; no run with a liveness property uses one.
In `evaluation_transfer` buffers of two bytes make a short read, a read that spans the
magic number and a count that jumps over its target possible; `Base` 2 makes the low
byte of a size 0; an `int` of 4 bits makes a count wrap around; two bytes of room fill
up in both directions. A second client is there to make the server let go of the
first one's socket. `MaxDropped` 1 lets a buffer be filtered to less or to nothing.
`server_pairs` lets clients send a whole Connect header only: the other headers are
`server_service`'s subject. `MaxQueue` 2 is the longest answer, and the data behind it
after part of it was read. `library_process` has two cells, the fewest with which
LIST_INSERT_HEAD and LIST_REMOVE meet a neighbour at either side of a state; a state
between two others needs a third, with which the run does not end in time, and is left
to the proofs. In `logger_rows` `MaxSubflows` 3 is one more than the extension's slots,
the third client takes over a number, and only the second one's subflows change,
twice: a third subflow joins, or one leaves.

Deadlock is not checked where the system really may stop: after undefined behaviour
(`client_races`, `library_process`), after a message has been read (`codec_messages`),
after the server's death and when all clients are done (`server_*`, `logger_rows`,
`evaluation_transfer`).

Fairness. `server_service` and `server_blocked` assume that the operating system runs
the server's thread and that a logger thread that was told to end does end: its
loop has no wait other than its sleep and the database's own time-out. Of the
clients in `Prompt`, and only of them, they assume that the header arrives in full
and that both ends read what they are sent. `codec_messages` assumes that
sequential code goes on. `library_process` assumes that the loader runs `init` to its
end, that `exit` ends, and that a thread inside a call runs when it can; it assumes
nothing of who gets a mutex that is free, hence the exception in `StartupEnds`.
`logger_rows` assumes that logger threads run and that SQLite's waits end, by a lock or by
their time-out: nothing of subflows, clients or the server's loop.
`evaluation_transfer` assumes that the operating system runs each client, the accept
loop and each of its threads when they are not blocked, and nothing of signals.

Four more things the models show and no run asserts, since no comment of the code
promises otherwise: an application that uses `read()` gets the Converter's answer
when `connect()` left it pending (`RawRead`), an IPv6 destination, which
the library writes into the Connect TLV, becomes another address or none at the
Converter (`ipv6_to_ipv4`), a message of which the second recv returned only the
Connect TLV is answered although the rest of it, a cookie for instance, comes later and
is then forwarded to the destination as data (`PyHeader`), and an echo client and its thread can end up blocked in
writes to each other (`Stuck`): a state the instance reaches after short reads.

## Proofs

TLAPS checks every proof of the seven modules. The theorems hold for every value of the
constants that satisfies the named assumption of the component's module
(`ClientAssumption`, `ProcessAssumption`, ...), which TLC evaluates on every run. No
property is inductive as it stands; each module defines an inductive invariant (`IInv`,
and `NInv`, `HInv` for the network side of the client), which TLC checked on the
instances of the runs before it was proved. A module shows that the initial states
satisfy it, has a lemma for each action that the action keeps it, combines those in
`InvStep`, and derives the theorems.

| Theorem | States | Hypotheses |
|---|---|---|
| **ConvertClientProofs** | | |
| `TypeCorrect`, `MemorySafety` | `TypeOK`, `UseAfterFreeNeedsOverlap` | |
| `TableFollowsKernel`, `LookupUnambiguous`, `StatesAccounted`, `JudgedOnce` | `TableMatchesKernel`, `OneStatePerSocket`, `NoLostState`, `VerdictSettles` | |
| **ConvertNetworkProofs** | | |
| `HeaderComesFirst` | `HeaderBeforeData` | `~AsyncConnect` |
| `AnswerHidden` | `ConvertBytesHidden` | `~AsyncConnect`, `~RawIO`, `Replies \subseteq Answers` |
| `ClientKeepsContract` | `ClientContract`: implements `Conversation` | `~AsyncConnect`, `~Overlaps` |
| `TableServesCalls` | `TableContract`: implements `StateTable` | `~Overlaps` |
| **ConvertProcessProofs** | | |
| `TypeCorrect`, `ListsWellLinked`, `AddressValid` | `TypeOK`, `WellLinked`, `AddressReady` | |
| `ListsImplementTable` | `TableContract`: implements `StateTable` | |
| **ConvertCodecProofs** | | |
| `TypeCorrect`, `LengthsDescribe`, `ReadersKeepPlace`, `MessagesUnderstood`, `AllocationsExplained`, `DestinationReached` | `TypeOK`, `LengthsExact`, `ReadersInSync`, `RoundTrip`, `OptsAccounted`, `DestinationKept` | |
| **TCServerProofs** | | |
| `TypeCorrect`, `StreamsDelivered`, `MapsAgree`, `DescriptorsReturned`, `CrashExplained` | `TypeOK`, `StreamsIntact`, `MapConsistent`, `NoDescriptorLeak`, `CrashNeedsCause` | |
| `LoggersJoined` | `LoggerStopped`, an action property | |
| `LoggersHandled`, `ProtocolKept` | `LoggerContract`, `ConverterContract`: implements `LoggerLife`, `Conversation` | |
| **PerformanceLoggerProofs** | | |
| `TypeCorrect`, `OneSubflowRow`, `OwnRows`, `OwnAddresses` | `TypeOK`, `SubflowOnce`, `RowsOwn`, `AddressesMatch` | |
| `LifeKept` | `Life!Spec`, the safety part of `LoggerContract` | |
| **EvaluationProofs** | | |
| `TypeCorrect`, `MagicFound`, `HeaderReadable`, `EchoStuckExplained` | `TypeOK`, `MagicOnce`, `HeaderNeverReset`, `StuckNeedsShortRead` | |

The hypotheses are switches of the model, not of the code, and each selects the
applications the property is about. `~AsyncConnect`: `connect` returns when it is
done. With a connect that is still under way the library drops the state
(`client_cleared_connected`), and nothing of the kind can hold. `~RawIO`: the
application reads with `recv`; the library does not intercept `read`. `Answers`: the
Converter sends a header and the TLV that its length field announces, the five
answers all runs choose from; after others the library cannot know where the
answer ends. `~Overlaps`: one call at a time on a descriptor; where the property itself
says `~overlap` the hypothesis is not needed.

**ConvertClient, memory and table.** `IInv` has the types, `memerr => overlap`, and, as
long as there was no overlap, `Owned`. That a pointer is still valid when it is used
rests on nobody else having freed it, so `Owned` says who may: calls on one
descriptor exclude each other (`Exclusive`) and are on open descriptors
(`CallsOnOpen`); the table is sound and has one state per descriptor (`TableSound`,
`TableInjective`); the pointer a call holds is the table's state of its own descriptor,
or, between `LIST_REMOVE` and `free`, a cell that is allocated and linked nowhere
(`PointersLive`); a descriptor whose number is being allocated or closed has no state
(`Untabled`); allocated cells are accounted for (`NoLost`); and a descriptor whose
answer was judged is on its way out of the table (`JudgedLeaving`).

**ConvertClient, network.** Given that ownership, a descriptor and the one call on it can
be looked at alone. `Good` says which of five situations they are in, not connected,
managed by the library, connected directly, past an accepted answer, or being given
up, and what was sent, received and judged in each. A step of one thread changes one
descriptor; a lemma per operation shows that it goes from one situation to another.
`HInv` adds what the receive queue holds: the rest of one answer, then data only.
The two refinements follow step by step from the same lemmas.

**ConvertProcess.** `Reach(b)` is the set of cells a list leads to, defined without
recursion (the intersection of all sets that contain the head and are closed under
`le_next`), so that what a pointer store does to it can be shown for lists of any
length: a store into the head adds the new cell, a store through `le_prev` removes
one. `HeadBack` and `NextBack` say that each pointer leads to a state that points back
to it, except where the holder of the mutex is half way through an insertion or a
removal; `Half` says how far it is. `MutexSound`, `CallsApart`, `InBucket`, `OneState` and
`Accounted` give the rest. The walk of `_lookup` finds the state if there is one because
everything with the descriptor is still ahead of it (`From`).

**ConvertCodec.** The proofs are about messages of any number of TLVs, so they need what
`Words` adds up. `Words` is a recursive function; `WordsTail` and `WordsAppend` say what a
TLV more or less does to it. Both come from sums over prefixes, where the induction is by
the least counterexample: a set of numbers that is not empty has a least member
(`LeastNumber`, from the library's `WFMin`), and the least place where a sum is wrong
cannot be the first and has none before it. `CodecAssumption` bounds what `convert_write`
can be given by the buffer of `_redirect` (1024 bytes, 256 words, one more than a length
byte counts) and gives messages from elsewhere a total length that a byte holds; the
lengths of cookies and TCP options are any numbers. In `IInv`, `Writing` and `Sent` say
that the message has each TLV that was asked for once, up to the writer's place in
the table, and that the room left and the words written make up the buffer; `AtTlv`
that a reader is at the start of a TLV of a framed message; `Received` that the
Converter has a prefix of the message, whose last TLV may be torn; `Parsing` that what was read
and what is to be read make up the options, and that a block belongs to contents that were
read; `Connecting` that the destination was used when its TLV was passed. That a prefix
has the Connect TLV, unless it is empty, rests on the order of the writer's table:
of what `convert_write` can write nothing comes before it (`ConnectEarly`).

**TCServer.** `FdState` says which sockets have a number by the phase of their
connection, `FdsApart` that no two share one; `InputsAre` and `Mapped` tie `inputs` and
`forward_map` to the open pairs. These make `forward_map` lead to the right far end when
numbers are reused, from which `StreamsIntact` follows. `OneHandled` and `OnePair`
identify the local variables with a connection; `TodoReadable` says what is left
of `readable`, and why a closed socket can still be in it; `LoggersNamed` is about
`perf_loggers`, with its stale entries.

**PerformanceLogger.** The invariant is a conjunction over the clients (`LoggerOK`): the
cache agrees with the table `subflows` (`CacheOK`), rows and items not yet inserted
are about the client's own connection unless it is `mistaken` (`OwnOK`), and
positions are subflows as long as none has left (`ExactOK`).

**Evaluation.** Each client is followed through its header (`HeaderOK`: what the server
has read of it plus what is on its way is no more than was written), its type and
size (`TypeRead`), the magic number (`Before`, `Timed`) and its role (`Roles`). `Echoed`
carries `StuckNeedsShortRead`: until a read is short, the bytes on their way in both
directions and in the hands of both ends never exceed one buffer, so the two
directions cannot both be full.

Only model-checked:

* Liveness under fairness, which is out of the prover's reach: `StartupEnds`,
  `ClientsServed`, `EndsWhenTold`, `HandlersEnd`, `ReadersEnd`, `LockReleased`,
  `DeadServerExits`, `AbandonedEnds`, and that a stopped logger ends (the rest of `LoggerContract` of
  `PerformanceLogger`).

## Not modelled

`read_convert_opts`, which nothing calls; the server's command line, configuration and
`kill_existing_process_on_port`, which run before its loop; the columns the logger
keeps, and the reads of the database; `get_mptcp_info`, which only tests call; the Web UI,
plots and scripts; the list macros nobody uses; the evaluation client's report thread
and its Python variant, which its header calls broken; `deprecated/`, which no build file
uses and whose codec is a copy of the library's. The `components` of `PROJECT.json` give
the reasons. Bytes are abstracted to chunks and lengths, log output is left out, and
calls that `dlsym` fails to resolve are assumed not to occur.

## Plan

1. `ConvertClient`, its runs and proofs; `ConvertCodec`; `TCServer`; `Evaluation` (done).
2. `ConvertProcess`, `PerformanceLogger`, the parser's heap; the abstract specifications
   and their refinements, in place of a product of client and server (done).
3. Proofs of the safety properties and of the refinements of `ConvertClient`,
   `ConvertProcess`, `TCServer`, `PerformanceLogger` and `Evaluation` (done).
4. Proofs of the safety properties of `ConvertCodec` (done).
5. Shorter proofs where lemmas repeat.

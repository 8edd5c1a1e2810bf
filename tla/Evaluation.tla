----------------------------- MODULE Evaluation -----------------------------
(***************************************************************************)
(* The evaluation client and server (src/5GTC/evaluation/mptcp_client.c,   *)
(* mptcp_server.py and util.py): the workload measured through the         *)
(* Converter.                                                              *)
(*                                                                         *)
(* A client sends a magic byte, its type and its buffer size, then reads   *)
(* (downlink), writes (uplink) or does both in turn (echo) until it has    *)
(* moved as much as it was asked to or is interrupted.  The server reads   *)
(* the six bytes in its accept loop and gives the client a thread.         *)
(*                                                                         *)
(* Payload is counted, not spelled out: the only byte the program tells    *)
(* from the others is the magic number.                                    *)
(***************************************************************************)
EXTENDS Integers, Sequences, FiniteSetsExt

CONSTANTS
  Clients,      \* the runs of the client program
  Setups,       \* the command lines given to those that are started
  Interrupted,  \* the clients that may receive SIGINT
  Killed,       \* the clients that may be killed by another signal
  LogPerf,      \* log_perf: the performance loggers keep the sockets
  Base,         \* values of a byte of the buffer size (256)
  IntHalf,      \* int holds -IntHalf .. IntHalf - 1 (2^31)
  MaxDropped,   \* bound: magic numbers among the random bytes of one buffer
  Cap           \* payload bytes one direction of a connection can hold

Uplink == 0
Downlink == 1
Echo == 2
Types == {Uplink, Downlink, Echo}
NoTarget == -1
Nobody == 0

ASSUME EvaluationAssumption ==
  /\ Nobody \notin Clients /\ Interrupted \subseteq Clients /\ Killed \subseteq Clients
  /\ LogPerf \in BOOLEAN
  /\ Base \in Nat \ {0, 1} /\ IntHalf \in Nat \ {0}
  /\ MaxDropped \in Nat /\ Cap \in Nat \ {0}
  /\ \A s \in Setups : DOMAIN s \subseteq Clients
  /\ \A s \in Setups : \A c \in DOMAIN s :
       /\ s[c].type \in Types /\ s[c].size \in 1 .. Cap
       /\ s[c].size < Base * Base * Base * Base /\ s[c].size < IntHalf
       /\ {s[c].download, s[c].upload} \subseteq {NoTarget} \cup (0 .. IntHalf - 1)

VARIABLES
  \* The clients.
  args,           \* args[c]: CLIENT_TYPE, buffer_size, DOWNLOAD_SIZE, UPLOAD_SIZE
  pc,             \* where main is
  LOOP,           \* LOOP[c]
  BYTES_READ, BYTES_WRITTEN,
  left,           \* left[c]: what write has yet to hand to the kernel
  clock,          \* clock[c]: the magic number was received
  short,          \* short[c]: a read of c, or of its header, was a short one
  \* The server.
  spc,            \* where run is
  client, conn,   \* its local variables: the last accepted, the last with a header
  hpc,            \* hpc[c]: where handle_client is
  type, size,     \* type[c], size[c]: the fields of the ClientConnection
  hleft,          \* hleft[c]: what sendall has yet to hand to the kernel
  \* The network.
  backlog,        \* connections to accept
  header,         \* header[c]: bytes of the header yet to be read by the server
  up, down,       \* up[c], down[c]: payload on its way to the server, to the client
  magic,          \* magic[c]: the first byte on its way to the client is the magic one
  fin, rst        \* the client has closed; the connection was reset

clientVars == <<args, pc, LOOP, BYTES_READ, BYTES_WRITTEN, left, clock>>
serverVars == <<spc, client, conn, hpc, type, size, hleft>>
network == <<backlog, header, up, down, magic, fin, rst>>
vars == <<clientVars, serverVars, network, short>>

Pcs == {"new", "magic", "type", "size", "while", "read", "write", "ended"}
Hpcs == {"none", "refused", "start", "generate", "send", "recv", "done"}
CInt == -IntHalf .. IntHalf - 1

TypeOK ==
  /\ args \in Setups
  /\ pc \in [Clients -> Pcs]
  /\ LOOP \in [Clients -> BOOLEAN]
  /\ BYTES_READ \in [Clients -> CInt] /\ BYTES_WRITTEN \in [Clients -> CInt]
  /\ left \in [Clients -> 0 .. Cap]
  /\ clock \in [Clients -> BOOLEAN] /\ short \in [Clients -> BOOLEAN]
  /\ spc \in {"accept", "magic", "type", "size"}
  /\ {client, conn} \subseteq Clients \cup {Nobody}
  /\ hpc \in [Clients -> Hpcs]
  /\ type \in [Clients -> Types]
  /\ size \in [Clients -> 0 .. Cap]
  /\ hleft \in [Clients -> 0 .. Cap]
  /\ backlog \in Seq(Clients)
  /\ header \in [Clients -> 0 .. 6]
  /\ up \in [Clients -> 0 .. Cap + 3]
  /\ down \in [Clients -> 0 .. Cap]
  /\ magic \in [Clients -> BOOLEAN]
  /\ fin \in [Clients -> BOOLEAN] /\ rst \in [Clients -> BOOLEAN]

Init ==
  /\ args \in Setups
  /\ pc = [c \in Clients |-> "new"]
  /\ LOOP = [c \in Clients |-> TRUE]
  /\ BYTES_READ = [c \in Clients |-> 0] /\ BYTES_WRITTEN = [c \in Clients |-> 0]
  /\ left = [c \in Clients |-> 0]
  /\ clock = [c \in Clients |-> FALSE] /\ short = [c \in Clients |-> FALSE]
  /\ spc = "accept" /\ client = Nobody /\ conn = Nobody
  /\ hpc = [c \in Clients |-> "none"]
  /\ type = [c \in Clients |-> Uplink] /\ size = [c \in Clients |-> 0]
  /\ hleft = [c \in Clients |-> 0]
  /\ backlog = <<>>
  /\ header = [c \in Clients |-> 0]
  /\ up = [c \in Clients |-> 0] /\ down = [c \in Clients |-> 0]
  /\ magic = [c \in Clients |-> FALSE]
  /\ fin = [c \in Clients |-> FALSE] /\ rst = [c \in Clients |-> FALSE]

-----------------------------------------------------------------------------
\* The sum of two ints, which wraps around.
Wrap(n) == ((n + IntHalf) % (2 * IntHalf)) - IntHalf

\* The server's socket is closed with its last reference: those of run, of the
\* thread and of the performance logger.
SockClosed(c) ==
  \/ hpc[c] = "refused"
  \/ hpc[c] = "done" /\ c \notin {client, conn} /\ ~LogPerf

-----------------------------------------------------------------------------
(***************************************************************************)
(* The client: main of mptcp_client.c.                                     *)
(***************************************************************************)

\* main returns, or a signal ends the process: the kernel closes the socket, and
\* resets the connection if something it received was not read.
Leave(c) ==
  /\ pc' = [pc EXCEPT ![c] = "ended"]
  /\ left' = [left EXCEPT ![c] = 0]
  /\ fin' = [fin EXCEPT ![c] = TRUE]
  /\ rst' = [rst EXCEPT ![c] = @ \/ down[c] > 0]
  /\ down' = [down EXCEPT ![c] = 0]
  /\ magic' = [magic EXCEPT ![c] = FALSE]

Connect(c) ==
  /\ c \in DOMAIN args /\ pc[c] = "new"
  /\ pc' = [pc EXCEPT ![c] = "magic"]
  /\ backlog' = Append(backlog, c)
  /\ UNCHANGED <<args, LOOP, BYTES_READ, BYTES_WRITTEN, left, clock, short, serverVars,
                 header, up, down, magic, fin, rst>>

\* The three writes of the header: 1, 1 and 4 bytes.
WriteHeader(c) ==
  /\ \/ pc[c] = "magic" /\ pc' = [pc EXCEPT ![c] = "type"]
        /\ header' = [header EXCEPT ![c] = @ + 1]
     \/ pc[c] = "type" /\ pc' = [pc EXCEPT ![c] = "size"]
        /\ header' = [header EXCEPT ![c] = @ + 1]
     \/ pc[c] = "size" /\ pc' = [pc EXCEPT ![c] = "while"]
        /\ header' = [header EXCEPT ![c] = @ + 4]
  /\ UNCHANGED <<args, LOOP, BYTES_READ, BYTES_WRITTEN, left, clock, short, serverVars,
                 backlog, up, down, magic, fin, rst>>

\* Go on to write the whole buffer.
StartWrite(c) ==
  /\ pc' = [pc EXCEPT ![c] = "write"]
  /\ left' = [left EXCEPT ![c] = args[c].size]

\* The test of LOOP, and the start of the loop's body.
While(c) ==
  /\ pc[c] = "while"
  /\ \/ ~LOOP[c] /\ Leave(c)
     \/ /\ LOOP[c]
        /\ \/ args[c].type = Uplink /\ StartWrite(c)
           \/ args[c].type # Uplink /\ pc' = [pc EXCEPT ![c] = "read"] /\ UNCHANGED left
        /\ UNCHANGED <<down, magic, fin, rst>>
  /\ UNCHANGED <<args, LOOP, BYTES_READ, BYTES_WRITTEN, clock, short, serverVars,
                 backlog, header, up>>

\* Mutant: the loop ends when the count is the size asked for.
Complete_Exact(count, target) == target # NoTarget /\ count = target

\* DOWNLOAD_SIZE != -1 && BYTES_READ >= DOWNLOAD_SIZE, and the same of writes.
Complete(count, target) == target # NoTarget /\ count >= target

\* read returned n bytes, 0 at the end of the stream.  All the bytes that came
\* with the magic number are passed over.
Got(c, n) ==
  LET total == Wrap(BYTES_READ[c] + n) IN
  /\ short' = [short EXCEPT ![c] = @ \/ n < args[c].size]
  /\ \/ /\ magic[c]
        /\ clock' = [clock EXCEPT ![c] = TRUE]
        /\ pc' = [pc EXCEPT ![c] = "while"]
        /\ down' = [down EXCEPT ![c] = @ - n]
        /\ magic' = [magic EXCEPT ![c] = FALSE]
        /\ UNCHANGED <<BYTES_READ, left, fin, rst>>
     \/ /\ ~magic[c]
        /\ BYTES_READ' = [BYTES_READ EXCEPT ![c] = total]
        /\ \/ /\ Complete(total, args[c].download)
              /\ pc' = [pc EXCEPT ![c] = "ended"]
              /\ fin' = [fin EXCEPT ![c] = TRUE]
              /\ rst' = [rst EXCEPT ![c] = @ \/ down[c] > n]
              /\ down' = [down EXCEPT ![c] = 0]
              /\ UNCHANGED left
           \/ /\ ~Complete(total, args[c].download)
              /\ \/ args[c].type = Echo /\ StartWrite(c)
                 \/ /\ args[c].type = Downlink
                    /\ pc' = [pc EXCEPT ![c] = "while"] /\ UNCHANGED left
              /\ down' = [down EXCEPT ![c] = @ - n]
              /\ UNCHANGED <<fin, rst>>
        /\ UNCHANGED <<clock, magic>>

\* read returns what has arrived, 0 or -1 when the server has closed.
Read(c) ==
  /\ pc[c] = "read"
  /\ \/ \E n \in 1 .. args[c].size : n <= down[c] /\ Got(c, n)
     \/ down[c] = 0 /\ SockClosed(c) /\ ~rst[c] /\ up[c] = 0 /\ Got(c, 0)
     \/ /\ down[c] = 0 /\ (rst[c] \/ (SockClosed(c) /\ up[c] > 0))
        /\ Leave(c) /\ UNCHANGED <<BYTES_READ, clock, short>>
  /\ UNCHANGED <<args, LOOP, BYTES_WRITTEN, serverVars, backlog, header, up>>

\* write returned n.
Wrote(c, n) ==
  LET total == Wrap(BYTES_WRITTEN[c] + n) IN
  /\ BYTES_WRITTEN' = [BYTES_WRITTEN EXCEPT ![c] = total]
  /\ \/ Complete(total, args[c].upload) /\ Leave(c)
     \/ /\ ~Complete(total, args[c].upload)
        /\ pc' = [pc EXCEPT ![c] = "while"] /\ left' = [left EXCEPT ![c] = 0]
        /\ UNCHANGED <<down, magic, fin, rst>>

\* write hands bytes to the kernel as there is room and returns when all are
\* gone.  SIGPIPE ends the process if the connection was reset.
Write(c) ==
  /\ pc[c] = "write"
  /\ \/ /\ rst[c]
        /\ Leave(c) /\ UNCHANGED <<BYTES_WRITTEN, up>>
     \/ /\ ~rst[c] /\ ~SockClosed(c)
        /\ left[c] > 0 /\ up[c] < Cap
        /\ LET n == Min({left[c], Cap - up[c]}) IN
             /\ up' = [up EXCEPT ![c] = @ + n]
             /\ left' = [left EXCEPT ![c] = @ - n]
        /\ UNCHANGED <<BYTES_WRITTEN, pc, down, magic, fin, rst>>
     \/ /\ ~rst[c] /\ left[c] = 0
        /\ Wrote(c, args[c].size) /\ UNCHANGED up
  /\ UNCHANGED <<args, LOOP, BYTES_READ, clock, short, serverVars, backlog, header>>

\* The server answers what arrives on a closed socket with a reset.
WriteToClosed(c) ==
  /\ pc[c] = "write" /\ left[c] > 0 /\ ~rst[c] /\ SockClosed(c)
  /\ left' = [left EXCEPT ![c] = 0]
  /\ rst' = [rst EXCEPT ![c] = TRUE]
  /\ UNCHANGED <<args, pc, LOOP, BYTES_READ, BYTES_WRITTEN, clock, short, serverVars,
                 backlog, header, up, down, magic, fin>>

\* sigint_handler: a blocked read, or a write that has handed over nothing, is
\* started again, and so is any call if the other thread takes the signal.
Interrupt(c) ==
  /\ c \in Interrupted /\ pc[c] \notin {"new", "ended"} /\ LOOP[c]
  /\ LOOP' = [LOOP EXCEPT ![c] = FALSE]
  /\ UNCHANGED <<args, pc, BYTES_READ, BYTES_WRITTEN, left, clock, short, serverVars, network>>

\* A write that has handed over a part returns what it has handed over.
InterruptWrite(c) ==
  /\ c \in Interrupted /\ pc[c] = "write" /\ LOOP[c] /\ ~rst[c]
  /\ left[c] \in 1 .. args[c].size - 1
  /\ LOOP' = [LOOP EXCEPT ![c] = FALSE]
  /\ Wrote(c, args[c].size - left[c])
  /\ UNCHANGED <<args, BYTES_READ, clock, short, serverVars, backlog, header, up>>

Kill(c) ==
  /\ c \in Killed /\ pc[c] \notin {"new", "ended"}
  /\ Leave(c)
  /\ UNCHANGED <<args, LOOP, BYTES_READ, BYTES_WRITTEN, clock, short, serverVars,
                 backlog, header, up>>

-----------------------------------------------------------------------------
(***************************************************************************)
(* The server: run and read_client_header.                                 *)
(***************************************************************************)

\* Mutant: the server greets a client before it has read the header.
Accept_Greet ==
  /\ spc = "accept" /\ backlog # <<>>
  /\ LET c == Head(backlog) IN
       /\ client' = c
       /\ down' = [down EXCEPT ![c] = IF fin[c] THEN 0 ELSE 1]
       /\ magic' = [magic EXCEPT ![c] = ~fin[c]]
       /\ rst' = [rst EXCEPT ![c] = @ \/ fin[c]]
  /\ backlog' = Tail(backlog)
  /\ spc' = "magic"
  /\ UNCHANGED <<clientVars, short, conn, hpc, type, size, hleft, header, up, fin>>

Accept ==
  /\ spc = "accept" /\ backlog # <<>>
  /\ client' = Head(backlog) /\ backlog' = Tail(backlog)
  /\ spc' = "magic"
  /\ UNCHANGED <<clientVars, short, conn, hpc, type, size, hleft,
                 header, up, down, magic, fin, rst>>

\* The client has closed: int.from_bytes of no byte is 0.
NoMore == header[client] = 0 /\ fin[client]

\* 0 is not the magic number: read_client_header returns None.
ReadMagic ==
  /\ spc = "magic"
  /\ \/ /\ header[client] > 0
        /\ header' = [header EXCEPT ![client] = @ - 1]
        /\ spc' = "type" /\ UNCHANGED <<conn, hpc>>
     \/ /\ NoMore
        /\ conn' = Nobody /\ hpc' = [hpc EXCEPT ![client] = "refused"]
        /\ spc' = "accept" /\ UNCHANGED header
  /\ UNCHANGED <<clientVars, short, client, type, size, hleft,
                 backlog, up, down, magic, fin, rst>>

\* 0 is CLIENT_TYPE_UPLINK.
ReadType ==
  /\ spc = "type"
  /\ \/ /\ header[client] > 0
        /\ header' = [header EXCEPT ![client] = @ - 1]
        /\ type' = [type EXCEPT ![client] = args[client].type]
     \/ /\ NoMore
        /\ type' = [type EXCEPT ![client] = Uplink] /\ UNCHANGED header
  /\ spc' = "size"
  /\ UNCHANGED <<clientVars, short, client, conn, hpc, size, hleft,
                 backlog, up, down, magic, fin, rst>>

\* What the first k bytes of an int can count to.
Weight == <<Base, Base * Base, Base * Base * Base, Base * Base * Base * Base>>

\* recv(4) may return fewer bytes, the low ones of the size; the others are read
\* as payload.  Then the client gets its thread.
ReadSize ==
  /\ spc = "size"
  /\ \/ \E k \in 1 .. header[client] :
          /\ size' = [size EXCEPT ![client] = args[client].size % Weight[k]]
          /\ up' = [up EXCEPT ![client] = @ + header[client] - k]
          /\ header' = [header EXCEPT ![client] = 0]
          /\ short' = [short EXCEPT ![client] = @ \/ k < 4]
     \/ /\ NoMore
        /\ size' = [size EXCEPT ![client] = 0]
        /\ UNCHANGED <<up, header, short>>
  /\ conn' = client /\ hpc' = [hpc EXCEPT ![client] = "start"]
  /\ spc' = "accept"
  /\ UNCHANGED <<clientVars, client, type, hleft, backlog, down, magic, fin, rst>>

-----------------------------------------------------------------------------
(***************************************************************************)
(* The server: handle_client, a thread for each client.                    *)
(***************************************************************************)
Goto(c, l) == hpc' = [hpc EXCEPT ![c] = l]

\* conn.type in [CLIENT_TYPE_UPLINK, CLIENT_TYPE_DOWNLINK]
Greeted(t) == t \in {Uplink, Downlink}

\* What is sent to a client that has closed is answered with a reset.
Start(c) ==
  /\ hpc[c] = "start"
  /\ IF Greeted(type[c])
       THEN /\ down' = [down EXCEPT ![c] = IF fin[c] THEN 0 ELSE 1]
            /\ magic' = [magic EXCEPT ![c] = ~fin[c]]
            /\ rst' = [rst EXCEPT ![c] = @ \/ fin[c]]
       ELSE UNCHANGED <<down, magic, rst>>
  /\ Goto(c, IF type[c] = Uplink THEN "recv" ELSE "generate")
  /\ UNCHANGED <<clientVars, short, spc, client, conn, type, size, hleft,
                 backlog, header, up, fin>>

\* Mutant: the random bytes are not filtered, and may begin with the magic number.
Generate_Unfiltered(c, n) ==
  /\ hpc[c] = "generate" /\ n = size[c]
  /\ hleft' = [hleft EXCEPT ![c] = n] /\ Goto(c, "send")
  /\ magic' = [magic EXCEPT ![c] = @ \/ (n > 0 /\ down[c] = 0 /\ ~fin[c])]
  /\ UNCHANGED <<clientVars, short, spc, client, conn, type, size,
                 backlog, header, up, down, fin, rst>>

\* generate_random_data_buffer leaves out the bytes that happen to be the magic
\* number: n bytes out of size[c].
Generate(c, n) ==
  /\ hpc[c] = "generate" /\ n \in size[c] - MaxDropped .. size[c]
  /\ hleft' = [hleft EXCEPT ![c] = n] /\ Goto(c, "send")
  /\ UNCHANGED <<clientVars, short, spc, client, conn, type, size, network>>

\* sendall hands bytes to the kernel as there is room, and raises when the
\* connection was reset.
SendAll(c) ==
  /\ hpc[c] = "send"
  /\ \/ /\ rst[c]
        /\ hleft' = [hleft EXCEPT ![c] = 0]
        /\ Goto(c, "done") /\ UNCHANGED <<down, rst>>
     \/ /\ ~rst[c] /\ hleft[c] > 0 /\ fin[c]
        /\ hleft' = [hleft EXCEPT ![c] = 0] /\ rst' = [rst EXCEPT ![c] = TRUE]
        /\ UNCHANGED <<hpc, down>>
     \/ /\ ~rst[c] /\ hleft[c] > 0 /\ ~fin[c] /\ down[c] < Cap
        /\ LET n == Min({hleft[c], Cap - down[c]}) IN
             /\ down' = [down EXCEPT ![c] = @ + n]
             /\ hleft' = [hleft EXCEPT ![c] = @ - n]
        /\ UNCHANGED <<hpc, rst>>
     \/ /\ ~rst[c] /\ hleft[c] = 0
        /\ Goto(c, IF type[c] = Echo THEN "recv" ELSE "generate")
        /\ UNCHANGED <<hleft, down, rst>>
  /\ UNCHANGED <<clientVars, short, spc, client, conn, type, size,
                 backlog, header, up, magic, fin>>

\* Mutant: the whole buffer is sent back.
Reply_Whole(c, n) == IF type[c] = Echo THEN size[c] ELSE 0

\* What is sent back of n bytes received.
Reply(c, n) == IF type[c] = Echo THEN n ELSE 0

\* Mutant: the end of the stream does not end the loop.
Recv_NoBreak(c) ==
  /\ hpc[c] = "recv"
  /\ \/ \E n \in 1 .. size[c] :
          /\ n <= up[c]
          /\ up' = [up EXCEPT ![c] = @ - n]
          /\ hleft' = [hleft EXCEPT ![c] = Reply(c, n)]
          /\ Goto(c, IF type[c] = Echo THEN "send" ELSE "recv")
     \/ rst[c] /\ Goto(c, "done") /\ UNCHANGED <<up, hleft>>
  /\ UNCHANGED <<clientVars, short, spc, client, conn, type, size,
                 backlog, header, down, magic, fin, rst>>

\* recv(conn.buffer_size): no data, at the end of the stream or for an empty
\* buffer, ends the loop; a reset raises.
Recv(c) ==
  /\ hpc[c] = "recv"
  /\ \/ \E n \in 1 .. size[c] :
          /\ n <= up[c]
          /\ up' = [up EXCEPT ![c] = @ - n]
          /\ hleft' = [hleft EXCEPT ![c] = Reply(c, n)]
          /\ Goto(c, IF type[c] = Echo THEN "send" ELSE "recv")
     \/ /\ rst[c] \/ size[c] = 0 \/ (up[c] = 0 /\ fin[c])
        /\ Goto(c, "done") /\ UNCHANGED <<up, hleft>>
  /\ UNCHANGED <<clientVars, short, spc, client, conn, type, size,
                 backlog, header, down, magic, fin, rst>>

-----------------------------------------------------------------------------
ClientStep(c) ==
  \/ Connect(c) \/ WriteHeader(c) \/ While(c) \/ Read(c) \/ Write(c) \/ WriteToClosed(c)

RunStep == Accept \/ ReadMagic \/ ReadType \/ ReadSize

HandlerStep(c) ==
  Start(c) \/ (\E n \in 0 .. Cap : Generate(c, n)) \/ SendAll(c) \/ Recv(c)

Next ==
  \/ RunStep
  \/ \E c \in Clients : \/ ClientStep(c) \/ Interrupt(c) \/ InterruptWrite(c) \/ Kill(c)
                        \/ HandlerStep(c)

Spec == Init /\ [][Next]_vars

\* The operating system schedules every thread that can run.
Fairness ==
  /\ WF_vars(RunStep)
  /\ \A c \in Clients : /\ WF_vars(ClientStep(c)) /\ WF_vars(HandlerStep(c))

FairSpec == Spec /\ Fairness

-----------------------------------------------------------------------------
(***************************************************************************)
(* Properties.                                                             *)
(***************************************************************************)

\* Both ends are blocked in a write and neither will read again.
Stuck(c) ==
  /\ pc[c] = "write" /\ left[c] > 0 /\ up[c] >= Cap
  /\ hpc[c] = "send" /\ hleft[c] > 0 /\ down[c] = Cap
  /\ ~fin[c] /\ ~rst[c]

\* The echo client writes a whole buffer whatever it has read, so the bytes in
\* flight grow with every short read, until both sides block in write and
\* sendall for good.  As long as no read is short the exchange never gets stuck.
StuckNeedsShortRead == \A c \in DOMAIN args : Stuck(c) => short[c]

\* No payload is taken for the magic number and thrown away with all that came
\* in the same read, and a downlink client counts nothing before it.
MagicOnce ==
  \A c \in DOMAIN args :
    /\ clock[c] => ~magic[c]
    /\ args[c].type = Downlink /\ BYTES_READ[c] # 0 => clock[c]

\* No recv of read_client_header raises, whichever moment a client is killed at:
\* run catches nothing, so an exception there would end the server.  Nothing is
\* sent to a client before its header is read, so its end is no reset there.
HeaderNeverReset == spc # "accept" => ~rst[client]

\* The server read the size the client sent.
WholeHeader(c) == hpc[c] \notin {"none", "refused"} /\ size[c] = args[c].size
\* No buffer of random bytes is empty.
SomeData(c) == size[c] > MaxDropped
\* The last count before the target and a whole buffer do not exceed an int.
NoOverflow(target, n) == target # NoTarget /\ target + n <= IntHalf
Told(c) ==
  \/ ~LOOP[c]
  \/ args[c].type = Downlink /\ NoOverflow(args[c].download, args[c].size)
  \/ args[c].type = Uplink /\ NoOverflow(args[c].upload, args[c].size)

\* An uplink or downlink client that is interrupted, or has a size to reach that
\* leaves room for one more buffer in an int, leaves its loop: no blocking read
\* or write keeps it, wherever the signal found it.
EndsWhenTold ==
  \A c \in Clients :
    WholeHeader(c) /\ SomeData(c) /\ Told(c) /\ args[c].type # Echo ~> pc[c] = "ended"

\* The thread of a client that has ended, however it ended, ends too; the one
\* exception sends a downlink client no bytes forever, its size read as 0 or so
\* small that all of the buffer may be filtered out.
HandlersEnd ==
  \A c \in Clients :
    pc[c] = "ended" /\ hpc[c] \notin {"none", "refused"} ~>
      hpc[c] = "done" \/ (type[c] = Downlink /\ ~SomeData(c))
=============================================================================

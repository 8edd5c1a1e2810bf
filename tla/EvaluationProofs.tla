-------------------------- MODULE EvaluationProofs --------------------------
(***************************************************************************)
(* Proofs about the evaluation client and server, for any clients, command *)
(* lines, buffer sizes and capacity of the connections.                    *)
(*                                                                         *)
(* The invariant follows each connection through the six bytes of its      *)
(* header, the magic number and the payload.  StuckNeedsShortRead rests on *)
(* Echoed: as long as no read is short, the bytes an echo client and its   *)
(* thread have between them never exceed one buffer.                       *)
(***************************************************************************)
EXTENDS Evaluation, TLAPS

\* The thread of the client was started.
Threaded(c) == hpc[c] \notin {"none", "refused"}

\* Bytes of the header the client has written, no more than these.
Written(p) ==
  CASE p \in {"new", "magic"} -> 0
    [] p = "type" -> 1
    [] p = "size" -> 2
    [] OTHER -> 6

\* Bytes of it that read_client_header has read.
Consumed(c) ==
  IF client # c THEN 0 ELSE IF spc = "type" THEN 1 ELSE IF spc = "size" THEN 2 ELSE 0

\* Only started clients have a command line, and only blocked calls have
\* something left to send.
Begun(c) ==
  /\ pc[c] # "new" => c \in DOMAIN args
  /\ fin[c] <=> pc[c] = "ended"
  /\ left[c] # 0 => pc[c] = "write"
  /\ hleft[c] # 0 => hpc[c] = "send"

\* The server reads no more of the header than the client has written, and
\* nothing of it is left when run turns to the next client.
HeaderOK(c) ==
  /\ hpc[c] = "none" => header[c] + Consumed(c) <= Written(pc[c])
  /\ hpc[c] # "none" => header[c] = 0 /\ pc[c] \in {"while", "read", "write", "ended"}

\* Nothing is sent to a client before its thread greets it.
Before(c) ==
  /\ hpc[c] = "none" => ~rst[c] /\ up[c] <= Cap
  /\ hpc[c] \in {"none", "refused", "start"} => ~magic[c] /\ ~clock[c] /\ down[c] = 0

\* The type, and all or some of the size, were read from what the client wrote,
\* unless the client has closed.
TypeRead(c) ==
  ~fin[c] => /\ Threaded(c) \/ (spc = "size" /\ client = c) => type[c] = args[c].type
             /\ Threaded(c) => size[c] <= args[c].size

\* A downlink client has had its magic number, or will find it first.
Timed(c) ==
  /\ clock[c] => ~magic[c]
  /\ c \in DOMAIN args =>
     (args[c].type = Downlink =>
        /\ BYTES_READ[c] # 0 => clock[c]
        /\ ~fin[c] /\ Threaded(c) /\ hpc[c] # "start" => magic[c] \/ clock[c])

\* A downlink client does not write, the thread of an uplink client does not send.
Roles(c) ==
  /\ pc[c] = "write" => args[c].type # Downlink
  /\ hpc[c] \in {"generate", "send"} => type[c] # Uplink

\* While no read was short, an echo client and its thread pass one buffer around.
Echoed(c) ==
  c \in DOMAIN args =>
   (args[c].type = Echo /\ ~short[c] /\ ~fin[c] =>
      /\ up[c] + down[c] + left[c] + hleft[c] <= args[c].size
      /\ hpc[c] \in {"none", "refused", "start", "generate"} =>
           up[c] = 0 /\ down[c] = 0 /\ pc[c] # "write")

ClientOK(c) ==
  Begun(c) /\ HeaderOK(c) /\ Before(c) /\ TypeRead(c) /\ Timed(c) /\ Roles(c) /\ Echoed(c)

\* The client whose header is being read has no thread.
Serving == spc # "accept" => client \in Clients /\ pc[client] # "new" /\ hpc[client] = "none"

\* Every client is accepted once.
Queue ==
  /\ \A i \in DOMAIN backlog :
       /\ pc[backlog[i]] # "new" /\ hpc[backlog[i]] = "none"
       /\ spc # "accept" => backlog[i] # client
  /\ \A i, j \in DOMAIN backlog : i # j => backlog[i] # backlog[j]

\* The inductive invariant.
IInv == TypeOK /\ Serving /\ Queue /\ \A c \in Clients : ClientOK(c)

-----------------------------------------------------------------------------
(***************************************************************************)
(* The operators of the model.                                             *)
(***************************************************************************)

\* Min of FiniteSetsExt of two numbers, as Write and SendAll use it.
LEMMA MinOfTwo ==
  ASSUME NEW a \in Nat, NEW b \in Nat
  PROVE  Min({a, b}) = IF a <= b THEN a ELSE b
<1>1. CASE a <= b
  <2>1. a \in {a, b} /\ \A y \in {a, b} : a <= y
    BY <1>1
  <2>2. \A x \in {a, b} : (\A y \in {a, b} : x <= y) => x = a
    BY <1>1
  <2>. QED  BY <1>1, <2>1, <2>2 DEF Min
<1>2. CASE ~(a <= b)
  <2>1. b \in {a, b} /\ \A y \in {a, b} : b <= y
    BY <1>2
  <2>2. \A x \in {a, b} : (\A y \in {a, b} : x <= y) => x = b
    BY <1>2
  <2>. QED  BY <1>2, <2>1, <2>2 DEF Min
<1>. QED  BY <1>1, <1>2

\* What is handed over of l bytes when u of cap are taken.
LEMMA MinRoom ==
  ASSUME NEW l \in Nat, NEW u \in Nat, NEW cap \in Nat, u < cap, NEW n,
         n = Min({l, cap - u})
  PROVE  n \in Nat /\ n <= l /\ u + n <= cap
<1>1. cap - u \in Nat
  OBVIOUS
<1>2. n = IF l <= cap - u THEN l ELSE cap - u
  BY <1>1, MinOfTwo
<1>. QED  BY <1>1, <1>2

\* A count that wraps around is an int, and is the count if that is one.
LEMMA WrapInt ==
  ASSUME NEW n \in Int
  PROVE  Wrap(n) \in CInt /\ (n \in CInt => Wrap(n) = n)
<1>. DEFINE H == 2 * IntHalf
<1>1. IntHalf \in Nat \ {0} /\ H \in Nat \ {0}
  BY EvaluationAssumption
<1>2. (n + IntHalf) % H \in 0 .. H - 1
  BY <1>1
<1>3. n \in CInt => (n + IntHalf) % H = n + IntHalf
  BY <1>1 DEF CInt
<1>. QED  BY <1>1, <1>2, <1>3 DEF Wrap, CInt

\* What recv(4) makes of the first k bytes of a size is no more than the size.
LEMMA WeightKeeps ==
  ASSUME NEW k \in 1 .. 4, NEW n \in Nat
  PROVE  n % Weight[k] \in 0 .. n
<1>. DEFINE w == Weight[k]
<1>1. Base \in Nat \ {0}
  BY EvaluationAssumption
<1>2. Base * Base \in Nat \ {0}
  BY <1>1
<1>3. Base * Base * Base \in Nat \ {0}
  BY <1>1, <1>2
<1>4. Base * Base * Base * Base \in Nat \ {0}
  BY <1>1, <1>3
<1>5. w \in Nat \ {0}
  BY <1>1, <1>2, <1>3, <1>4 DEF Weight
<1>. HIDE DEF w
<1>6. n % w \in 0 .. n
  BY <1>5
<1>. QED  BY <1>6 DEF w

\* The command line of a client that was started.
LEMMA ArgsForm ==
  ASSUME TypeOK, NEW c \in DOMAIN args
  PROVE  /\ c \in Clients
         /\ args[c].type \in Types /\ args[c].size \in 1 .. Cap
BY EvaluationAssumption DEF TypeOK

-----------------------------------------------------------------------------
(***************************************************************************)
(* The frame: a step of one client, or of its thread, leaves the others be. *)
(***************************************************************************)

\* A step that changes nothing of the client d.
Same(d) ==
  /\ pc'[d] = pc[d] /\ left'[d] = left[d] /\ BYTES_READ'[d] = BYTES_READ[d]
  /\ clock'[d] = clock[d] /\ short'[d] = short[d]
  /\ hpc'[d] = hpc[d] /\ type'[d] = type[d] /\ size'[d] = size[d] /\ hleft'[d] = hleft[d]
  /\ header'[d] = header[d] /\ up'[d] = up[d] /\ down'[d] = down[d]
  /\ magic'[d] = magic[d] /\ fin'[d] = fin[d] /\ rst'[d] = rst[d]

\* Such a step keeps what is known of d, when run does not read d's header in it.
LEMMA KeepOther ==
  ASSUME NEW d \in Clients, ClientOK(d), Same(d), args' = args,
         (client' = client /\ spc' = spc) \/ (client' # d /\ client # d)
                                         \/ (spc = "accept" /\ spc' = "magic")
  PROVE  ClientOK(d)'
<1>1. Consumed(d)' = Consumed(d)
  BY DEF Consumed
<1>2. Begun(d)' /\ Before(d)' /\ Timed(d)' /\ Roles(d)' /\ Echoed(d)'
  BY DEF ClientOK, Same, Begun, Before, Timed, Roles, Echoed, Threaded
<1>3. HeaderOK(d)'
  BY <1>1 DEF ClientOK, Same, HeaderOK
<1>4. TypeRead(d)'
  BY DEF ClientOK, Same, TypeRead, Threaded
<1>. QED  BY <1>2, <1>3, <1>4 DEF ClientOK

\* What a step of a client or of its thread has to show.
LEMMA OwnStep ==
  ASSUME IInv, NEW c \in Clients, TypeOK',
         <<args, spc, client, backlog>>' = <<args, spc, client, backlog>>,
         pc'[c] # "new", hpc[c] = "none" => hpc'[c] = "none",
         \A d \in Clients \ {c} : Same(d),
         ClientOK(c)'
  PROVE  IInv'
<1>1. Serving'
  BY DEF IInv, Serving, Same
<1>2. Queue'
  <2>1. \A i \in DOMAIN backlog : backlog[i] \in Clients
    BY DEF IInv, TypeOK
  <2>. QED  BY <2>1 DEF IInv, Queue, Same
<1>3. ASSUME NEW d \in Clients \ {c}  PROVE ClientOK(d)'
  BY KeepOther DEF IInv
<1>. QED  BY <1>1, <1>2, <1>3 DEF IInv

\* The invariant holds at the start.
LEMMA InvInit == Init => IInv
<1>. SUFFICES ASSUME Init  PROVE IInv
  OBVIOUS
<1>. USE EvaluationAssumption
<1>1. TypeOK
  BY DEF Init, TypeOK, Pcs, Hpcs, CInt, Types, Uplink
<1>2. Serving /\ Queue
  BY DEF Init, Serving, Queue
<1>3. ASSUME NEW c \in Clients  PROVE ClientOK(c)
  BY ArgsForm, <1>1
     DEF Init, ClientOK, Begun, HeaderOK, Before, TypeRead, Timed, Roles, Echoed, Threaded,
         Written, Consumed
<1>. QED  BY <1>1, <1>2, <1>3 DEF IInv

-----------------------------------------------------------------------------
(***************************************************************************)
(* The client.                                                             *)
(***************************************************************************)

\* The end of a client, wherever it comes.
LEMMA LeaveInv ==
  ASSUME IInv, NEW c \in Clients, pc[c] # "new", Leave(c),
         LOOP' \in [Clients -> BOOLEAN], BYTES_WRITTEN' \in [Clients -> CInt],
         UNCHANGED <<args, BYTES_READ, clock, short, serverVars, backlog, header, up>>
  PROVE  IInv'
<1>. USE EvaluationAssumption
<1>1. TypeOK'
  <2>1. pc' \in [Clients -> Pcs]
    BY DEF IInv, TypeOK, Leave, Pcs
  <2>2. left' \in [Clients -> 0 .. Cap] /\ down' \in [Clients -> 0 .. Cap]
    BY DEF IInv, TypeOK, Leave
  <2>3. (rst[c] \/ down[c] > 0) \in BOOLEAN
    OBVIOUS
  <2>4. rst' \in [Clients -> BOOLEAN]
    BY <2>3 DEF IInv, TypeOK, Leave
  <2>5. fin' \in [Clients -> BOOLEAN] /\ magic' \in [Clients -> BOOLEAN]
    BY DEF IInv, TypeOK, Leave
  <2>. QED  BY <2>1, <2>2, <2>4, <2>5 DEF IInv, TypeOK, serverVars
<1>2. \A d \in Clients \ {c} : Same(d)
  BY DEF IInv, TypeOK, Leave, serverVars, Same
<1>3. /\ pc'[c] = "ended" /\ left'[c] = 0 /\ fin'[c] /\ down'[c] = 0 /\ ~magic'[c]
      /\ hpc[c] = "none" => ~rst'[c]
  BY DEF IInv, TypeOK, Leave, ClientOK, Before
<1>4. Consumed(c)' = Consumed(c) /\ Consumed(c) \in 0 .. 2
  BY DEF Consumed, serverVars
<1>5. HeaderOK(c)'
  <2>1. header[c] \in 0 .. 6 /\ Written(pc[c]) \in 0 .. 6 /\ Written("ended") = 6
    BY DEF IInv, TypeOK, Written
  <2>2. HeaderOK(c)
    BY DEF IInv, ClientOK
  <2>. QED  BY <1>3, <1>4, <2>1, <2>2 DEF HeaderOK, serverVars
<1>6. Begun(c)' /\ Before(c)' /\ TypeRead(c)' /\ Timed(c)' /\ Roles(c)' /\ Echoed(c)'
  BY <1>3 DEF IInv, ClientOK, Begun, Before, TypeRead, Timed, Roles, Echoed, serverVars, Threaded
<1>. QED  BY <1>1, <1>2, <1>3, <1>5, <1>6, OwnStep DEF ClientOK, serverVars

\* The client is put into the backlog once.
LEMMA ConnectInv ==
  ASSUME IInv, NEW c \in Clients, Connect(c)  PROVE IInv'
<1>1. TypeOK'
  BY DEF IInv, TypeOK, Connect, serverVars, Pcs
<1>2. \A d \in Clients \ {c} : Same(d)
  BY DEF IInv, TypeOK, Connect, serverVars, Same
<1>3. pc[c] = "new" /\ pc'[c] = "magic" /\ c \in DOMAIN args /\ hpc[c] = "none"
  BY DEF IInv, TypeOK, Connect, ClientOK, HeaderOK
<1>4. Serving'
  BY <1>2, <1>3 DEF IInv, Serving, Connect, serverVars, Same
<1>5. Queue'
  <2>1. backlog \in Seq(Clients) /\ backlog' = Append(backlog, c)
    BY DEF IInv, TypeOK, Connect
  <2>2. \A i \in DOMAIN backlog : backlog[i] \in Clients \ {c}
    BY <1>3, <2>1 DEF IInv, Queue
  <2>3. \A i \in DOMAIN backlog' : \/ i \in DOMAIN backlog /\ backlog'[i] = backlog[i]
                                   \/ i = Len(backlog) + 1 /\ backlog'[i] = c
    BY <2>1
  <2>4. spc' # "accept" => client' # c
    BY <1>3 DEF IInv, Serving, Connect, serverVars
  <2>5. hpc' = hpc /\ client' = client /\ spc' = spc
    BY DEF Connect, serverVars
  <2>6. \A i \in DOMAIN backlog' :
          pc'[backlog'[i]] # "new" /\ hpc'[backlog'[i]] = "none" /\ (spc' # "accept" => backlog'[i] # client')
    <3>. SUFFICES ASSUME NEW i \in DOMAIN backlog'
                  PROVE  pc'[backlog'[i]] # "new" /\ hpc'[backlog'[i]] = "none" /\ (spc' # "accept" => backlog'[i] # client')
      OBVIOUS
    <3>1. CASE i \in DOMAIN backlog /\ backlog'[i] = backlog[i]
      BY <1>2, <2>2, <2>5, <3>1 DEF IInv, Queue, Same
    <3>2. CASE backlog'[i] = c
      BY <1>3, <2>4, <2>5, <3>2
    <3>. QED  BY <2>3, <3>1, <3>2
  <2>7. \A i, j \in DOMAIN backlog' : i # j => backlog'[i] # backlog'[j]
    BY <2>2, <2>3 DEF IInv, Queue
  <2>. QED  BY <2>6, <2>7 DEF Queue
<1>6. ASSUME NEW d \in Clients \ {c}  PROVE ClientOK(d)'
  BY <1>2, KeepOther DEF IInv, Connect, serverVars
<1>7. HeaderOK(c)'
  <2>1. Consumed(c)' = Consumed(c) /\ header'[c] = header[c] /\ Written(pc[c]) = 0 /\ Written(pc'[c]) = 0
    BY <1>3 DEF Consumed, Connect, serverVars, Written
  <2>. QED  BY <1>3, <2>1 DEF IInv, ClientOK, HeaderOK, Connect, serverVars
<1>8. Begun(c)' /\ Before(c)' /\ TypeRead(c)' /\ Timed(c)' /\ Roles(c)' /\ Echoed(c)'
  BY <1>3 DEF IInv, ClientOK, Begun, Before, TypeRead, Timed, Roles, Echoed, Connect, serverVars,
              Threaded
<1>. QED  BY <1>1, <1>4, <1>5, <1>6, <1>7, <1>8 DEF IInv, ClientOK

\* The three writes of the header.
LEMMA WriteHeaderInv ==
  ASSUME IInv, NEW c \in Clients, WriteHeader(c)  PROVE IInv'
<1>1. /\ hpc[c] = "none" /\ Consumed(c)' = Consumed(c) /\ Consumed(c) \in 0 .. 2
      /\ header[c] \in 0 .. 6 /\ header[c] + Consumed(c) <= Written(pc[c])
      /\ pc[c] \in {"magic", "type", "size"} /\ pc'[c] \in {"type", "size", "while"}
  <2>1. pc[c] \in {"magic", "type", "size"} /\ pc'[c] \in {"type", "size", "while"}
    BY DEF IInv, TypeOK, WriteHeader
  <2>2. Consumed(c)' = Consumed(c) /\ Consumed(c) \in 0 .. 2
    BY DEF WriteHeader, Consumed, serverVars
  <2>3. HeaderOK(c) /\ header[c] \in 0 .. 6
    BY DEF IInv, TypeOK, ClientOK
  <2>. QED  BY <2>1, <2>2, <2>3 DEF HeaderOK
<1>2. header'[c] + Consumed(c) <= Written(pc'[c]) /\ header'[c] \in 0 .. 6
  <2>1. \/ pc[c] = "magic" /\ pc'[c] = "type" /\ header'[c] = header[c] + 1
        \/ pc[c] = "type" /\ pc'[c] = "size" /\ header'[c] = header[c] + 1
        \/ pc[c] = "size" /\ pc'[c] = "while" /\ header'[c] = header[c] + 4
    BY DEF IInv, TypeOK, WriteHeader
  <2>2. /\ Written("magic") = 0 /\ Written("type") = 1 /\ Written("size") = 2
        /\ Written("while") = 6
    BY DEF Written
  <2>. QED  BY <1>1, <2>1, <2>2
<1>3. TypeOK'
  <2>1. header' \in [Clients -> 0 .. 6]
    BY <1>2 DEF IInv, TypeOK, WriteHeader
  <2>. QED  BY <2>1 DEF IInv, TypeOK, WriteHeader, serverVars, Pcs
<1>4. \A d \in Clients \ {c} : Same(d)
  BY DEF IInv, TypeOK, WriteHeader, serverVars, Same
<1>5. HeaderOK(c)'
  BY <1>1, <1>2 DEF HeaderOK, WriteHeader, serverVars
<1>6. Begun(c)' /\ Before(c)' /\ TypeRead(c)' /\ Timed(c)' /\ Roles(c)' /\ Echoed(c)'
  BY <1>1 DEF IInv, ClientOK, Begun, Before, TypeRead, Timed, Roles, Echoed, WriteHeader, serverVars,
              Threaded
<1>. QED  BY <1>1, <1>3, <1>4, <1>5, <1>6, OwnStep DEF ClientOK, serverVars, WriteHeader

\* What is known of a client that is past its header.
LEMMA PastHeader ==
  ASSUME IInv, NEW c \in Clients, pc[c] \in {"while", "read", "write"}
  PROVE  /\ c \in DOMAIN args /\ args[c].type \in Types /\ args[c].size \in 1 .. Cap
         /\ ~fin[c]
         /\ Threaded(c) => type[c] = args[c].type
         /\ Written(pc[c]) = 6 /\ Written("while") = 6 /\ Written("read") = 6
         /\ Written("write") = 6
<1>1. c \in DOMAIN args /\ ~fin[c]
  BY DEF IInv, ClientOK, Begun
<1>2. Threaded(c) => type[c] = args[c].type
  BY <1>1 DEF IInv, ClientOK, TypeRead
<1>. QED  BY <1>1, <1>2, ArgsForm DEF IInv, Written

\* A step within the loop of the client keeps what is known of the header.
LEMMA KeepHeader ==
  ASSUME IInv, NEW c \in Clients, pc[c] \in {"while", "read", "write"},
         pc'[c] \in {"while", "read", "write", "ended"},
         UNCHANGED <<serverVars, header>>
  PROVE  HeaderOK(c)'
<1>1. Consumed(c)' = Consumed(c)
  BY DEF Consumed, serverVars
<1>2. Written(pc'[c]) = Written(pc[c])
  BY DEF Written
<1>. QED  BY <1>1, <1>2 DEF IInv, ClientOK, HeaderOK, serverVars

\* The test of LOOP.
LEMMA WhileInv ==
  ASSUME IInv, NEW c \in Clients, While(c)  PROVE IInv'
<1>1. CASE Leave(c)
  BY <1>1, LeaveInv DEF While, IInv, TypeOK
<1>2. CASE /\ args[c].type = Uplink /\ StartWrite(c)
           /\ UNCHANGED <<down, magic, fin, rst>>
  <2>1. /\ pc[c] = "while" /\ pc'[c] = "write" /\ left'[c] = args[c].size
        /\ c \in DOMAIN args /\ args[c].size \in 1 .. Cap
    BY <1>2, PastHeader DEF IInv, TypeOK, While, StartWrite
  <2>2. TypeOK'
    BY <1>2, <2>1 DEF IInv, TypeOK, While, StartWrite, serverVars, Pcs
  <2>3. \A d \in Clients \ {c} : Same(d)
    BY <1>2 DEF IInv, TypeOK, While, StartWrite, serverVars, Same
  <2>4. HeaderOK(c)'
    BY <2>1, KeepHeader DEF While
  <2>5. Begun(c)' /\ Before(c)' /\ TypeRead(c)' /\ Timed(c)' /\ Roles(c)' /\ Echoed(c)'
    BY <1>2, <2>1 DEF IInv, ClientOK, Begun, Before, TypeRead, Timed, Roles, Echoed, While, serverVars,
              Threaded, Uplink, Downlink, Echo
  <2>. QED  BY <2>1, <2>2, <2>3, <2>4, <2>5, OwnStep DEF ClientOK, serverVars, While
<1>3. CASE /\ args[c].type # Uplink /\ pc' = [pc EXCEPT ![c] = "read"] /\ UNCHANGED left
           /\ UNCHANGED <<down, magic, fin, rst>>
  <2>1. pc[c] = "while" /\ pc'[c] = "read" /\ c \in DOMAIN args
    BY <1>3, PastHeader DEF IInv, TypeOK, While
  <2>2. TypeOK'
    BY <1>3, <2>1 DEF IInv, TypeOK, While, serverVars, Pcs
  <2>3. \A d \in Clients \ {c} : Same(d)
    BY <1>3 DEF IInv, TypeOK, While, serverVars, Same
  <2>4. HeaderOK(c)'
    BY <2>1, KeepHeader DEF While
  <2>5. Begun(c)' /\ Before(c)' /\ TypeRead(c)' /\ Timed(c)' /\ Roles(c)' /\ Echoed(c)'
    BY <1>3, <2>1 DEF IInv, ClientOK, Begun, Before, TypeRead, Timed, Roles, Echoed, While, serverVars,
              Threaded
  <2>. QED  BY <2>1, <2>2, <2>3, <2>4, <2>5, OwnStep DEF ClientOK, serverVars, While
<1>. QED  BY <1>1, <1>2, <1>3 DEF While

\* SIGINT while no write has handed over a part, and the end of a client.
LEMMA SignalInv ==
  ASSUME IInv, NEW c \in Clients, Interrupt(c) \/ Kill(c)  PROVE IInv'
<1>1. CASE Kill(c)
  BY <1>1, LeaveInv DEF Kill, IInv, TypeOK
<1>2. CASE Interrupt(c)
  <2>1. TypeOK'
    BY <1>2 DEF IInv, TypeOK, Interrupt, serverVars, network
  <2>2. \A d \in Clients : Same(d)
    BY <1>2 DEF Interrupt, serverVars, network, Same
  <2>3. ClientOK(c)'
    BY <1>2, <2>2, KeepOther DEF IInv, Interrupt, serverVars
  <2>. QED  BY <1>2, <2>1, <2>2, <2>3, OwnStep DEF Interrupt, serverVars, network
<1>. QED  BY <1>1, <1>2

\* A write that is over.
LEMMA WroteInv ==
  ASSUME IInv, NEW c \in Clients, pc[c] = "write", NEW n \in Nat, Wrote(c, n),
         LOOP' \in [Clients -> BOOLEAN],
         UNCHANGED <<args, BYTES_READ, clock, short, serverVars, backlog, header, up>>
  PROVE  IInv'
<1>1. BYTES_WRITTEN' \in [Clients -> CInt]
  <2>1. BYTES_WRITTEN[c] + n \in Int
    BY EvaluationAssumption DEF IInv, TypeOK, CInt
  <2>. QED  BY <2>1, WrapInt DEF IInv, TypeOK, Wrote
<1>2. CASE Leave(c)
  BY <1>1, <1>2, LeaveInv
<1>3. CASE /\ pc' = [pc EXCEPT ![c] = "while"] /\ left' = [left EXCEPT ![c] = 0]
           /\ UNCHANGED <<down, magic, fin, rst>>
  <2>1. pc'[c] = "while" /\ left'[c] = 0 /\ c \in DOMAIN args /\ args[c].size \in 1 .. Cap
    BY <1>3, PastHeader DEF IInv, TypeOK
  <2>2. TypeOK'
    BY <1>1, <1>3, EvaluationAssumption DEF IInv, TypeOK, serverVars, Pcs
  <2>3. \A d \in Clients \ {c} : Same(d)
    BY <1>3 DEF IInv, TypeOK, serverVars, Same
  <2>4. HeaderOK(c)'
    BY <2>1, KeepHeader
  <2>5. Begun(c)' /\ Before(c)' /\ TypeRead(c)' /\ Timed(c)' /\ Roles(c)'
    BY <1>3, <2>1 DEF IInv, ClientOK, Begun, Before, TypeRead, Timed, Roles, serverVars, Threaded
  <2>6. Echoed(c)'
    <3>1. /\ left[c] \in Nat /\ hleft[c] \in Nat /\ up[c] \in Nat /\ down[c] \in Nat
          /\ args[c].size \in Nat
      BY <2>1, EvaluationAssumption DEF IInv, TypeOK
    <3>. QED  BY <1>3, <2>1, <3>1 DEF IInv, ClientOK, Echoed, serverVars
  <2>. QED  BY <2>1, <2>2, <2>3, <2>4, <2>5, <2>6, OwnStep DEF ClientOK, serverVars
<1>. QED  BY <1>2, <1>3 DEF Wrote

\* write, interrupted after a part.
LEMMA InterruptWriteInv ==
  ASSUME IInv, NEW c \in Clients, InterruptWrite(c)  PROVE IInv'
<1>1. pc[c] = "write" /\ args[c].size - left[c] \in Nat /\ LOOP' \in [Clients -> BOOLEAN]
  <2>1. pc[c] = "write" /\ LOOP' \in [Clients -> BOOLEAN]
    BY DEF InterruptWrite, IInv, TypeOK
  <2>2. args[c].size \in 1 .. Cap
    BY <2>1, PastHeader
  <2>3. left[c] \in 1 .. args[c].size - 1
    BY DEF InterruptWrite
  <2>. QED  BY <2>1, <2>2, <2>3, EvaluationAssumption
<1>. QED  BY <1>1, WroteInv DEF InterruptWrite

\* The counts of a client that is past its header are numbers.
LEMMA Counts ==
  ASSUME TypeOK, NEW c \in Clients
  PROVE  /\ left[c] \in Nat /\ hleft[c] \in Nat /\ up[c] \in Nat /\ down[c] \in Nat
         /\ left[c] <= Cap /\ hleft[c] <= Cap /\ up[c] <= Cap + 3 /\ down[c] <= Cap
         /\ size[c] \in Nat /\ size[c] <= Cap /\ Cap \in Nat
BY EvaluationAssumption DEF TypeOK

\* write hands over what there is room for.
LEMMA WriteSomeInv ==
  ASSUME IInv, NEW c \in Clients, pc[c] = "write", left[c] > 0, up[c] < Cap, NEW n,
         n = Min({left[c], Cap - up[c]}),
         up' = [up EXCEPT ![c] = @ + n], left' = [left EXCEPT ![c] = @ - n],
         UNCHANGED <<args, pc, LOOP, BYTES_READ, BYTES_WRITTEN, clock, short, serverVars,
                     backlog, header, down, magic, fin, rst>>
  PROVE  IInv'
<1>1. /\ n \in Nat /\ n <= left[c] /\ up[c] + n <= Cap
      /\ left[c] \in Nat /\ hleft[c] \in Nat /\ up[c] \in Nat /\ down[c] \in Nat
      /\ left[c] <= Cap /\ Cap \in Nat
  <2>1. /\ left[c] \in Nat /\ hleft[c] \in Nat /\ up[c] \in Nat /\ down[c] \in Nat
        /\ left[c] <= Cap /\ Cap \in Nat
    BY Counts DEF IInv
  <2>2. n \in Nat /\ n <= left[c] /\ up[c] + n <= Cap
    BY <2>1, MinRoom
  <2>. QED  BY <2>1, <2>2
<1>2. up'[c] = up[c] + n /\ left'[c] = left[c] - n /\ c \in DOMAIN args /\ args[c].size \in 1 .. Cap
  BY PastHeader DEF IInv, TypeOK
<1>3. TypeOK'
  <2>1. up' \in [Clients -> 0 .. Cap + 3]
    BY <1>1 DEF IInv, TypeOK
  <2>2. left' \in [Clients -> 0 .. Cap]
    BY <1>1 DEF IInv, TypeOK
  <2>. QED  BY <2>1, <2>2 DEF IInv, TypeOK, serverVars
<1>4. \A d \in Clients \ {c} : Same(d)
  BY DEF IInv, TypeOK, serverVars, Same
<1>5. HeaderOK(c)'
  <2>1. pc'[c] = "write" /\ UNCHANGED <<serverVars, header>>
    BY DEF serverVars
  <2>. QED  BY <2>1, KeepHeader
<1>6. Before(c)'
  BY <1>1, <1>2 DEF IInv, ClientOK, Before, serverVars
<1>7. Begun(c)' /\ TypeRead(c)' /\ Timed(c)' /\ Roles(c)'
  BY <1>2 DEF IInv, ClientOK, Begun, TypeRead, Timed, Roles, serverVars, Threaded
<1>8. Echoed(c)'
  <2>1. Echoed(c) /\ args[c].size \in Nat
    BY <1>1, <1>2 DEF IInv, ClientOK
  <2>2. up'[c] + down[c] + left'[c] + hleft[c] = up[c] + down[c] + left[c] + hleft[c]
    BY <1>1, <1>2
  <2>. QED  BY <1>2, <2>1, <2>2 DEF Echoed, serverVars
<1>. QED  BY <1>3, <1>4, <1>5, <1>6, <1>7, <1>8, OwnStep DEF ClientOK, serverVars

\* write, all of it.
LEMMA WriteInv ==
  ASSUME IInv, NEW c \in Clients, Write(c)  PROVE IInv'
<1>0. pc[c] = "write" /\ LOOP' \in [Clients -> BOOLEAN]
  BY DEF Write, IInv, TypeOK
<1>1. CASE Leave(c) /\ UNCHANGED <<BYTES_WRITTEN, up>>
  BY <1>0, <1>1, LeaveInv DEF Write, IInv, TypeOK
<1>2. CASE /\ left[c] > 0 /\ up[c] < Cap
           /\ LET n == Min({left[c], Cap - up[c]}) IN
                /\ up' = [up EXCEPT ![c] = @ + n]
                /\ left' = [left EXCEPT ![c] = @ - n]
           /\ UNCHANGED <<BYTES_WRITTEN, pc, down, magic, fin, rst>>
  BY <1>0, <1>2, WriteSomeInv DEF Write
<1>3. CASE Wrote(c, args[c].size) /\ UNCHANGED up
  <2>1. args[c].size \in Nat
    BY <1>0, PastHeader, EvaluationAssumption
  <2>. QED  BY <1>0, <1>3, <2>1, WroteInv DEF Write
<1>. QED  BY <1>1, <1>2, <1>3 DEF Write

\* write to a socket the server has closed.
LEMMA WriteToClosedInv ==
  ASSUME IInv, NEW c \in Clients, WriteToClosed(c)  PROVE IInv'
<1>1. /\ pc[c] = "write" /\ pc'[c] = "write" /\ left'[c] = 0 /\ hpc[c] # "none"
      /\ c \in DOMAIN args /\ args[c].size \in 1 .. Cap
  BY PastHeader DEF IInv, TypeOK, WriteToClosed, SockClosed
<1>2. TypeOK'
  BY EvaluationAssumption DEF IInv, TypeOK, WriteToClosed, serverVars
<1>3. \A d \in Clients \ {c} : Same(d)
  BY DEF IInv, TypeOK, WriteToClosed, serverVars, Same
<1>4. HeaderOK(c)'
  BY <1>1, KeepHeader DEF WriteToClosed
<1>5. Begun(c)' /\ Before(c)' /\ TypeRead(c)' /\ Timed(c)' /\ Roles(c)'
  BY <1>1 DEF IInv, ClientOK, Begun, Before, TypeRead, Timed, Roles, WriteToClosed, serverVars, Threaded
<1>6. Echoed(c)'
  <2>1. /\ left[c] \in Nat /\ hleft[c] \in Nat /\ up[c] \in Nat /\ down[c] \in Nat
        /\ args[c].size \in Nat
    BY <1>1, Counts DEF IInv
  <2>. QED  BY <1>1, <2>1 DEF IInv, ClientOK, Echoed, WriteToClosed, serverVars
<1>. QED  BY <1>1, <1>2, <1>3, <1>4, <1>5, <1>6, OwnStep DEF ClientOK, serverVars, WriteToClosed

\* read returned n bytes.
LEMMA GotInv ==
  ASSUME IInv, NEW c \in Clients, pc[c] = "read",
         NEW n \in Nat, n <= args[c].size, n <= down[c], Got(c, n),
         UNCHANGED <<args, LOOP, BYTES_WRITTEN, serverVars, backlog, header, up>>
  PROVE  IInv'
<1>. DEFINE total == Wrap(BYTES_READ[c] + n)
<1>1. /\ c \in DOMAIN args /\ args[c].type \in Types /\ args[c].size \in 1 .. Cap /\ ~fin[c]
      /\ left[c] = 0
  BY PastHeader DEF IInv, ClientOK, Begun
<1>2. /\ hleft[c] \in Nat /\ up[c] \in Nat /\ down[c] \in Nat /\ down[c] <= Cap /\ Cap \in Nat
      /\ args[c].size \in Nat
  BY <1>1, Counts DEF IInv
<1>3. total \in CInt /\ (n = 0 => total = BYTES_READ[c])
  <2>1. BYTES_READ[c] \in CInt /\ IntHalf \in Nat
    BY EvaluationAssumption DEF IInv, TypeOK
  <2>2. BYTES_READ[c] + n \in Int /\ (n = 0 => BYTES_READ[c] + n = BYTES_READ[c])
    BY <2>1 DEF CInt
  <2>. QED  BY <2>1, <2>2, WrapInt
<1>4. short' \in [Clients -> BOOLEAN] /\ (~short'[c] => ~short[c] /\ n = args[c].size)
  <2>1. (short[c] \/ n < args[c].size) \in BOOLEAN
    OBVIOUS
  <2>2. short' = [short EXCEPT ![c] = short[c] \/ n < args[c].size]
    BY DEF Got
  <2>3. short' \in [Clients -> BOOLEAN] /\ short'[c] = (short[c] \/ n < args[c].size)
    BY <2>1, <2>2 DEF IInv, TypeOK
  <2>. QED  BY <1>2, <2>3
<1>5. down[c] # 0 => Threaded(c) /\ hpc[c] # "start"
  BY DEF IInv, ClientOK, Before, Threaded
<1>6. ~magic[c] /\ args[c].type = Downlink /\ total # 0 => clock[c]
  BY <1>1, <1>2, <1>3, <1>5 DEF IInv, ClientOK, Timed
<1>7. down[c] - n \in 0 .. Cap /\ (down[c] = 0 => n = 0)
  BY <1>2
<1>8. \A d \in Clients \ {c} : short'[d] = short[d]
  BY DEF Got, IInv, TypeOK
<1>9. CASE /\ magic[c]
           /\ clock' = [clock EXCEPT ![c] = TRUE]
           /\ pc' = [pc EXCEPT ![c] = "while"]
           /\ down' = [down EXCEPT ![c] = @ - n]
           /\ magic' = [magic EXCEPT ![c] = FALSE]
           /\ UNCHANGED <<BYTES_READ, left, fin, rst>>
  <2>1. pc'[c] = "while" /\ clock'[c] /\ ~magic'[c] /\ down'[c] = down[c] - n
    BY <1>9 DEF IInv, TypeOK
  <2>2. TypeOK'
    <3>1. down' \in [Clients -> 0 .. Cap]
      BY <1>7, <1>9 DEF IInv, TypeOK
    <3>2. clock' \in [Clients -> BOOLEAN] /\ magic' \in [Clients -> BOOLEAN] /\ pc' \in [Clients -> Pcs]
      BY <1>9 DEF IInv, TypeOK, Pcs
    <3>. QED  BY <1>4, <1>9, <3>1, <3>2 DEF IInv, TypeOK, serverVars
  <2>3. \A d \in Clients \ {c} : Same(d)
    BY <1>8, <1>9 DEF IInv, TypeOK, serverVars, Same
  <2>4. HeaderOK(c)'
    BY <2>1, KeepHeader
  <2>5. Begun(c)' /\ TypeRead(c)' /\ Timed(c)' /\ Roles(c)'
    BY <1>1, <1>9, <2>1 DEF IInv, ClientOK, Begun, TypeRead, Timed, Roles, serverVars, Threaded
  <2>6. Before(c)'
    BY <1>9 DEF IInv, ClientOK, Before, serverVars
  <2>7. Echoed(c)'
    BY <1>1, <1>2, <1>4, <1>9, <2>1 DEF IInv, ClientOK, Echoed, serverVars
  <2>. QED  BY <2>1, <2>2, <2>3, <2>4, <2>5, <2>6, <2>7, OwnStep DEF ClientOK, serverVars
<1>10. ASSUME ~magic[c], BYTES_READ' = [BYTES_READ EXCEPT ![c] = total],
              pc' = [pc EXCEPT ![c] = "ended"], fin' = [fin EXCEPT ![c] = TRUE],
              rst' = [rst EXCEPT ![c] = rst[c] \/ down[c] > n],
              down' = [down EXCEPT ![c] = 0], UNCHANGED <<left, clock, magic>>
       PROVE  IInv'
  <2>1. /\ pc'[c] = "ended" /\ fin'[c] /\ down'[c] = 0 /\ BYTES_READ'[c] = total
        /\ rst'[c] = (rst[c] \/ down[c] > n)
    BY <1>10 DEF IInv, TypeOK
  <2>2. TypeOK'
    <3>1. (rst[c] \/ down[c] > n) \in BOOLEAN
      OBVIOUS
    <3>2. rst' \in [Clients -> BOOLEAN]
      BY <1>10, <3>1 DEF IInv, TypeOK
    <3>3. BYTES_READ' \in [Clients -> CInt]
      BY <1>3, <1>10 DEF IInv, TypeOK
    <3>4. pc' \in [Clients -> Pcs] /\ down' \in [Clients -> 0 .. Cap] /\ fin' \in [Clients -> BOOLEAN]
      BY <1>2, <1>10 DEF IInv, TypeOK, Pcs
    <3>. QED  BY <1>4, <1>10, <3>2, <3>3, <3>4 DEF IInv, TypeOK, serverVars
  <2>3. \A d \in Clients \ {c} : Same(d)
    BY <1>8, <1>10 DEF IInv, TypeOK, serverVars, Same
  <2>4. HeaderOK(c)'
    BY <2>1, KeepHeader
  <2>5. Begun(c)' /\ TypeRead(c)' /\ Roles(c)' /\ Echoed(c)'
    BY <1>1, <1>10, <2>1 DEF IInv, ClientOK, Begun, TypeRead, Roles, Echoed, serverVars
  <2>6. Before(c)'
    <3>1. down[c] = 0 => ~(down[c] > n)
      BY <1>2
    <3>2. Before(c) /\ UNCHANGED <<hpc, up, magic, clock>>
      BY <1>10 DEF IInv, ClientOK, serverVars
    <3>. QED  BY <2>1, <3>1, <3>2 DEF Before
  <2>7. Timed(c)'
    BY <1>6, <1>10, <2>1 DEF IInv, ClientOK, Timed
  <2>. QED  BY <2>1, <2>2, <2>3, <2>4, <2>5, <2>6, <2>7, OwnStep DEF ClientOK, serverVars
<1>11. ASSUME ~magic[c], BYTES_READ' = [BYTES_READ EXCEPT ![c] = total],
              \/ args[c].type = Echo /\ StartWrite(c)
              \/ /\ args[c].type = Downlink
                 /\ pc' = [pc EXCEPT ![c] = "while"] /\ UNCHANGED left,
              down' = [down EXCEPT ![c] = down[c] - n], UNCHANGED <<fin, rst, clock, magic>>
       PROVE  IInv'
  <2>1. /\ down'[c] = down[c] - n /\ BYTES_READ'[c] = total /\ pc'[c] \in {"while", "write"}
        /\ pc'[c] = "write" => args[c].type = Echo /\ left'[c] = args[c].size
        /\ pc'[c] = "while" => left'[c] = 0 /\ args[c].type = Downlink
    BY <1>1, <1>11 DEF IInv, TypeOK, StartWrite
  <2>2. TypeOK'
    <3>1. down' \in [Clients -> 0 .. Cap]
      BY <1>7, <1>11 DEF IInv, TypeOK
    <3>2. BYTES_READ' \in [Clients -> CInt]
      BY <1>3, <1>11 DEF IInv, TypeOK
    <3>3. pc' \in [Clients -> Pcs] /\ left' \in [Clients -> 0 .. Cap]
      <4>1. pc \in [Clients -> Pcs] /\ left \in [Clients -> 0 .. Cap]
        BY DEF IInv, TypeOK
      <4>2. CASE StartWrite(c)
        BY <1>1, <4>1, <4>2 DEF Pcs, StartWrite
      <4>3. CASE pc' = [pc EXCEPT ![c] = "while"] /\ UNCHANGED left
        BY <4>1, <4>3 DEF Pcs
      <4>. QED  BY <1>11, <4>2, <4>3
    <3>. QED  BY <1>4, <1>11, <3>1, <3>2, <3>3 DEF IInv, TypeOK, serverVars
  <2>3. \A d \in Clients \ {c} : Same(d)
    BY <1>8, <1>11 DEF IInv, TypeOK, serverVars, Same, StartWrite
  <2>4. HeaderOK(c)'
    BY <2>1, KeepHeader
  <2>5. Begun(c)' /\ TypeRead(c)' /\ Roles(c)'
    BY <1>1, <1>11, <2>1 DEF IInv, ClientOK, Begun, TypeRead, Roles, serverVars, Threaded, Echo, Downlink
  <2>6. Before(c)'
    BY <1>5, <1>7, <1>11, <2>1, <1>2 DEF IInv, ClientOK, Before, serverVars, Threaded
  <2>7. Timed(c)'
    BY <1>1, <1>6, <1>11, <2>1 DEF IInv, ClientOK, Timed, serverVars, Threaded
  <2>8. Echoed(c)'
    <3>. SUFFICES ASSUME args[c].type = Echo, ~short'[c]
                  PROVE  /\ up[c] + down'[c] + left'[c] + hleft[c] <= args[c].size
                         /\ hpc[c] \notin {"none", "refused", "start", "generate"}
      BY DEF Echoed, serverVars
    <3>1. ~short[c] /\ n = args[c].size /\ n # 0
      BY <1>1, <1>4
    <3>2. /\ up[c] + down[c] + left[c] + hleft[c] <= args[c].size
          /\ hpc[c] \in {"none", "refused", "start", "generate"} => down[c] = 0
      BY <1>1, <3>1 DEF IInv, ClientOK, Echoed
    <3>3. left'[c] = args[c].size
      <4>1. args[c].type # Downlink
        BY DEF Echo, Downlink
      <4>. QED  BY <2>1, <4>1
    <3>. QED  BY <1>1, <1>2, <1>7, <2>1, <3>1, <3>2, <3>3
  <2>. QED  BY <2>1, <2>2, <2>3, <2>4, <2>5, <2>6, <2>7, <2>8, OwnStep DEF ClientOK, serverVars
<1>. QED  BY <1>9, <1>10, <1>11 DEF Got

\* read.
LEMMA ReadInv ==
  ASSUME IInv, NEW c \in Clients, Read(c)  PROVE IInv'
<1>0. pc[c] = "read" /\ args[c].size \in Nat /\ down[c] \in Nat
  <2>1. pc[c] = "read"
    BY DEF Read
  <2>. QED  BY <2>1, PastHeader, Counts, EvaluationAssumption DEF IInv
<1>1. CASE \E n \in 1 .. args[c].size : n <= down[c] /\ Got(c, n)
  <2>1. PICK n \in 1 .. args[c].size : n <= down[c] /\ Got(c, n)
    BY <1>1
  <2>2. n \in Nat /\ n <= args[c].size
    BY <1>0
  <2>. QED  BY <1>0, <2>1, <2>2, GotInv DEF Read
<1>2. CASE Got(c, 0)
  BY <1>0, <1>2, GotInv DEF Read
<1>3. CASE Leave(c) /\ UNCHANGED <<BYTES_READ, clock, short>>
  BY <1>0, <1>3, LeaveInv DEF Read, IInv, TypeOK
<1>. QED  BY <1>1, <1>2, <1>3 DEF Read

-----------------------------------------------------------------------------
(***************************************************************************)
(* The server: run.                                                        *)
(***************************************************************************)

\* What a step that reads a part of the header has to show.
LEMMA HeaderStep ==
  ASSUME IInv, spc # "accept", TypeOK',
         <<args, client, backlog, pc>>' = <<args, client, backlog, pc>>,
         spc' # "accept" => hpc' = hpc,
         \A d \in Clients \ {client} : Same(d),
         ClientOK(client)'
  PROVE  IInv'
<1>1. client \in Clients /\ pc[client] # "new" /\ hpc[client] = "none"
  BY DEF IInv, Serving
<1>2. Serving'
  BY <1>1 DEF Serving
<1>3. Queue'
  <2>1. \A i \in DOMAIN backlog : backlog[i] \in Clients \ {client}
    BY DEF IInv, TypeOK, Queue
  <2>. QED  BY <2>1 DEF IInv, Queue, Same
<1>4. ASSUME NEW d \in Clients \ {client}  PROVE ClientOK(d)'
  BY KeepOther DEF IInv
<1>. QED  BY <1>1, <1>2, <1>3, <1>4 DEF IInv

\* accept.
LEMMA AcceptInv == IInv /\ Accept => IInv'
<1>. SUFFICES ASSUME IInv, Accept  PROVE IInv'
  OBVIOUS
<1>1. /\ backlog \in Seq(Clients) /\ backlog # <<>> /\ client' = Head(backlog)
      /\ backlog' = Tail(backlog) /\ spc = "accept" /\ spc' = "magic"
      /\ UNCHANGED <<pc, hpc, args>>
  BY DEF Accept, IInv, TypeOK, clientVars
<1>2. /\ Head(backlog) = backlog[1] /\ 1 \in DOMAIN backlog /\ backlog[1] \in Clients
      /\ Tail(backlog) \in Seq(Clients)
      /\ \A i \in DOMAIN Tail(backlog) :
           i + 1 \in DOMAIN backlog /\ i + 1 # 1 /\ Tail(backlog)[i] = backlog[i + 1]
  BY <1>1
<1>3. TypeOK'
  <2>1. backlog' \in Seq(Clients) /\ client' \in Clients
    BY <1>1, <1>2
  <2>. QED  BY <1>1, <2>1 DEF IInv, TypeOK, Accept, clientVars
<1>4. Serving'
  BY <1>1, <1>2 DEF IInv, Queue, Serving
<1>5. Queue'
  <2>1. ASSUME NEW i \in DOMAIN Tail(backlog)
        PROVE  /\ pc[Tail(backlog)[i]] # "new" /\ hpc[Tail(backlog)[i]] = "none"
               /\ Tail(backlog)[i] # backlog[1]
    BY <1>2 DEF IInv, Queue
  <2>2. ASSUME NEW i \in DOMAIN Tail(backlog), NEW j \in DOMAIN Tail(backlog), i # j
        PROVE  Tail(backlog)[i] # Tail(backlog)[j]
    <3>1. i \in Nat /\ j \in Nat
      BY <1>2
    <3>2. i + 1 # j + 1
      BY <2>2, <3>1
    <3>. QED  BY <1>2, <3>2 DEF IInv, Queue
  <2>. QED  BY <1>1, <1>2, <2>1, <2>2 DEF Queue
<1>6. ASSUME NEW d \in Clients  PROVE ClientOK(d)'
  <2>1. Same(d)
    BY DEF Accept, clientVars, Same
  <2>. QED  BY <1>1, <2>1, KeepOther DEF IInv
<1>. QED  BY <1>3, <1>4, <1>5, <1>6 DEF IInv

\* What is known of the client whose header is being read.
LEMMA BeingRead ==
  ASSUME IInv, spc # "accept"
  PROVE  /\ client \in Clients /\ pc[client] # "new" /\ hpc[client] = "none"
         /\ client \in DOMAIN args /\ args[client].type \in Types
         /\ args[client].size \in 1 .. Cap
         /\ fin[client] <=> pc[client] = "ended"
         /\ header[client] \in Nat
         /\ header[client] + Consumed(client) <= Written(pc[client])
         /\ Written(pc[client]) \in {0, 1, 2, 6}
<1>1. client \in Clients /\ pc[client] # "new" /\ hpc[client] = "none"
  BY DEF IInv, Serving
<1>2. header[client] \in Nat
  <2>1. header \in [Clients -> 0 .. 6]
    BY DEF IInv, TypeOK
  <2>. QED  BY <1>1, <2>1
<1>3. ClientOK(client)
  BY <1>1 DEF IInv
<1>. QED  BY <1>1, <1>2, <1>3, ArgsForm DEF IInv, ClientOK, Begun, HeaderOK, Written

\* The magic number.
LEMMA ReadMagicInv == IInv /\ ReadMagic => IInv'
<1>. SUFFICES ASSUME IInv, ReadMagic  PROVE IInv'
  OBVIOUS
<1>1. PICK c : c = client
  OBVIOUS
<1>2. /\ spc = "magic" /\ c \in Clients /\ pc[c] # "new" /\ hpc[c] = "none" /\ c \in DOMAIN args
      /\ header[c] \in Nat /\ header[c] <= Written(pc[c]) /\ header[c] <= 6
      /\ fin[c] <=> pc[c] = "ended"
  <2>1. spc = "magic" /\ Consumed(client) = 0
    BY DEF ReadMagic, Consumed
  <2>2. header[client] \in 0 .. 6
    BY <2>1, BeingRead DEF IInv, TypeOK
  <2>. QED  BY <1>1, <2>1, <2>2, BeingRead
<1>3. ClientOK(c)
  BY <1>2 DEF IInv
<1>4. CASE /\ header[c] > 0
           /\ header' = [header EXCEPT ![c] = @ - 1]
           /\ spc' = "type" /\ UNCHANGED <<conn, hpc>>
  <2>1. header'[c] = header[c] - 1 /\ Consumed(c)' = 1 /\ client' = c
    BY <1>1, <1>2, <1>4 DEF IInv, TypeOK, ReadMagic, Consumed
  <2>2. header' \in [Clients -> 0 .. 6]
    BY <1>2, <1>4 DEF IInv, TypeOK
  <2>3. TypeOK'
    BY <1>4, <2>2 DEF IInv, TypeOK, ReadMagic, clientVars
  <2>4. \A d \in Clients \ {c} : Same(d)
    BY <1>4 DEF IInv, TypeOK, ReadMagic, clientVars, Same
  <2>5. HeaderOK(c)'
    <3>1. header'[c] + 1 <= Written(pc[c])
      BY <1>2, <1>4, <2>1 DEF Written
    <3>. QED  BY <1>2, <1>4, <2>1, <3>1 DEF HeaderOK, ReadMagic, clientVars
  <2>6. Begun(c)' /\ Before(c)' /\ TypeRead(c)' /\ Timed(c)' /\ Roles(c)' /\ Echoed(c)'
    BY <1>2, <1>3, <1>4 DEF ClientOK, Begun, Before, TypeRead, Timed, Roles, Echoed, ReadMagic,
                            clientVars, Threaded
  <2>. QED  BY <1>1, <1>2, <1>4, <2>1, <2>3, <2>4, <2>5, <2>6, HeaderStep DEF ClientOK, ReadMagic, clientVars
<1>5. CASE /\ NoMore
           /\ conn' = Nobody /\ hpc' = [hpc EXCEPT ![c] = "refused"]
           /\ spc' = "accept" /\ UNCHANGED header
  <2>1. hpc'[c] = "refused" /\ header[c] = 0 /\ fin[c] /\ pc[c] = "ended"
    BY <1>1, <1>2, <1>5 DEF IInv, TypeOK, NoMore
  <2>2. TypeOK'
    BY <1>5, <1>2 DEF IInv, TypeOK, ReadMagic, clientVars, Hpcs
  <2>3. \A d \in Clients \ {c} : Same(d)
    BY <1>5 DEF IInv, TypeOK, ReadMagic, clientVars, Same
  <2>4. HeaderOK(c)'
    BY <1>5, <2>1 DEF HeaderOK, ReadMagic, clientVars
  <2>5. Begun(c)' /\ Before(c)' /\ TypeRead(c)' /\ Timed(c)' /\ Roles(c)' /\ Echoed(c)'
    BY <1>2, <1>3, <1>5, <2>1 DEF ClientOK, Begun, Before, TypeRead, Timed, Roles, Echoed, ReadMagic,
                            clientVars, Threaded
  <2>. QED  BY <1>1, <1>2, <1>5, <2>2, <2>3, <2>4, <2>5, HeaderStep DEF ClientOK, ReadMagic, clientVars
<1>. QED  BY <1>1, <1>4, <1>5 DEF ReadMagic

\* The type.
LEMMA ReadTypeInv == IInv /\ ReadType => IInv'
<1>. SUFFICES ASSUME IInv, ReadType  PROVE IInv'
  OBVIOUS
<1>1. PICK c : c = client
  OBVIOUS
<1>2. /\ spc = "type" /\ spc' = "size" /\ client' = c /\ Consumed(c)' = 2
      /\ c \in Clients /\ pc[c] # "new" /\ hpc[c] = "none" /\ c \in DOMAIN args
      /\ args[c].type \in Types /\ header[c] \in Nat /\ header[c] + 1 <= Written(pc[c])
      /\ fin[c] <=> pc[c] = "ended"
  <2>1. spc = "type" /\ Consumed(client) = 1
    BY DEF ReadType, Consumed
  <2>2. spc' = "size" /\ client' = c /\ Consumed(c)' = 2
    BY <1>1 DEF ReadType, Consumed
  <2>. QED  BY <1>1, <2>1, <2>2, BeingRead
<1>3. ClientOK(c)
  BY <1>2 DEF IInv
<1>4. /\ header' \in [Clients -> 0 .. 6] /\ type' \in [Clients -> Types]
      /\ header'[c] + 2 <= Written(pc[c]) /\ (fin[c] \/ type'[c] = args[c].type)
      /\ \A d \in Clients \ {c} : header'[d] = header[d] /\ type'[d] = type[d]
  <2>0. header \in [Clients -> 0 .. 6] /\ type \in [Clients -> Types]
    BY DEF IInv, TypeOK
  <2>1. CASE /\ header[c] > 0
             /\ header' = [header EXCEPT ![c] = @ - 1]
             /\ type' = [type EXCEPT ![c] = args[c].type]
    BY <1>2, <2>0, <2>1
  <2>2. CASE /\ header[c] = 0 /\ fin[c]
             /\ type' = [type EXCEPT ![c] = Uplink] /\ UNCHANGED header
    BY <1>2, <2>0, <2>2 DEF Types, Written
  <2>. QED  BY <1>1, <2>1, <2>2 DEF ReadType, NoMore
<1>5. TypeOK'
  <2>1. client' \in Clients \cup {Nobody} /\ conn' \in Clients \cup {Nobody}
    BY <1>2 DEF IInv, TypeOK, ReadType
  <2>2. {client', conn'} \subseteq Clients \cup {Nobody} /\ spc' \in {"accept", "magic", "type", "size"}
    BY <1>2, <2>1
  <2>. QED  BY <1>4, <2>2 DEF IInv, TypeOK, ReadType, clientVars
<1>6. \A d \in Clients \ {c} : Same(d)
  BY <1>4 DEF ReadType, clientVars, Same
<1>7. HeaderOK(c)'
  BY <1>2, <1>4 DEF HeaderOK, ReadType, clientVars
<1>8. Begun(c)' /\ Before(c)' /\ TypeRead(c)' /\ Timed(c)' /\ Roles(c)' /\ Echoed(c)'
  BY <1>2, <1>3, <1>4 DEF ClientOK, Begun, Before, TypeRead, Timed, Roles, Echoed, ReadType,
                          clientVars, Threaded
<1>. QED  BY <1>1, <1>2, <1>5, <1>6, <1>7, <1>8, HeaderStep DEF ClientOK, ReadType, clientVars

\* The size, or a part of it.
LEMMA ReadSizeInv == IInv /\ ReadSize => IInv'
<1>. SUFFICES ASSUME IInv, ReadSize  PROVE IInv'
  OBVIOUS
<1>1. PICK c : c = client
  OBVIOUS
<1>2. /\ spc = "size" /\ spc' = "accept" /\ client' = c /\ conn' = c
      /\ c \in Clients /\ pc[c] # "new" /\ hpc[c] = "none" /\ c \in DOMAIN args
      /\ args[c].size \in 1 .. Cap
      /\ header[c] \in Nat /\ header[c] + 2 <= Written(pc[c]) /\ header[c] <= 4
      /\ fin[c] <=> pc[c] = "ended"
  <2>1. spc = "size" /\ Consumed(client) = 2
    BY DEF ReadSize, Consumed
  <2>2. spc' = "accept" /\ client' = c /\ conn' = c
    BY <1>1 DEF ReadSize
  <2>. QED  BY <1>1, <2>1, <2>2, BeingRead
<1>3. ClientOK(c)
  BY <1>2 DEF IInv
<1>4. up[c] \in Nat /\ up[c] <= Cap /\ Cap \in Nat
  BY <1>2, <1>3, Counts DEF IInv, ClientOK, Before
<1>5. /\ size' \in [Clients -> 0 .. Cap] /\ up' \in [Clients -> 0 .. Cap + 3]
      /\ header' \in [Clients -> 0 .. 6] /\ short' \in [Clients -> BOOLEAN]
      /\ header'[c] = 0 /\ pc[c] \in {"while", "read", "write", "ended"}
      /\ ~fin[c] /\ ~short'[c] => up'[c] = up[c] /\ ~short[c]
      /\ ~fin[c] => size'[c] <= args[c].size
      /\ \A d \in Clients \ {c} : /\ up'[d] = up[d] /\ header'[d] = header[d]
                                  /\ short'[d] = short[d] /\ size'[d] = size[d]
  <2>0. /\ header \in [Clients -> 0 .. 6] /\ size \in [Clients -> 0 .. Cap]
        /\ up \in [Clients -> 0 .. Cap + 3] /\ short \in [Clients -> BOOLEAN]
        /\ pc[c] \in Pcs
    BY <1>2 DEF IInv, TypeOK
  <2>1. ASSUME NEW k \in 1 .. header[c],
               size' = [size EXCEPT ![c] = args[c].size % Weight[k]],
               up' = [up EXCEPT ![c] = up[c] + header[c] - k],
               header' = [header EXCEPT ![c] = 0],
               short' = [short EXCEPT ![c] = short[c] \/ k < 4]
        PROVE  <1>5!:
    <3>1. k \in 1 .. 4 /\ up[c] + header[c] - k \in 0 .. Cap + 3
      BY <1>2, <1>4
    <3>2. args[c].size % Weight[k] \in 0 .. Cap /\ args[c].size % Weight[k] <= args[c].size
      <4>1. args[c].size \in Nat /\ args[c].size <= Cap
        BY <1>2, <1>4
      <4>2. args[c].size % Weight[k] \in 0 .. args[c].size
        BY <3>1, <4>1, WeightKeeps
      <4>. QED  BY <1>4, <4>1, <4>2
    <3>3. pc[c] \in {"while", "read", "write", "ended"}
      BY <1>2, <2>0 DEF Written, Pcs
    <3>4. (short[c] \/ k < 4) \in BOOLEAN
      OBVIOUS
    <3>5. short' \in [Clients -> BOOLEAN] /\ short'[c] = (short[c] \/ k < 4)
      BY <1>2, <2>0, <2>1, <3>4
    <3>6. ~short'[c] => up[c] + header[c] - k = up[c] /\ ~short[c]
      BY <1>2, <1>4, <3>1, <3>5
    <3>7. size' \in [Clients -> 0 .. Cap] /\ up' \in [Clients -> 0 .. Cap + 3]
      BY <2>0, <2>1, <3>1, <3>2
    <3>8. /\ header' \in [Clients -> 0 .. 6] /\ header'[c] = 0 /\ up'[c] = up[c] + header[c] - k
          /\ size'[c] = args[c].size % Weight[k]
      BY <1>2, <2>0, <2>1
    <3>9. \A d \in Clients \ {c} : /\ up'[d] = up[d] /\ header'[d] = header[d]
                                  /\ short'[d] = short[d] /\ size'[d] = size[d]
      BY <2>0, <2>1
    <3>. QED  BY <3>2, <3>3, <3>5, <3>6, <3>7, <3>8, <3>9
  <2>2. CASE /\ header[c] = 0 /\ fin[c]
             /\ size' = [size EXCEPT ![c] = 0]
             /\ UNCHANGED <<up, header, short>>
    BY <1>2, <1>4, <2>0, <2>2
  <2>. QED  BY <1>1, <2>1, <2>2 DEF ReadSize, NoMore
<1>6. hpc' = [hpc EXCEPT ![c] = "start"] /\ hpc'[c] = "start"
  BY <1>1, <1>2 DEF IInv, TypeOK, ReadSize
<1>7. TypeOK'
  <2>1. hpc' \in [Clients -> Hpcs]
    BY <1>6 DEF IInv, TypeOK, Hpcs
  <2>2. {client', conn'} \subseteq Clients \cup {Nobody} /\ spc' \in {"accept", "magic", "type", "size"}
    BY <1>2
  <2>. QED  BY <1>5, <2>1, <2>2 DEF IInv, TypeOK, ReadSize, clientVars
<1>8. \A d \in Clients \ {c} : Same(d)
  BY <1>5, <1>6 DEF IInv, TypeOK, ReadSize, clientVars, Same
<1>9. HeaderOK(c)'
  BY <1>5, <1>6 DEF HeaderOK, ReadSize, clientVars
<1>10. Begun(c)' /\ Before(c)' /\ Timed(c)' /\ Roles(c)'
  BY <1>2, <1>3, <1>6 DEF ClientOK, Begun, Before, Timed, Roles, ReadSize, clientVars, Threaded
<1>11. TypeRead(c)'
  BY <1>1, <1>2, <1>3, <1>5 DEF ClientOK, TypeRead, ReadSize, clientVars
<1>12. Echoed(c)'
  BY <1>2, <1>3, <1>5 DEF ClientOK, Echoed, ReadSize, clientVars
<1>. QED  BY <1>1, <1>2, <1>7, <1>8, <1>9, <1>10, <1>11, <1>12, HeaderStep DEF ClientOK, ReadSize, clientVars

-----------------------------------------------------------------------------
(***************************************************************************)
(* The server: handle_client.                                              *)
(***************************************************************************)

\* What every step of the thread of c knows and keeps.
LEMMA HandlerKnows ==
  ASSUME IInv, NEW c \in Clients, hpc[c] \in {"start", "generate", "send", "recv"}
  PROVE  /\ pc[c] \in {"while", "read", "write", "ended"} /\ header[c] = 0 /\ c \in DOMAIN args
         /\ args[c].size \in Nat
         /\ ~fin[c] => type[c] = args[c].type /\ size[c] <= args[c].size
         /\ pc[c] # "new"
         /\ type[c] \in Types /\ Threaded(c)
<1>1. ClientOK(c) /\ Threaded(c) /\ type[c] \in Types
  BY DEF IInv, TypeOK, Threaded
<1>2. pc[c] \in {"while", "read", "write", "ended"} /\ header[c] = 0
  BY <1>1 DEF ClientOK, HeaderOK
<1>3. c \in DOMAIN args
  BY <1>1, <1>2 DEF ClientOK, Begun
<1>4. args[c].size \in Nat
  BY <1>3, ArgsForm, EvaluationAssumption DEF IInv
<1>. QED  BY <1>1, <1>2, <1>3, <1>4 DEF ClientOK, TypeRead

\* The greeting.
LEMMA StartInv ==
  ASSUME IInv, NEW c \in Clients, Start(c)  PROVE IInv'
<1>1. /\ hpc[c] = "start" /\ hpc'[c] = (IF type[c] = Uplink THEN "recv" ELSE "generate")
      /\ hpc' \in [Clients -> Hpcs]
      /\ \A d \in Clients \ {c} : hpc'[d] = hpc[d]
  BY DEF IInv, TypeOK, Start, Goto, Hpcs
<1>2. ClientOK(c)
  BY DEF IInv
<1>3. CASE /\ Greeted(type[c])
           /\ down' = [down EXCEPT ![c] = IF fin[c] THEN 0 ELSE 1]
           /\ magic' = [magic EXCEPT ![c] = ~fin[c]]
           /\ rst' = [rst EXCEPT ![c] = @ \/ fin[c]]
  <2>1. (~fin[c]) \in BOOLEAN /\ (rst[c] \/ fin[c]) \in BOOLEAN
    OBVIOUS
  <2>2. magic' \in [Clients -> BOOLEAN] /\ rst' \in [Clients -> BOOLEAN] /\ magic'[c] = ~fin[c]
    BY <1>3, <2>1 DEF IInv, TypeOK
  <2>3. down' \in [Clients -> 0 .. Cap]
    <3>1. (IF fin[c] THEN 0 ELSE 1) \in 0 .. Cap
      BY EvaluationAssumption
    <3>. QED  BY <1>3, <3>1 DEF IInv, TypeOK
  <2>4. TypeOK'
    BY <1>1, <2>2, <2>3 DEF IInv, TypeOK, Start, clientVars
  <2>5. \A d \in Clients \ {c} : Same(d)
    BY <1>1, <1>3 DEF IInv, TypeOK, Start, clientVars, Same
  <2>6. HeaderOK(c)'
    BY <1>1, HandlerKnows DEF HeaderOK, Start, clientVars
  <2>7. Begun(c)' /\ Before(c)' /\ TypeRead(c)' /\ Roles(c)'
    BY <1>1, <1>2 DEF ClientOK, Begun, Before, TypeRead, Roles, Start, clientVars, Threaded
  <2>8. Timed(c)'
    BY <1>1, <1>2, <2>2 DEF ClientOK, Before, Timed, Start, clientVars
  <2>9. Echoed(c)'
    <3>1. ~fin[c] => args[c].type # Echo
      BY <1>1, <1>3, HandlerKnows DEF Greeted, Uplink, Downlink, Echo
    <3>. QED  BY <3>1 DEF Echoed, Start, clientVars
  <2>. QED  BY <1>1, <2>4, <2>5, <2>6, <2>7, <2>8, <2>9, OwnStep, HandlerKnows
            DEF ClientOK, Start, clientVars
<1>4. CASE ~Greeted(type[c]) /\ UNCHANGED <<down, magic, rst>>
  <2>1. TypeOK'
    BY <1>1, <1>4 DEF IInv, TypeOK, Start, clientVars
  <2>2. \A d \in Clients \ {c} : Same(d)
    BY <1>1, <1>4 DEF Start, clientVars, Same
  <2>3. HeaderOK(c)'
    BY <1>1, HandlerKnows DEF HeaderOK, Start, clientVars
  <2>4. Begun(c)' /\ Before(c)' /\ TypeRead(c)' /\ Roles(c)'
    BY <1>1, <1>2 DEF ClientOK, Begun, Before, TypeRead, Roles, Start, clientVars, Threaded
  <2>5. Timed(c)'
    <3>1. ~fin[c] => args[c].type # Downlink
      BY <1>1, <1>4, HandlerKnows DEF Greeted
    <3>. QED  BY <1>1, <1>2, <1>4, <3>1 DEF ClientOK, Before, Timed, Start, clientVars
  <2>6. Echoed(c)'
    BY <1>1, <1>2, <1>4 DEF ClientOK, Echoed, Start, clientVars
  <2>. QED  BY <1>1, <2>1, <2>2, <2>3, <2>4, <2>5, <2>6, OwnStep, HandlerKnows
            DEF ClientOK, Start, clientVars
<1>. QED  BY <1>3, <1>4 DEF Start

\* A buffer of random bytes.
LEMMA GenerateInv ==
  ASSUME IInv, NEW c \in Clients, NEW n \in 0 .. Cap, Generate(c, n)  PROVE IInv'
<1>1. /\ hpc[c] = "generate" /\ hpc'[c] = "send" /\ hleft'[c] = n
      /\ hpc' \in [Clients -> Hpcs] /\ hleft' \in [Clients -> 0 .. Cap]
      /\ \A d \in Clients \ {c} : hpc'[d] = hpc[d] /\ hleft'[d] = hleft[d]
  BY DEF IInv, TypeOK, Generate, Goto, Hpcs
<1>2. ClientOK(c)
  BY DEF IInv
<1>3. TypeOK'
  BY <1>1 DEF IInv, TypeOK, Generate, clientVars, network
<1>4. \A d \in Clients \ {c} : Same(d)
  BY <1>1 DEF Generate, clientVars, network, Same
<1>5. HeaderOK(c)'
  BY <1>1, HandlerKnows DEF HeaderOK, Generate, clientVars, network
<1>6. Begun(c)' /\ Before(c)' /\ TypeRead(c)' /\ Roles(c)' /\ Timed(c)'
  BY <1>1, <1>2 DEF ClientOK, Begun, Before, TypeRead, Roles, Timed, Generate, clientVars, network, Threaded
<1>7. Echoed(c)'
  <2>1. n \in Nat /\ n <= size[c] /\ size[c] \in Nat
    <3>1. size[c] \in Nat /\ MaxDropped \in Nat /\ n \in Nat
      BY Counts, EvaluationAssumption DEF IInv
    <3>. QED  BY <3>1 DEF Generate
  <2>2. left[c] \in Nat /\ (left[c] # 0 => pc[c] = "write")
    BY <1>2, Counts DEF IInv, ClientOK, Begun
  <2>3. ~fin[c] => n <= args[c].size
    BY <1>1, <2>1, HandlerKnows
  <2>. QED  BY <1>1, <1>2, <2>1, <2>2, <2>3 DEF ClientOK, Echoed, Generate, clientVars, network
<1>. QED  BY <1>1, <1>3, <1>4, <1>5, <1>6, <1>7, OwnStep, HandlerKnows
          DEF ClientOK, Generate, clientVars, network

\* sendall.
LEMMA SendAllInv ==
  ASSUME IInv, NEW c \in Clients, SendAll(c)  PROVE IInv'
<1>1. hpc[c] = "send" /\ hpc \in [Clients -> Hpcs] /\ hleft \in [Clients -> 0 .. Cap]
  BY DEF IInv, TypeOK, SendAll
<1>2. ClientOK(c)
  BY DEF IInv
<1>3. /\ left[c] \in Nat /\ hleft[c] \in Nat /\ up[c] \in Nat /\ down[c] \in Nat
      /\ down[c] <= Cap /\ hleft[c] <= Cap /\ Cap \in Nat /\ args[c].size \in Nat
  BY <1>1, Counts, HandlerKnows DEF IInv
<1>4. /\ hpc' \in [Clients -> Hpcs] /\ hleft' \in [Clients -> 0 .. Cap]
      /\ down' \in [Clients -> 0 .. Cap] /\ rst' \in [Clients -> BOOLEAN]
      /\ hpc'[c] \in {"send", "done", "recv", "generate"} /\ (hleft'[c] # 0 => hpc'[c] = "send")
      /\ hpc'[c] = "generate" => type[c] # Echo /\ type[c] # Uplink
      /\ ~fin[c] => down'[c] + hleft'[c] <= down[c] + hleft[c] /\ down'[c] \in Nat /\ hleft'[c] \in Nat
      /\ \A d \in Clients \ {c} : /\ hpc'[d] = hpc[d] /\ hleft'[d] = hleft[d]
                                  /\ down'[d] = down[d] /\ rst'[d] = rst[d]
  <2>0. down \in [Clients -> 0 .. Cap] /\ rst \in [Clients -> BOOLEAN]
    BY DEF IInv, TypeOK
  <2>1. CASE /\ hleft' = [hleft EXCEPT ![c] = 0]
             /\ Goto(c, "done") /\ UNCHANGED <<down, rst>>
    BY <1>1, <1>3, <2>0, <2>1 DEF Goto, Hpcs
  <2>2. CASE /\ fin[c] /\ hleft' = [hleft EXCEPT ![c] = 0] /\ rst' = [rst EXCEPT ![c] = TRUE]
             /\ UNCHANGED <<hpc, down>>
    BY <1>1, <1>3, <2>0, <2>2 DEF Hpcs
  <2>3. CASE /\ down[c] < Cap
             /\ LET n == Min({hleft[c], Cap - down[c]}) IN
                  /\ down' = [down EXCEPT ![c] = @ + n]
                  /\ hleft' = [hleft EXCEPT ![c] = @ - n]
             /\ UNCHANGED <<hpc, rst>>
    <3>1. PICK n : n = Min({hleft[c], Cap - down[c]})
      OBVIOUS
    <3>2. down' = [down EXCEPT ![c] = down[c] + n] /\ hleft' = [hleft EXCEPT ![c] = hleft[c] - n]
      BY <2>3, <3>1
    <3>3. n \in Nat /\ n <= hleft[c] /\ down[c] + n <= Cap
      BY <1>3, <2>3, <3>1, MinRoom
    <3>4. down[c] + n \in 0 .. Cap /\ hleft[c] - n \in 0 .. Cap
      BY <1>3, <3>3
    <3>5. down'[c] = down[c] + n /\ hleft'[c] = hleft[c] - n
      BY <1>1, <2>0, <3>2
    <3>6. down'[c] + hleft'[c] = down[c] + hleft[c] /\ down'[c] \in Nat /\ hleft'[c] \in Nat
      BY <1>3, <3>3, <3>5
    <3>7. down' \in [Clients -> 0 .. Cap] /\ hleft' \in [Clients -> 0 .. Cap]
      BY <1>1, <2>0, <3>2, <3>4
    <3>8. \A d \in Clients \ {c} : hleft'[d] = hleft[d] /\ down'[d] = down[d]
      BY <1>1, <2>0, <3>2
    <3>9. down'[c] + hleft'[c] <= down[c] + hleft[c]
      BY <1>3, <3>6
    <3>. QED  BY <1>1, <2>0, <2>3, <3>6, <3>7, <3>8, <3>9 DEF Hpcs
  <2>4. CASE /\ hleft[c] = 0 /\ Goto(c, IF type[c] = Echo THEN "recv" ELSE "generate")
             /\ UNCHANGED <<hleft, down, rst>>
    <3>1. type[c] # Uplink
      BY <1>1, <1>2 DEF ClientOK, Roles
    <3>. QED  BY <1>1, <1>3, <2>0, <2>4, <3>1 DEF Goto, Hpcs
  <2>. QED  BY <2>1, <2>2, <2>3, <2>4 DEF SendAll
<1>5. TypeOK'
  BY <1>4 DEF IInv, TypeOK, SendAll, clientVars
<1>6. \A d \in Clients \ {c} : Same(d)
  BY <1>4 DEF SendAll, clientVars, Same
<1>7. HeaderOK(c)'
  BY <1>1, <1>4, HandlerKnows DEF HeaderOK, SendAll, clientVars
<1>8. Begun(c)' /\ Before(c)' /\ TypeRead(c)' /\ Roles(c)' /\ Timed(c)'
  BY <1>1, <1>2, <1>4 DEF ClientOK, Begun, Before, TypeRead, Roles, Timed, SendAll, clientVars, Threaded
<1>9. Echoed(c)'
  <2>. SUFFICES ASSUME c \in DOMAIN args, args[c].type = Echo, ~short[c], ~fin[c]
                PROVE  /\ up[c] + down'[c] + left[c] + hleft'[c] <= args[c].size
                       /\ hpc'[c] \notin {"none", "refused", "start", "generate"}
    BY DEF Echoed, SendAll, clientVars
  <2>1. up[c] + down[c] + left[c] + hleft[c] <= args[c].size
    BY <1>2 DEF ClientOK, Echoed
  <2>2. type[c] = Echo
    BY <1>1, HandlerKnows
  <2>. QED  BY <1>3, <1>4, <2>1, <2>2
<1>. QED  BY <1>1, <1>4, <1>5, <1>6, <1>7, <1>8, <1>9, OwnStep, HandlerKnows
          DEF ClientOK, SendAll, clientVars

\* recv.
LEMMA RecvInv ==
  ASSUME IInv, NEW c \in Clients, Recv(c)  PROVE IInv'
<1>1. hpc[c] = "recv" /\ hpc \in [Clients -> Hpcs] /\ hleft \in [Clients -> 0 .. Cap]
  BY DEF IInv, TypeOK, Recv
<1>2. ClientOK(c) /\ hleft[c] = 0
  BY <1>1 DEF IInv, ClientOK, Begun
<1>3. /\ left[c] \in Nat /\ up[c] \in Nat /\ down[c] \in Nat /\ size[c] \in Nat
      /\ size[c] <= Cap /\ up[c] <= Cap + 3 /\ Cap \in Nat /\ args[c].size \in Nat
  BY <1>1, Counts, HandlerKnows DEF IInv
<1>4. /\ hpc' \in [Clients -> Hpcs] /\ hleft' \in [Clients -> 0 .. Cap]
      /\ up' \in [Clients -> 0 .. Cap + 3]
      /\ hpc'[c] \in {"send", "done", "recv"} /\ (hleft'[c] # 0 => hpc'[c] = "send")
      /\ hpc'[c] = "send" => type[c] # Uplink
      /\ up'[c] + hleft'[c] <= up[c] /\ up'[c] \in Nat /\ hleft'[c] \in Nat
      /\ \A d \in Clients \ {c} : hpc'[d] = hpc[d] /\ hleft'[d] = hleft[d] /\ up'[d] = up[d]
  <2>0. up \in [Clients -> 0 .. Cap + 3]
    BY DEF IInv, TypeOK
  <2>1. CASE \E n \in 1 .. size[c] :
               /\ n <= up[c]
               /\ up' = [up EXCEPT ![c] = @ - n]
               /\ hleft' = [hleft EXCEPT ![c] = Reply(c, n)]
               /\ Goto(c, IF type[c] = Echo THEN "send" ELSE "recv")
    <3>1. PICK n \in 1 .. size[c] :
               /\ n <= up[c]
               /\ up' = [up EXCEPT ![c] = up[c] - n]
               /\ hleft' = [hleft EXCEPT ![c] = Reply(c, n)]
               /\ Goto(c, IF type[c] = Echo THEN "send" ELSE "recv")
      BY <2>1
    <3>2. n \in Nat /\ n <= Cap /\ up[c] - n \in 0 .. Cap + 3
      BY <1>3, <3>1
    <3>3. Reply(c, n) \in 0 .. Cap /\ Reply(c, n) <= n /\ (Reply(c, n) # 0 => type[c] = Echo)
      BY <1>3, <3>2 DEF Reply
    <3>4. up'[c] = up[c] - n /\ hleft'[c] = Reply(c, n)
      BY <1>1, <2>0, <3>1
    <3>5. up' \in [Clients -> 0 .. Cap + 3] /\ hleft' \in [Clients -> 0 .. Cap]
      BY <1>1, <2>0, <3>1, <3>2, <3>3
    <3>6. up'[c] + hleft'[c] <= up[c] /\ up'[c] \in Nat /\ hleft'[c] \in Nat
      BY <1>3, <3>2, <3>3, <3>4
    <3>7. \A d \in Clients \ {c} : hleft'[d] = hleft[d] /\ up'[d] = up[d]
      BY <1>1, <2>0, <3>1
    <3>8. /\ hpc' \in [Clients -> Hpcs] /\ \A d \in Clients \ {c} : hpc'[d] = hpc[d]
          /\ hpc'[c] = IF type[c] = Echo THEN "send" ELSE "recv"
      BY <1>1, <3>1 DEF Goto, Hpcs
    <3>9. type[c] = Echo => type[c] # Uplink
      BY DEF Echo, Uplink
    <3>. QED  BY <3>3, <3>4, <3>5, <3>6, <3>7, <3>8, <3>9
  <2>2. CASE Goto(c, "done") /\ UNCHANGED <<up, hleft>>
    BY <1>1, <1>2, <1>3, <2>0, <2>2 DEF Goto, Hpcs
  <2>. QED  BY <2>1, <2>2 DEF Recv
<1>5. TypeOK'
  BY <1>4 DEF IInv, TypeOK, Recv, clientVars
<1>6. \A d \in Clients \ {c} : Same(d)
  BY <1>4 DEF Recv, clientVars, Same
<1>7. HeaderOK(c)'
  BY <1>1, <1>4, HandlerKnows DEF HeaderOK, Recv, clientVars
<1>8. Begun(c)' /\ Before(c)' /\ TypeRead(c)' /\ Roles(c)' /\ Timed(c)'
  BY <1>1, <1>2, <1>4 DEF ClientOK, Begun, Before, TypeRead, Roles, Timed, Recv, clientVars, Threaded
<1>9. Echoed(c)'
  <2>. SUFFICES ASSUME c \in DOMAIN args, args[c].type = Echo, ~short[c], ~fin[c]
                PROVE  /\ up'[c] + down[c] + left[c] + hleft'[c] <= args[c].size
                       /\ hpc'[c] \notin {"none", "refused", "start", "generate"}
    BY DEF Echoed, Recv, clientVars
  <2>1. up[c] + down[c] + left[c] + hleft[c] <= args[c].size
    BY <1>2 DEF ClientOK, Echoed
  <2>. QED  BY <1>2, <1>3, <1>4, <2>1
<1>. QED  BY <1>1, <1>4, <1>5, <1>6, <1>7, <1>8, <1>9, OwnStep, HandlerKnows
          DEF ClientOK, Recv, clientVars

-----------------------------------------------------------------------------
(***************************************************************************)
(* The theorems.                                                           *)
(***************************************************************************)

\* Every step keeps the invariant.
LEMMA InvStep == IInv /\ [Next]_vars => IInv'
<1>. SUFFICES ASSUME IInv, [Next]_vars  PROVE IInv'
  OBVIOUS
<1>1. CASE RunStep
  BY <1>1, AcceptInv, ReadMagicInv, ReadTypeInv, ReadSizeInv DEF RunStep
<1>2. ASSUME NEW c \in Clients, ClientStep(c)  PROVE IInv'
  BY <1>2, ConnectInv, WriteHeaderInv, WhileInv, ReadInv, WriteInv, WriteToClosedInv DEF ClientStep
<1>3. ASSUME NEW c \in Clients, Interrupt(c) \/ InterruptWrite(c) \/ Kill(c)  PROVE IInv'
  BY <1>3, SignalInv, InterruptWriteInv
<1>4. ASSUME NEW c \in Clients, HandlerStep(c)  PROVE IInv'
  BY <1>4, StartInv, GenerateInv, SendAllInv, RecvInv DEF HandlerStep
<1>5. CASE UNCHANGED vars
  <2>1. UNCHANGED <<args, pc, left, BYTES_READ, clock, short, spc, client, hpc, type, size, hleft,
                    backlog, header, up, down, magic, fin, rst>>
    BY <1>5 DEF vars, clientVars, serverVars, network
  <2>2. TypeOK'
    BY <1>5 DEF IInv, TypeOK, vars, clientVars, serverVars, network
  <2>3. Serving' /\ Queue'
    BY <2>1 DEF IInv, Serving, Queue
  <2>4. ASSUME NEW c \in Clients  PROVE ClientOK(c)'
    BY <2>1, KeepOther DEF IInv, Same
  <2>. QED  BY <2>2, <2>3, <2>4 DEF IInv
<1>. QED  BY <1>1, <1>2, <1>3, <1>4, <1>5 DEF Next

\* The invariant holds in every reachable state.
LEMMA Invariance == Spec => []IInv
BY InvInit, InvStep, PTL DEF Spec

\* Every variable keeps its type: no more than six bytes of header are on their
\* way, a connection holds no more than its capacity and what a short header
\* left, and the counts of the client stay ints.
THEOREM TypeCorrect == Spec => []TypeOK
<1>1. IInv => TypeOK
  BY DEF IInv
<1>. QED  BY <1>1, Invariance, PTL

\* No payload is taken for the magic number, and a downlink client counts
\* nothing before it, whatever the sizes and however the reads split the stream.
THEOREM MagicFound == Spec => []MagicOnce
<1>1. IInv => MagicOnce
  BY EvaluationAssumption DEF IInv, TypeOK, MagicOnce, ClientOK, Timed
<1>. QED  BY <1>1, Invariance, PTL

\* No recv of read_client_header meets a reset connection, whenever a client is
\* killed.
THEOREM HeaderReadable == Spec => []HeaderNeverReset
<1>1. IInv => HeaderNeverReset
  BY DEF IInv, HeaderNeverReset, Serving, ClientOK, Before
<1>. QED  BY <1>1, Invariance, PTL

\* Both ends block for good only after a short read: until then an echo client
\* and its thread have one buffer between them, whatever the capacity of the
\* connection, and of the other clients one end never writes.
THEOREM EchoStuckExplained == Spec => []StuckNeedsShortRead
<1>1. IInv => StuckNeedsShortRead
  <2>. SUFFICES ASSUME IInv, NEW c \in DOMAIN args, Stuck(c), ~short[c]  PROVE FALSE
    BY DEF StuckNeedsShortRead
  <2>1. c \in Clients /\ args[c].type \in Types /\ args[c].size \in 1 .. Cap
    BY ArgsForm DEF IInv
  <2>2. /\ pc[c] = "write" /\ left[c] > 0 /\ up[c] >= Cap /\ hpc[c] = "send" /\ hleft[c] > 0
        /\ down[c] = Cap /\ ~fin[c]
    BY DEF Stuck
  <2>3. ClientOK(c)
    BY <2>1 DEF IInv
  <2>4. args[c].type # Downlink
    BY <2>2, <2>3 DEF ClientOK, Roles
  <2>5. args[c].type # Uplink
    BY <2>1, <2>2, <2>3, HandlerKnows DEF ClientOK, Roles
  <2>6. up[c] + down[c] + left[c] + hleft[c] <= args[c].size
    BY <2>1, <2>2, <2>3, <2>4, <2>5 DEF ClientOK, Echoed, Types
  <2>7. /\ left[c] \in Nat /\ hleft[c] \in Nat /\ up[c] \in Nat /\ down[c] \in Nat /\ Cap \in Nat
    BY <2>1, Counts DEF IInv
  <2>. QED  BY <2>1, <2>2, <2>6, <2>7
<1>. QED  BY <1>1, Invariance, PTL
=============================================================================

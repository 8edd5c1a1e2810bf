---------------------------- MODULE Conversation ----------------------------
(***************************************************************************)
(* What a client that uses lib_convert and a Transport Converter promise   *)
(* each other on a connection between them: the client sends its Convert   *)
(* header once, and data only after it has read the answer, or has found   *)
(* that none will come; the Converter answers once, to a whole header, and *)
(* lets the destination's data through only after it has accepted.         *)
(*                                                                         *)
(* ConvertClient implements this with its kernel and its Converters as the *)
(* environment, TCServer with its clients: each is checked against what    *)
(* the other takes for granted.                                            *)
(***************************************************************************)
CONSTANT Conns

VARIABLES
  asked,    \* asked[c]: the client has sent the whole Convert header
  answer,   \* answer[c]: "none", "accept" or "refuse"
  heard,    \* heard[c]: the client knows the answer, or that there is none
  up,       \* up[c]: the client has sent data
  down,     \* down[c]: data of the destination are on their way to the client
  over      \* over[c]: the Converter has closed the connection

vars == <<asked, answer, heard, up, down, over>>

None == [c \in Conns |-> FALSE]

Init == /\ asked = None /\ heard = None /\ up = None /\ down = None /\ over = None
        /\ answer = [c \in Conns |-> "none"]

Ask(c) ==
  /\ ~asked[c]
  /\ asked' = [asked EXCEPT ![c] = TRUE]
  /\ UNCHANGED <<answer, heard, up, down, over>>

Answer(c) ==
  /\ asked[c] /\ answer[c] = "none" /\ ~over[c]
  /\ \E a \in {"accept", "refuse"} : answer' = [answer EXCEPT ![c] = a]
  /\ UNCHANGED <<asked, heard, up, down, over>>

Hear(c) ==
  /\ answer[c] # "none" \/ over[c]
  /\ heard' = [heard EXCEPT ![c] = TRUE]
  /\ UNCHANGED <<asked, answer, up, down, over>>

Up(c) ==
  /\ heard[c]
  /\ up' = [up EXCEPT ![c] = TRUE]
  /\ UNCHANGED <<asked, answer, heard, down, over>>

Down(c) ==
  /\ answer[c] = "accept" /\ ~over[c]
  /\ down' = [down EXCEPT ![c] = TRUE]
  /\ UNCHANGED <<asked, answer, heard, up, over>>

Drain(c) ==
  /\ down' = [down EXCEPT ![c] = FALSE]
  /\ UNCHANGED <<asked, answer, heard, up, over>>

Over(c) ==
  /\ over' = [over EXCEPT ![c] = TRUE]
  /\ UNCHANGED <<asked, answer, heard, up, down>>

\* The client closes its socket; another connection may take its place.
Renew(c) ==
  /\ asked' = [asked EXCEPT ![c] = FALSE] /\ answer' = [answer EXCEPT ![c] = "none"]
  /\ heard' = [heard EXCEPT ![c] = FALSE] /\ up' = [up EXCEPT ![c] = FALSE]
  /\ down' = [down EXCEPT ![c] = FALSE] /\ over' = [over EXCEPT ![c] = FALSE]

Next ==
  \E c \in Conns :
    Ask(c) \/ Answer(c) \/ Hear(c) \/ Up(c) \/ Down(c) \/ Drain(c) \/ Over(c) \/ Renew(c)

Spec == Init /\ [][Next]_vars
=============================================================================

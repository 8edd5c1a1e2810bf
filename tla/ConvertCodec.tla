---------------------------- MODULE ConvertCodec ----------------------------
(***************************************************************************)
(* The Convert messages: convert_write and convert_parse_tlvs of           *)
(* src/lib_convert/convert_util.c, and the Converter's own reader,         *)
(* read_convert_header of src/5GTC/pkg/convert.py with the loop of         *)
(* handle_connection over what it returns (src/5GTC/main.py).              *)
(*                                                                         *)
(* A message is a 4-byte header, whose total_length counts 4-byte words,   *)
(* and TLVs, each with a length in words.  A TLV is abstracted to its      *)
(* type, its length field, the words it really takes and what it says; the *)
(* bytes of a cookie or of TCP options are abstracted to how many there    *)
(* are.  Lengths keep their width: both fields are one byte.               *)
(*                                                                         *)
(* One message is written, or comes from elsewhere, and is read by one of  *)
(* the two readers; a step is one turn of a loop.                          *)
(***************************************************************************)
EXTENDS Integers, Sequences

CONSTANTS
  BufLen,      \* sizeof(buf), 1024 in _redirect
  CookieLens,  \* the lengths a cookie may have, in bytes
  TcpLens,     \* the lengths TCP options may have, in bytes
  Addrs,       \* IPv4 destinations, which are written as mapped addresses
  Addrs6,      \* IPv6 destinations
  Garbled,     \* what ipv6_to_ipv4 makes of one: another IPv4 address, or none
  Codes,       \* error codes
  Foreign,     \* the TLVs of messages that convert_write did not write
  Empty        \* a field of struct convert_opts that is not set

BYTE == 256
Header == 1       \* the words of struct convert_header
\* The order of the table _converter_tlvs.
Table == <<"info", "connect", "extended", "supported", "cookie", "error">>
Types == {Table[n] : n \in DOMAIN Table}

TLVs == [type : Types \cup {"unknown"}, length : 0 .. BYTE - 1, size : Nat \ {0},
         addr : Addrs \cup Addrs6 \cup {Empty}, error_code : Codes \cup {Empty}]

\* The words a sequence of TLVs takes.
Words(s) ==
  LET sum[n \in 0 .. Len(s)] == IF n = 0 THEN 0 ELSE sum[n - 1] + s[n].size
  IN  sum[Len(s)]

\* The words of a TLV and its length field may differ in two ways: the message
\* ends inside the TLV, or the field is 0.
Framed(s) == \A n \in 1 .. Len(s) : \/ s[n].length \in {0, s[n].size}
                                    \/ n = Len(s) /\ s[n].length > s[n].size

\* The buffer of _redirect has 256 words, and the total_length of a message that
\* arrives is one byte.
ASSUME CodecAssumption ==
  /\ BufLen \in Nat /\ BufLen % 4 = 0 /\ BufLen >= 4
  /\ CookieLens \subseteq Nat /\ TcpLens \subseteq Nat
  /\ Garbled \notin Addrs \cup Addrs6 /\ Empty \notin Addrs \cup Addrs6 \cup Codes
  /\ BufLen <= 4 * BYTE
  /\ \A s \in Foreign : s \in Seq(TLVs) /\ Framed(s) /\ Header + Words(s) < BYTE

Opts == [flags : SUBSET Types, addr : Addrs \cup Addrs6, error_code : Codes,
         cookie_len : CookieLens, tcp_len : TcpLens]
Nothing == [flags |-> {}, addr |-> Empty, error_code |-> Empty,
            cookie_len |-> 0, tcp_len |-> 0]

\* How many blocks are allocated: for struct convert_opts, and for what its
\* members tcp_options and cookie_data point to.
Heap == [opts : 0 .. 1, extended : Nat, cookie : Nat]
Freed == [opts |-> 0, extended |-> 0, cookie |-> 0]

VARIABLES
  pc,            \* where the writer or the reader is
  opts,          \* what the message is written from
  foreign,       \* the message was not written by convert_write
  i,             \* the writer's place in the table
  left,          \* the writer's buff_len, in bytes
  wire,          \* the TLVs of the message
  total_length,  \* the field of its header
  data,          \* the TLVs the Converter's second recv returned
  torn,          \* the last of them came in part only
  rest,          \* the TLVs the reader has not come to
  buff_len,      \* the words the reader thinks are left
  parsed,        \* what convert_parse_tlvs returns
  heap,          \* the blocks of convert_parse_tlvs that have not been freed
  dests          \* the destinations handle_connection connects to

vars == <<pc, opts, foreign, i, left, wire, total_length, data, torn, rest, buff_len,
          parsed, heap, dests>>
message == <<opts, foreign, i, left, wire, total_length>>
received == <<data, torn>>

Final == {"nospace", "cdone", "cfail", "nomem", "undefined",
          "pydone", "pyfail", "pyshort"}

TLV(t, l, s, a, e) == [type |-> t, length |-> l, size |-> s, addr |-> a, error_code |-> e]

Init ==
  /\ \/ /\ pc = "write" /\ foreign = FALSE
        /\ opts \in Opts
        /\ wire = <<>> /\ left = BufLen - 4 /\ total_length = 0
     \/ /\ pc = "sent" /\ foreign = TRUE
        /\ opts = Nothing
        /\ wire \in Foreign /\ left = 0 /\ total_length = Header + Words(wire)
  /\ data = <<>> /\ torn = FALSE
  /\ i = 1 /\ rest = <<>> /\ buff_len = 0 /\ parsed = Nothing /\ dests = <<>>
  /\ heap = Freed

-----------------------------------------------------------------------------
(***************************************************************************)
(* convert_write.                                                          *)
(***************************************************************************)

\* Mutant: rounds down.
CONVERT_ALIGN_Down(b) == (b \div 4) * 4

CONVERT_ALIGN(b) == ((b + 3) \div 4) * 4

\* What the callback of the table needs in the buffer, in bytes.
Size(t) ==
  CASE t = "connect" -> CONVERT_ALIGN(20)
    [] t = "error" -> CONVERT_ALIGN(3)
    [] t = "extended" -> CONVERT_ALIGN(4 + opts.tcp_len)
    [] OTHER -> CONVERT_ALIGN(4 + opts.cookie_len)

\* Mutant: the TLV does not count the word of its own type and length.
LengthField_Payload(t) == (Size(t) \div 4 - 1) % BYTE

\* tlv->length, one byte.
LengthField(t) == (Size(t) \div 4) % BYTE

\* _convert_write_tlvs: one turn of the loop.  A TLV with no writer, or one that
\* does not fit, makes convert_write fail.
WriteTlv ==
  LET t == Table[i] IN
  /\ pc = "write" /\ i <= Len(Table)
  /\ \/ /\ t \notin opts.flags
        /\ i' = i + 1 /\ UNCHANGED <<pc, left, wire>>
     \/ /\ t \in opts.flags
        /\ t \in {"info", "supported"} \/ left < Size(t)
        /\ pc' = "nospace" /\ UNCHANGED <<i, left, wire>>
     \/ /\ t \in opts.flags \ {"info", "supported"} /\ left >= Size(t)
        /\ wire' = Append(wire, TLV(t, LengthField(t), Size(t) \div 4, opts.addr, opts.error_code))
        /\ left' = left - Size(t)
        /\ i' = i + 1 /\ UNCHANGED pc
  /\ UNCHANGED <<opts, foreign, total_length, received, rest, buff_len, parsed, heap, dests>>

\* Mutant: the header does not count itself.
TotalLength_TlvsOnly == ((BufLen - 4 - left) \div 4) % BYTE

TotalLength == ((BufLen - left) \div 4) % BYTE

\* convert_write: the length of the message, in a byte.
WriteHeader ==
  /\ pc = "write" /\ i > Len(Table)
  /\ total_length' = TotalLength
  /\ pc' = "sent"
  /\ UNCHANGED <<opts, foreign, i, left, wire, received, rest, buff_len, parsed, heap, dests>>

-----------------------------------------------------------------------------
(***************************************************************************)
(* _read_convert with convert_parse_header and convert_parse_tlvs.         *)
(***************************************************************************)

\* The two recvfrom calls.  tlvs_length is a size_t: for a total_length of 0 it
\* wraps, and buffer[length] is larger than any stack.  A message without TLVs
\* is not parsed; calloc may fail.  A message from elsewhere may have another
\* version or magic number, or come to its end too early.
CHeader ==
  /\ pc = "sent"
  /\ \/ total_length = 0 /\ pc' = "undefined" /\ UNCHANGED <<rest, buff_len, heap>>
     \/ total_length = Header /\ pc' = "cdone" /\ UNCHANGED <<rest, buff_len, heap>>
     \/ /\ total_length > Header
        /\ rest' = wire /\ buff_len' = total_length - Header
        /\ \/ pc' = "ctlv" /\ heap' = [heap EXCEPT !.opts = 1]
           \/ pc' = "nomem" /\ UNCHANGED heap
     \/ foreign /\ pc' = "cfail" /\ UNCHANGED <<rest, buff_len, heap>>
  /\ UNCHANGED <<message, received, parsed, dests>>

\* convert_parse_tlvs gives up on t.  A cookie or TCP options without room for
\* their own header have a length below zero, which malloc does not serve.
Bad(t) ==
  \/ buff_len < t.length
  \/ t.type = "connect" /\ (buff_len < 5 \/ t.length # 5)
  \/ t.type \in {"extended", "cookie"} /\ t.length = 0
  \/ t.type \notin {"connect", "extended", "cookie", "error"}

\* What t adds to struct convert_opts.
WithTlv(o, t) ==
  LET p == [o EXCEPT !.flags = @ \cup {t.type}] IN
  CASE t.type = "connect" -> [p EXCEPT !.addr = t.addr]
    [] t.type = "error" -> [p EXCEPT !.error_code = t.error_code]
    [] t.type = "extended" -> [p EXCEPT !.tcp_len = 4 * t.length - 4]
    [] OTHER -> [p EXCEPT !.cookie_len = 4 * t.length - 4]

\* Mutant: buff and buff_len stay as they are.
Advance_Stuck(t) == UNCHANGED <<rest, buff_len>>

\* The reader moves on by the length field of the TLV it is at.  It comes to the
\* next TLV, or stays where it is when the field is 0.
Advance(t) ==
  /\ buff_len' = buff_len - t.length
  /\ rest' = IF t.length = 0 THEN rest ELSE Tail(rest)

\* malloc for the contents of a TLV that has any.
Allocate(t) == IF t.type \in {"extended", "cookie"} THEN [heap EXCEPT ![t.type] = @ + 1] ELSE heap

\* error_and_free: only opts itself is freed.
error_and_free == [heap EXCEPT !.opts = 0]

\* Mutant: the blocks that opts points to are not freed.
convert_free_opts_Shallow(h) == [h EXCEPT !.opts = 0]

\* opts, and what its members point to: the block allocated last, if any.
convert_free_opts(h) ==
  [b \in DOMAIN h |-> IF h[b] = 0 THEN 0 ELSE h[b] - 1]

\* convert_parse_tlvs: one turn of the loop.
CTlv ==
  LET t == Head(rest) IN
  /\ pc = "ctlv" /\ buff_len > 0
  /\ \/ Bad(t) /\ pc' = "cfail" /\ heap' = error_and_free /\ UNCHANGED <<rest, buff_len, parsed>>
     \/ /\ ~Bad(t)
        /\ parsed' = WithTlv(parsed, t) /\ heap' = Allocate(t) /\ Advance(t)
        /\ UNCHANGED pc
     \/ /\ ~Bad(t) /\ t.type \in {"extended", "cookie"}
        /\ pc' = "nomem" /\ heap' = error_and_free /\ UNCHANGED <<rest, buff_len, parsed>>
  /\ UNCHANGED <<message, received, dests>>

\* convert_parse_tlvs returns opts; _read_convert frees them when they report an
\* error.
CDone ==
  /\ pc = "ctlv" /\ buff_len = 0
  /\ pc' = "cdone"
  /\ heap' = IF "error" \in parsed.flags THEN convert_free_opts(heap) ELSE heap
  /\ UNCHANGED <<message, received, rest, buff_len, parsed, dests>>

-----------------------------------------------------------------------------
(***************************************************************************)
(* read_convert_header and handle_connection.                              *)
(***************************************************************************)

\* The two recv calls, neither of which waits for all it asks for.  With less
\* than the 4 bytes of the header the client is refused.  The second asks for
\* total_length words, one more than the TLVs take, and returns what has come by
\* then: some TLVs, the last perhaps in part, or none if the client has closed.
\* A client sends nothing after its message until it is answered.
PyHeader ==
  /\ pc = "sent"
  /\ \/ pc' = "pyshort" /\ UNCHANGED <<received, rest, buff_len>>
     \/ /\ \E n \in 0 .. (IF total_length = 0 THEN 0 ELSE Len(wire)) :
             data' = SubSeq(wire, 1, n)
        /\ torn' \in IF data' = <<>> THEN {FALSE} ELSE BOOLEAN
        /\ rest' = data' /\ buff_len' = Words(data')
        /\ pc' = "pytlv"
  /\ UNCHANGED <<message, parsed, heap, dests>>

\* The reader is at a TLV that came in part.
AtTear == torn /\ Tail(rest) = <<>>

\* Mutant: the IPv6 text of the address is used as it is.
ipv6_to_ipv4_AsIs(a) == IF a \in Addrs THEN Garbled ELSE a

\* The last part of the address's text: a mapped IPv4 address is written
\* ::ffff:1.2.3.4, and another address has no IPv4 address there.
ipv6_to_ipv4(a) == IF a \in Addrs THEN a ELSE Garbled

\* read_convert_header: one turn of the loop.  A slice that is too short for its
\* TLV either raises at once or leaves fields unset.  Past the end of the data
\* offset is too large, which ends the loop.
PyTlv ==
  LET t == Head(rest) IN
  /\ pc = "pytlv" /\ buff_len > 0
  /\ \/ /\ AtTear \/ (t.type = "connect" /\ buff_len < 5)
        /\ pc' = "pyfail" /\ UNCHANGED <<rest, buff_len>>
     \/ /\ AtTear \/ t.length > buff_len
        /\ rest' = Tail(rest) /\ buff_len' = 0 /\ UNCHANGED pc
     \/ /\ ~AtTear /\ t.length <= buff_len
        /\ Advance(t) /\ UNCHANGED pc
  /\ UNCHANGED <<message, received, parsed, heap, dests>>

\* The TLVs have been read: handle_connection goes through them.
PyRead ==
  /\ pc = "pytlv" /\ buff_len = 0
  /\ rest' = data
  /\ pc' = "pyhandle"
  /\ UNCHANGED <<message, received, buff_len, parsed, heap, dests>>

\* A Connect TLV without all of its address, for which no connect succeeds.
Unusable(t) == t.type = "connect" /\ (t.size < 5 \/ AtTear)

\* handle_connection: one turn of the loop.  A type that CONVERT_TLVS does not
\* have raises KeyError; types other than Connect are passed over.
PyHandle ==
  LET t == Head(rest) IN
  /\ pc = "pyhandle"
  /\ \/ rest = <<>> /\ pc' = "pydone" /\ UNCHANGED <<rest, dests>>
     \/ /\ rest # <<>> /\ t.type \in Types /\ ~Unusable(t)
        /\ dests' = IF t.type = "connect" THEN Append(dests, ipv6_to_ipv4(t.addr)) ELSE dests
        /\ rest' = Tail(rest) /\ UNCHANGED pc
     \/ /\ rest # <<>> /\ (t.type \notin Types \/ Unusable(t))
        /\ pc' = "pyfail" /\ UNCHANGED <<rest, dests>>
  /\ UNCHANGED <<message, received, buff_len, parsed, heap>>

-----------------------------------------------------------------------------
Write == WriteTlv \/ WriteHeader
Read == CHeader \/ CTlv \/ CDone \/ PyHeader \/ PyTlv \/ PyRead \/ PyHandle

Next == Write \/ Read

Spec == Init /\ [][Next]_vars

\* The code is sequential and waits for nothing once the message is there.
FairSpec == Spec /\ WF_vars(Next)

-----------------------------------------------------------------------------
(***************************************************************************)
(* Properties.                                                             *)
(***************************************************************************)
TypeOK ==
  /\ pc \in Final \cup {"write", "sent", "ctlv", "pytlv", "pyhandle"}
  /\ opts \in Opts \cup {Nothing}
  /\ foreign \in BOOLEAN
  /\ i \in 1 .. Len(Table) + 1
  /\ left \in 0 .. BufLen
  /\ wire \in Seq(TLVs) /\ data \in Seq(TLVs) /\ rest \in Seq(TLVs)
  /\ torn \in BOOLEAN
  /\ total_length \in 0 .. BYTE - 1
  /\ buff_len \in Nat
  /\ parsed \in [flags : SUBSET Types, addr : Addrs \cup Addrs6 \cup {Empty},
                 error_code : Codes \cup {Empty}, cookie_len : Nat, tcp_len : Nat]
  /\ heap \in Heap /\ dests \in Seq(Addrs \cup {Garbled})

\* The length fields of what convert_write writes into buf[1024] describe it,
\* one byte each although the buffer has 256 words, except for a message that
\* fills the buffer to the last word: its total_length is 0.
LengthsExact ==
  ~foreign /\ pc \notin {"write", "nospace"} =>
    /\ \A n \in 1 .. Len(wire) : wire[n].length = wire[n].size
    /\ \/ total_length = Header + Words(wire)
       \/ total_length = 0 /\ Header + Words(wire) = BYTE

\* Neither reader loses its place, whatever message it is given: what it thinks
\* is left is what is left, so it never takes a TLV's contents for a TLV and
\* never looks beyond the message.
ReadersInSync ==
  pc \in {"ctlv", "pytlv"} => buff_len = Words(rest)

\* convert_parse_tlvs accepts and understands every message convert_write can
\* write; a cookie or TCP options come out with their padding.
RoundTrip ==
  /\ pc = "cfail" => foreign
  /\ pc = "cdone" /\ ~foreign =>
       /\ parsed.flags = opts.flags
       /\ "connect" \in opts.flags => parsed.addr = opts.addr
       /\ "error" \in opts.flags => parsed.error_code = opts.error_code
       /\ "cookie" \in opts.flags => parsed.cookie_len - opts.cookie_len \in 0 .. 3
       /\ "extended" \in opts.flags => parsed.tcp_len - opts.tcp_len \in 0 .. 3

\* What a message leaves allocated when it has been dealt with.  A refused one and
\* one with an error leave nothing, except in two cases: the message goes wrong
\* after a TLV whose contents were allocated, and error_and_free drops them; or
\* such a TLV comes twice.  Every accepted answer with TLVs loses its options:
\* convert_util.h:102-103 says that they "must be freed by the caller using
\* convert_free_opts()", and _read_convert returns without it.
OptsAccounted ==
  /\ pc \in Final /\ (pc = "cdone" => "error" \in parsed.flags) /\ heap # Freed =>
       \/ pc \in {"cfail", "nomem"} /\ heap.opts = 0 /\ parsed.flags \cap {"extended", "cookie"} # {}
       \/ foreign /\ \E n, m \in 1 .. Len(wire) :
                       n # m /\ wire[n].type = wire[m].type /\ wire[n].type \in {"extended", "cookie"}
  /\ pc = "cdone" /\ "error" \notin parsed.flags /\ total_length # Header => heap.opts = 1

\* The Converter connects to the IPv4 destination the client's library wrote,
\* once, whatever other TLVs the message has and however short its recv calls
\* fall: only when the second returns nothing, because total_length wrapped to 0
\* or the client has closed, is the destination passed over, and a Connect TLV
\* that came in part gets the client refused, never connected elsewhere.
DestinationKept ==
  /\ pc = "pyfail" => foreign \/ torn
  /\ pc = "pydone" /\ ~foreign =>
       IF "connect" \notin opts.flags \/ data = <<>> THEN dests = <<>>
       ELSE opts.addr \in Addrs => dests = <<opts.addr>>

\* Both readers come to the end of every message convert_write writes.
ReadersEnd == ~foreign ~> pc \in Final
=============================================================================

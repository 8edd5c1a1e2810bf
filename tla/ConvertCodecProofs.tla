------------------------- MODULE ConvertCodecProofs -------------------------
(***************************************************************************)
(* Theorems about ConvertCodec, for any destinations, lengths of cookies   *)
(* and TCP options, and messages from elsewhere of any number of TLVs.     *)
(***************************************************************************)
EXTENDS ConvertCodec, WellFoundedInduction, TLAPS

(***************************************************************************)
(* The inductive invariant.                                                *)
(***************************************************************************)
Contents == {"extended", "cookie"}
Written == {"connect", "extended", "cookie", "error"}

\* The types of the first places of the table.
Upto(k) == {Table[n] : n \in 1 .. k}

TypesOf(s) == {s[n].type : n \in 1 .. Len(s)}

\* No type of TS comes twice in s.
Once(s, TS) ==
  \A n, m \in 1 .. Len(s) : s[n].type \in TS /\ s[n].type = s[m].type => n = m

\* Size, from the options it is given.
Need(o, t) ==
  CASE t = "connect" -> CONVERT_ALIGN(20)
    [] t = "error" -> CONVERT_ALIGN(3)
    [] t = "extended" -> CONVERT_ALIGN(4 + o.tcp_len)
    [] OTHER -> CONVERT_ALIGN(4 + o.cookie_len)

\* t is what convert_write writes from o for its type.
WrittenTlv(o, t) ==
  /\ t.type \in o.flags \cap Written
  /\ t.length = t.size /\ t.size = Need(o, t.type) \div 4
  /\ t.addr = o.addr /\ t.error_code = o.error_code

\* The message is what convert_write writes, or a part of it.
PartOf(o, s) == (\A n \in 1 .. Len(s) : WrittenTlv(o, s[n])) /\ Once(s, Types)

\* Each TLV that is asked for has been written once, up to the place in the table.
Writing ==
  ~foreign =>
    /\ opts \in Opts
    /\ PartOf(opts, wire)
    /\ TypesOf(wire) = opts.flags \cap Upto(i - 1)
    /\ left + 4 * Words(wire) = BufLen - 4
    /\ "connect" \in opts.flags /\ wire # <<>> => wire[1].type = "connect"

\* The length in the header, and what is asked for is all there.
Sent ==
  /\ foreign => pc \notin {"write", "nospace"} /\ wire \in Foreign /\ total_length = Header + Words(wire)
  /\ ~foreign /\ pc \notin {"write", "nospace"} =>
       i = Len(Table) + 1 /\ total_length = (Header + Words(wire)) % BYTE

\* The reader is at a TLV of the message.
AtTlv ==
  pc \in {"ctlv", "pytlv", "pyhandle"} =>
    /\ pc # "pyhandle" => Framed(rest) /\ buff_len = Words(rest)
    /\ ~foreign => PartOf(opts, rest)

\* What the Converter received is the first part of the message, in which the
\* Connect TLV comes first.
Received ==
  pc \in {"pytlv", "pyhandle", "pydone"} =>
    /\ Framed(data)
    /\ ~foreign => /\ PartOf(opts, data)
                   /\ "connect" \in opts.flags /\ data # <<>> => "connect" \in TypesOf(data)
    /\ pc = "pyhandle" => TypesOf(rest) \subseteq TypesOf(data)

\* What a field that was read says.
FieldsRead(o, p) ==
  /\ "connect" \in p.flags => p.addr = o.addr
  /\ "error" \in p.flags => p.error_code = o.error_code
  /\ "cookie" \in p.flags => p.cookie_len - o.cookie_len \in 0 .. 3
  /\ "extended" \in p.flags => p.tcp_len - o.tcp_len \in 0 .. 3

\* convert_parse_tlvs: what was read and what is to be read make up the message;
\* a block is allocated for contents that were read.
Parsing ==
  /\ pc \in {"write", "sent"} => parsed = Nothing /\ heap = Freed /\ dests = <<>>
  /\ pc = "ctlv" =>
       /\ ~foreign => parsed.flags \cup TypesOf(rest) = opts.flags /\ FieldsRead(opts, parsed)
       /\ heap.opts = 1
       /\ heap.extended # 0 => "extended" \in parsed.flags
       /\ heap.cookie # 0 => "cookie" \in parsed.flags
       /\ Once(wire, Contents) =>
            /\ Once(rest, Contents) /\ heap.extended <= 1 /\ heap.cookie <= 1
            /\ \A b \in Contents : b \in parsed.flags => b \notin TypesOf(rest)
  /\ pc \in {"pytlv", "pyhandle", "pydone", "pyfail", "pyshort"} => heap = Freed

\* handle_connection: the destination is connected to when its TLV was passed.
Connecting ==
  /\ pc = "pytlv" => dests = <<>>
  /\ pc \in {"pyhandle", "pydone"} /\ ~foreign =>
       dests = IF "connect" \in TypesOf(data) \ (IF pc = "pydone" THEN {} ELSE TypesOf(rest))
               THEN <<ipv6_to_ipv4(opts.addr)>> ELSE <<>>

\* The Converter refuses what convert_write wrote only when it came in part.
FailsOK == pc = "pyfail" => foreign \/ torn

IInv == /\ TypeOK /\ Writing /\ Sent /\ AtTlv /\ Received /\ Parsing /\ Connecting
        /\ RoundTrip /\ OptsAccounted /\ FailsOK

-----------------------------------------------------------------------------
(***************************************************************************)
(* Words.  Induction is by the least counterexample.                       *)
(***************************************************************************)

\* A set of numbers has a least one.
LEMMA LeastNumber ==
  ASSUME NEW T, T \subseteq Nat, T # {}
  PROVE  \E n \in T : \A m \in T : n <= m
<1>1. PICK n \in T : \A m \in T : ~ (<<m, n>> \in OpToRel(<, Nat))
  BY NatLessThanWellFounded, WFMin
<1>2. ASSUME NEW m \in T  PROVE n <= m
  <2>1. ~ (<<m, n>> \in OpToRel(<, Nat))
    BY <1>1
  <2>2. ~ (m < n)
    BY <2>1 DEF OpToRel
  <2>. QED  BY <2>2
<1>. QED  BY <1>2

\* f adds up the sizes of the first n TLVs of s, for every n.
Adds(f, s) == f = [n \in 0 .. Len(s) |-> IF n = 0 THEN 0 ELSE f[n - 1] + s[n].size]

\* There is a function that adds up the sizes.
LEMMA SumExists ==
  ASSUME NEW s \in Seq(TLVs)
  PROVE  \E f : Adds(f, s)
<1>. DEFINE Step(f, k) == /\ f \in [0 .. k -> Nat] /\ f[0] = 0
                          /\ \A n \in 1 .. k : f[n] = f[n - 1] + s[n].size
            T == {k \in 0 .. Len(s) : ~ \E f : Step(f, k)}
<1>1. T = {}
  <2>. SUFFICES ASSUME T # {}  PROVE FALSE
    OBVIOUS
  <2>0. T \subseteq Nat /\ Len(s) \in Nat
    OBVIOUS
  <2>. HIDE DEF T
  <2>1. PICK k \in T : \A m \in T : k <= m
    BY <2>0, LeastNumber
  <2>. USE DEF T
  <2>2. k # 0
    <3>1. Step([n \in 0 .. 0 |-> 0], 0)
      OBVIOUS
    <3>. QED  BY <2>1, <3>1
  <2>3. PICK f : Step(f, k - 1)
    <3>1. k - 1 \in 0 .. Len(s) /\ ~ (k <= k - 1)
      BY <2>2
    <3>. QED  BY <2>1, <3>1
  <2>4. k \in 1 .. Len(s) /\ k - 1 \in Nat
    BY <2>0, <2>2
  <2>5. s[k].size \in Nat
    <3>1. s[k] \in TLVs
      BY <2>4
    <3>. QED  BY <3>1 DEF TLVs
  <2>6. f[k - 1] \in Nat
    BY <2>3, <2>4
  <2>7. PICK g : g = [n \in 0 .. k |-> IF n = k THEN f[k - 1] + s[k].size ELSE f[n]]
    OBVIOUS
  <2>8. Step(g, k)
    <3>1. g \in [0 .. k -> Nat]
      BY <2>3, <2>4, <2>5, <2>6, <2>7
    <3>2. g[0] = 0
      BY <2>3, <2>4, <2>7
    <3>3. ASSUME NEW n \in 1 .. k  PROVE g[n] = g[n - 1] + s[n].size
      <4>1. n \in 0 .. k /\ n - 1 \in 0 .. k /\ n - 1 # k
        BY <2>4
      <4>2. CASE n = k
        BY <2>7, <4>1, <4>2
      <4>3. CASE n # k
        <5>1. n \in 1 .. k - 1
          BY <2>4, <4>3
        <5>. QED  BY <2>3, <2>7, <4>1, <4>3, <5>1
      <4>. QED  BY <4>2, <4>3
    <3>. QED  BY <3>1, <3>2, <3>3
  <2>. QED  BY <2>1, <2>8
<1>2. PICK f : Step(f, Len(s))
  <2>1. Len(s) \in 0 .. Len(s) /\ Len(s) \notin T
    BY <1>1
  <2>. QED  BY <2>1
<1>3. f = [n \in 0 .. Len(s) |-> f[n]]
  BY <1>2
<1>4. [n \in 0 .. Len(s) |-> f[n]] =
      [n \in 0 .. Len(s) |-> IF n = 0 THEN 0 ELSE f[n - 1] + s[n].size]
  BY <1>2
<1>. QED  BY <1>3, <1>4 DEF Adds

\* What Words is: the last of the sums.
LEMMA WordsSum ==
  ASSUME NEW s \in Seq(TLVs)
  PROVE  \E f : Adds(f, s) /\ Words(s) = f[Len(s)]
BY SumExists DEF Words, Adds

\* The sums, one by one.
LEMMA SumForm ==
  ASSUME NEW s \in Seq(TLVs), NEW f, Adds(f, s)
  PROVE  /\ f[0] = 0
         /\ \A n \in 1 .. Len(s) : /\ f[n] = f[n - 1] + s[n].size
                                   /\ n - 1 \in 0 .. Len(s)
                                   /\ s[n].size \in Nat \ {0}
<1>1. f[0] = 0
  <2>1. 0 \in 0 .. Len(s)
    OBVIOUS
  <2>. QED  BY <2>1 DEF Adds
<1>2. ASSUME NEW n \in 1 .. Len(s)
      PROVE  f[n] = f[n - 1] + s[n].size /\ n - 1 \in 0 .. Len(s) /\ s[n].size \in Nat \ {0}
  <2>1. s[n] \in TLVs /\ n \in 0 .. Len(s) /\ n # 0 /\ n - 1 \in 0 .. Len(s)
    OBVIOUS
  <2>. QED  BY <2>1 DEF Adds, TLVs
<1>. QED  BY <1>1, <1>2

\* Every TLV takes a word at least.
LEMMA SumBounds ==
  ASSUME NEW s \in Seq(TLVs), NEW f, Adds(f, s)
  PROVE  \A n \in 0 .. Len(s) : f[n] \in Nat /\ f[n] >= n
<1>. DEFINE T == {n \in 0 .. Len(s) : ~ (f[n] \in Nat /\ f[n] >= n)}
<1>. SUFFICES ASSUME T # {}  PROVE FALSE
  OBVIOUS
<1>1. T \subseteq Nat /\ Len(s) \in Nat
  OBVIOUS
<1>. HIDE DEF T
<1>2. PICK n \in T : \A m \in T : n <= m
  BY <1>1, LeastNumber
<1>3. n \in 0 .. Len(s) /\ ~ (f[n] \in Nat /\ f[n] >= n)
  BY DEF T
<1>4. n # 0
  BY <1>3, SumForm
<1>5. n \in 1 .. Len(s)
  BY <1>1, <1>3, <1>4
<1>6. n - 1 \notin T
  BY <1>2, <1>5
<1>7. f[n - 1] \in Nat /\ f[n - 1] >= n - 1
  BY <1>5, <1>6, SumForm DEF T
<1>8. f[n] = f[n - 1] + s[n].size /\ s[n].size \in Nat \ {0}
  BY <1>5, SumForm
<1>. QED  BY <1>3, <1>5, <1>7, <1>8

\* Sums over the same TLVs, d places later and from c on, differ by c.
LEMMA SumShift ==
  ASSUME NEW s \in Seq(TLVs), NEW r \in Seq(TLVs), NEW f, NEW g, Adds(f, s), Adds(g, r),
         NEW d \in Nat, NEW c \in Nat, NEW k \in Nat, k <= Len(r), k + d <= Len(s),
         f[d] = c, \A n \in 1 .. k : s[n + d] = r[n]
  PROVE  f[k + d] = g[k] + c
<1>. DEFINE T == {n \in 0 .. k : f[n + d] # g[n] + c}
<1>. SUFFICES ASSUME T # {}  PROVE FALSE
  <2>1. k \in 0 .. k
    OBVIOUS
  <2>. QED  BY <2>1
<1>1. T \subseteq Nat /\ Len(s) \in Nat /\ Len(r) \in Nat
  OBVIOUS
<1>. HIDE DEF T
<1>2. PICK n \in T : \A m \in T : n <= m
  BY <1>1, LeastNumber
<1>3. n \in 0 .. k /\ f[n + d] # g[n] + c
  BY DEF T
<1>4. n # 0
  <2>1. g[0] = 0 /\ f[0 + d] = c
    BY SumForm
  <2>. QED  BY <1>3, <2>1
<1>5. /\ n \in 1 .. Len(r) /\ n \in 1 .. k /\ n + d \in 1 .. Len(s) /\ n - 1 \in 0 .. k
      /\ (n + d) - 1 = (n - 1) + d
  BY <1>1, <1>3, <1>4
<1>6. n - 1 \notin T
  BY <1>2, <1>5
<1>7. f[(n - 1) + d] = g[n - 1] + c
  BY <1>5, <1>6 DEF T
<1>8. /\ f[n + d] = f[(n - 1) + d] + s[n + d].size
      /\ g[n] = g[n - 1] + r[n].size /\ r[n].size \in Nat /\ s[n + d] = r[n]
  BY <1>5, SumForm
<1>9. g[n - 1] \in Nat
  BY <1>5, SumForm, SumBounds
<1>. QED  BY <1>3, <1>7, <1>8, <1>9

\* An empty message takes no words, and only an empty one.
LEMMA WordsNat ==
  ASSUME NEW s \in Seq(TLVs)
  PROVE  Words(s) \in Nat /\ Words(s) >= Len(s) /\ (Words(s) = 0 <=> s = <<>>)
<1>1. PICK f : Adds(f, s) /\ Words(s) = f[Len(s)]
  BY WordsSum
<1>2. Len(s) \in 0 .. Len(s) /\ Len(s) \in Nat
  OBVIOUS
<1>3. Words(s) \in Nat /\ Words(s) >= Len(s)
  BY <1>1, <1>2, SumBounds
<1>4. s = <<>> => Words(s) = 0
  BY <1>1, SumForm
<1>5. s # <<>> => Len(s) > 0
  OBVIOUS
<1>. QED  BY <1>2, <1>3, <1>4, <1>5

\* The first TLV and the others.
LEMMA WordsTail ==
  ASSUME NEW s \in Seq(TLVs), s # <<>>
  PROVE  /\ Head(s) \in TLVs /\ Tail(s) \in Seq(TLVs)
         /\ Words(s) = Head(s).size + Words(Tail(s))
<1>1. /\ Head(s) \in TLVs /\ Tail(s) \in Seq(TLVs) /\ Head(s) = s[1] /\ 1 \in 1 .. Len(s)
      /\ Len(Tail(s)) + 1 = Len(s) /\ Len(Tail(s)) \in Nat
      /\ \A n \in 1 .. Len(Tail(s)) : s[n + 1] = Tail(s)[n]
  OBVIOUS
<1>2. PICK f : Adds(f, s) /\ Words(s) = f[Len(s)]
  BY WordsSum
<1>3. PICK g : Adds(g, Tail(s)) /\ Words(Tail(s)) = g[Len(Tail(s))]
  BY <1>1, WordsSum
<1>4. f[1] = Head(s).size /\ Head(s).size \in Nat
  <2>1. f[0] = 0 /\ f[1] = f[1 - 1] + s[1].size /\ s[1].size \in Nat
    BY <1>1, <1>2, SumForm
  <2>. QED  BY <1>1, <2>1
<1>5. f[Len(Tail(s)) + 1] = g[Len(Tail(s))] + Head(s).size
  <2>1. PICK r, k, c : r = Tail(s) /\ k = Len(r) /\ c = Head(s).size
    OBVIOUS
  <2>2. /\ r \in Seq(TLVs) /\ Adds(g, r) /\ k \in Nat /\ c \in Nat /\ k <= Len(r)
        /\ k + 1 <= Len(s) /\ f[1] = c /\ \A n \in 1 .. k : s[n + 1] = r[n]
    BY <1>1, <1>3, <1>4, <2>1
  <2>3. f[k + 1] = g[k] + c
    BY <1>2, <2>2, SumShift
  <2>. QED  BY <2>1, <2>3
<1>6. Words(Tail(s)) \in Nat
  BY <1>1, WordsNat
<1>. QED  BY <1>1, <1>2, <1>3, <1>4, <1>5, <1>6

\* One more TLV.
LEMMA WordsAppend ==
  ASSUME NEW s \in Seq(TLVs), NEW t \in TLVs
  PROVE  Append(s, t) \in Seq(TLVs) /\ Words(Append(s, t)) = Words(s) + t.size
<1>. DEFINE r == Append(s, t)
<1>1. /\ r \in Seq(TLVs) /\ Len(r) = Len(s) + 1 /\ Len(s) \in Nat /\ r[Len(r)] = t
      /\ Len(r) \in 1 .. Len(r)
      /\ \A n \in 1 .. Len(s) : r[n + 0] = s[n]
  OBVIOUS
<1>. HIDE DEF r
<1>2. PICK f : Adds(f, r) /\ Words(r) = f[Len(r)]
  BY <1>1, WordsSum
<1>3. PICK g : Adds(g, s) /\ Words(s) = g[Len(s)]
  BY WordsSum
<1>4. f[0] = 0
  BY <1>1, <1>2, SumForm
<1>5. f[Len(s) + 0] = g[Len(s)] + 0
  <2>1. PICK k, c, d : k = Len(s) /\ c = 0 /\ d = 0
    OBVIOUS
  <2>2. /\ k \in Nat /\ c \in Nat /\ d \in Nat /\ k <= Len(s) /\ k + d <= Len(r)
        /\ f[d] = c /\ \A n \in 1 .. k : r[n + d] = s[n]
    BY <1>1, <1>4, <2>1
  <2>3. f[k + d] = g[k] + c
    BY <1>1, <1>2, <1>3, <2>2, SumShift
  <2>. QED  BY <2>1, <2>3
<1>6. f[Len(r)] = f[Len(r) - 1] + t.size
  BY <1>1, <1>2, SumForm
<1>7. Len(r) - 1 = Len(s) /\ Len(s) + 0 = Len(s)
  BY <1>1
<1>8. Words(s) \in Nat
  BY WordsNat
<1>9. Words(r) = Words(s) + t.size
  BY <1>2, <1>3, <1>5, <1>6, <1>7, <1>8
<1>. QED  BY <1>1, <1>9 DEF r


-----------------------------------------------------------------------------
(***************************************************************************)
(* The table, the sizes and parts of messages.                             *)
(***************************************************************************)

\* The table has six types, each once.
LEMMA TableTypes ==
  /\ Len(Table) = 6
  /\ Types = {"info", "connect", "extended", "supported", "cookie", "error"}
  /\ \A k \in 1 .. 6 : Table[k] \in Types /\ Upto(k) = Upto(k - 1) \cup {Table[k]}
                       /\ Table[k] \notin Upto(k - 1)
  /\ Upto(0) = {} /\ Upto(6) = Types
<1>1. Len(Table) = 6
  BY DEF Table
<1>2. DOMAIN Table = 1 .. 6
  BY DEF Table
<1>3. /\ Table[1] = "info" /\ Table[2] = "connect" /\ Table[3] = "extended"
      /\ Table[4] = "supported" /\ Table[5] = "cookie" /\ Table[6] = "error"
  BY DEF Table
<1>4. Types = {"info", "connect", "extended", "supported", "cookie", "error"}
  <2>1. \A n \in 1 .. 6 : n = 1 \/ n = 2 \/ n = 3 \/ n = 4 \/ n = 5 \/ n = 6
    OBVIOUS
  <2>2. \A t : t \in Types => t \in {"info", "connect", "extended", "supported", "cookie", "error"}
    BY <1>2, <1>3, <2>1 DEF Types
  <2>3. \A t : t \in {"info", "connect", "extended", "supported", "cookie", "error"} => t \in Types
    BY <1>2, <1>3 DEF Types
  <2>. QED  BY <2>2, <2>3
<1>5. \A k, n \in 1 .. 6 : Table[k] = Table[n] => k = n
  <2>. SUFFICES ASSUME NEW k \in 1 .. 6, NEW n \in 1 .. 6, k # n
                PROVE  Table[k] # Table[n]
    OBVIOUS
  <2>1. \A m \in 1 .. 6 : m = 1 \/ m = 2 \/ m = 3 \/ m = 4 \/ m = 5 \/ m = 6
    OBVIOUS
  <2>. QED  BY <1>3, <2>1
<1>6. Upto(0) = {} /\ Upto(6) = Types
  BY <1>2 DEF Upto, Types
<1>7. ASSUME NEW k \in 1 .. 6
      PROVE  Table[k] \in Types /\ Upto(k) = Upto(k - 1) \cup {Table[k]} /\ Table[k] \notin Upto(k - 1)
  <2>1. \A n : n \in 1 .. k <=> n \in 1 .. k - 1 \/ n = k
    OBVIOUS
  <2>2. Upto(k) = Upto(k - 1) \cup {Table[k]}
    BY <2>1 DEF Upto
  <2>3. \A n \in 1 .. k - 1 : n \in 1 .. 6 /\ n # k
    OBVIOUS
  <2>4. Table[k] \notin Upto(k - 1)
    BY <1>5, <2>3 DEF Upto
  <2>5. Table[k] \in Types
    BY <1>2 DEF Types
  <2>. QED  BY <2>2, <2>4, <2>5
<1>. QED  BY <1>1, <1>4, <1>6, <1>7

\* Only Info, which convert_write cannot write, comes before Connect.
LEMMA ConnectEarly ==
  \A k \in 1 .. 6 : "connect" \in Upto(k - 1) \/ Table[k] \in {"info", "connect"}
<1>1. Table[1] = "info" /\ Table[2] = "connect"
  BY DEF Table
<1>2. \A k \in 1 .. 6 : k = 1 \/ k = 2 \/ 2 \in 1 .. k - 1
  OBVIOUS
<1>. QED  BY <1>1, <1>2 DEF Upto

\* What a TLV needs is a number of words, with room for its contents.
LEMMA NeedWords ==
  ASSUME NEW o \in Opts, NEW t \in Written
  PROVE  \E w \in Nat \ {0} :
           /\ Need(o, t) = 4 * w /\ Need(o, t) \div 4 = w
           /\ t = "connect" => w = 5
           /\ t = "cookie" => 4 * w - 4 - o.cookie_len \in 0 .. 3
           /\ t = "extended" => 4 * w - 4 - o.tcp_len \in 0 .. 3
<1>1. o.cookie_len \in Nat /\ o.tcp_len \in Nat
  BY CodecAssumption DEF Opts
<1>2. \A b \in Nat : /\ CONVERT_ALIGN(b) = 4 * ((b + 3) \div 4)
                     /\ CONVERT_ALIGN(b) \div 4 = (b + 3) \div 4 /\ (b + 3) \div 4 \in Nat
                     /\ 4 * ((b + 3) \div 4) - b \in 0 .. 3
  BY DEF CONVERT_ALIGN
<1>. DEFINE b == CASE t = "connect" -> 20 [] t = "error" -> 3
                   [] t = "extended" -> 4 + o.tcp_len [] OTHER -> 4 + o.cookie_len
<1>3. b \in Nat /\ b >= 3 /\ Need(o, t) = CONVERT_ALIGN(b)
  BY <1>1 DEF Need
<1>4. /\ t = "connect" => b = 20
      /\ t = "cookie" => b = 4 + o.cookie_len
      /\ t = "extended" => b = 4 + o.tcp_len
  OBVIOUS
<1>. HIDE DEF b
<1>5. PICK w : w = (b + 3) \div 4
  OBVIOUS
<1>6. w \in Nat /\ 4 * w - b \in 0 .. 3 /\ Need(o, t) = 4 * w /\ Need(o, t) \div 4 = w
  BY <1>2, <1>3, <1>5
<1>. QED  BY <1>1, <1>3, <1>4, <1>6

\* Size is what the TLV needs.
LEMMA SizeNeed == \A t : Size(t) = Need(opts, t)
BY DEF Size, Need

\* A TLV that convert_write wrote.
LEMMA WrittenFacts ==
  ASSUME NEW o \in Opts, NEW t \in TLVs, WrittenTlv(o, t)
  PROVE  /\ t.type \in Written /\ t.type \in o.flags /\ t.length = t.size /\ t.size \in Nat \ {0}
         /\ t.addr = o.addr /\ t.error_code = o.error_code
         /\ t.type = "connect" => t.length = 5
         /\ t.type = "cookie" => 4 * t.length - 4 - o.cookie_len \in 0 .. 3
         /\ t.type = "extended" => 4 * t.length - 4 - o.tcp_len \in 0 .. 3
<1>1. /\ t.type \in Written /\ t.type \in o.flags /\ t.length = t.size
      /\ t.size = Need(o, t.type) \div 4 /\ t.addr = o.addr /\ t.error_code = o.error_code
  BY DEF WrittenTlv
<1>2. t.size \in Nat \ {0}
  BY DEF TLVs
<1>. QED  BY <1>1, <1>2, NeedWords

\* The rest of a sequence, after its first TLV.
LEMMA Rest ==
  ASSUME NEW s \in Seq(TLVs), s # <<>>
  PROVE  /\ 1 \in 1 .. Len(s) /\ Head(s) = s[1] /\ Tail(s) \in Seq(TLVs)
         /\ Len(s) \in Nat /\ Len(Tail(s)) = Len(s) - 1
         /\ \A n \in 1 .. Len(Tail(s)) : n + 1 \in 1 .. Len(s) /\ Tail(s)[n] = s[n + 1]
         /\ TypesOf(s) = TypesOf(Tail(s)) \cup {Head(s).type}
<1>1. /\ 1 \in 1 .. Len(s) /\ Head(s) = s[1] /\ Tail(s) \in Seq(TLVs)
      /\ Len(s) \in Nat /\ Len(Tail(s)) = Len(s) - 1
      /\ \A n \in 1 .. Len(Tail(s)) : n + 1 \in 1 .. Len(s) /\ Tail(s)[n] = s[n + 1]
  OBVIOUS
<1>2. \A n \in 1 .. Len(s) : n = 1 \/ (n - 1 \in 1 .. Len(Tail(s)) /\ Tail(s)[n - 1] = s[n])
  BY <1>1
<1>3. TypesOf(s) \subseteq TypesOf(Tail(s)) \cup {Head(s).type}
  BY <1>1, <1>2 DEF TypesOf
<1>4. TypesOf(Tail(s)) \cup {Head(s).type} \subseteq TypesOf(s)
  BY <1>1 DEF TypesOf
<1>. QED  BY <1>1, <1>3, <1>4

\* The rest of a framed message is framed.
LEMMA FramedTail ==
  ASSUME NEW s \in Seq(TLVs), s # <<>>, Framed(s)
  PROVE  /\ Framed(Tail(s))
         /\ Head(s).length \in {0, Head(s).size} \/ (Tail(s) = <<>> /\ Head(s).length > Head(s).size)
<1>1. PICK r : r = Tail(s)
  OBVIOUS
<1>2. /\ r \in Seq(TLVs) /\ Len(s) \in Nat /\ Len(r) = Len(s) - 1
      /\ \A n \in 1 .. Len(r) : n + 1 \in 1 .. Len(s) /\ r[n] = s[n + 1]
  BY <1>1, Rest
<1>3. \A n \in 1 .. Len(r) : n + 1 = Len(s) => n = Len(r)
  BY <1>2
<1>4. Framed(r)
  BY <1>2, <1>3 DEF Framed
<1>5. \/ s[1].length \in {0, s[1].size}
      \/ 1 = Len(s) /\ s[1].length > s[1].size
  BY Rest DEF Framed
<1>6. Len(s) = 1 => r = <<>>
  BY <1>2
<1>7. Head(s) = s[1]
  BY Rest
<1>. QED  BY <1>1, <1>4, <1>5, <1>6, <1>7

\* What comes once comes once in the rest, and not again after the first TLV.
LEMMA OnceTail ==
  ASSUME NEW s \in Seq(TLVs), s # <<>>, NEW TS, Once(s, TS)
  PROVE  Once(Tail(s), TS) /\ (Head(s).type \in TS => Head(s).type \notin TypesOf(Tail(s)))
<1>1. PICK r : r = Tail(s)
  OBVIOUS
<1>2. /\ r \in Seq(TLVs) /\ Len(r) \in Nat /\ 1 \in 1 .. Len(s) /\ Head(s) = s[1]
      /\ \A n \in 1 .. Len(r) : n + 1 \in 1 .. Len(s) /\ r[n] = s[n + 1]
  BY <1>1, Rest
<1>3. ASSUME NEW n \in 1 .. Len(r), NEW m \in 1 .. Len(r),
             r[n].type \in TS, r[n].type = r[m].type
      PROVE  n = m
  <2>1. n + 1 = m + 1
    BY <1>2, <1>3 DEF Once
  <2>. QED  BY <2>1
<1>4. ASSUME NEW n \in 1 .. Len(r), s[1].type \in TS, r[n].type = s[1].type
      PROVE  FALSE
  <2>1. n + 1 = 1
    BY <1>2, <1>4 DEF Once
  <2>. QED  BY <2>1
<1>5. Once(r, TS)
  BY <1>3 DEF Once
<1>. QED  BY <1>1, <1>2, <1>4, <1>5 DEF TypesOf

\* The rest of what convert_write writes.
LEMMA PartTail ==
  ASSUME NEW o, NEW s \in Seq(TLVs), s # <<>>, PartOf(o, s)
  PROVE  /\ PartOf(o, Tail(s)) /\ WrittenTlv(o, Head(s))
         /\ Head(s).type \in Types => Head(s).type \notin TypesOf(Tail(s))
<1>1. Once(s, Types)
  BY DEF PartOf
<1>2. Once(Tail(s), Types) /\ (Head(s).type \in Types => Head(s).type \notin TypesOf(Tail(s)))
  BY <1>1, OnceTail
<1>3. \A n \in 1 .. Len(Tail(s)) : WrittenTlv(o, Tail(s)[n])
  BY Rest DEF PartOf
<1>4. WrittenTlv(o, Head(s))
  BY Rest DEF PartOf
<1>. QED  BY <1>2, <1>3, <1>4 DEF PartOf

\* One more TLV, of a type that is not there yet.
LEMMA PartAppend ==
  ASSUME NEW o, NEW s \in Seq(TLVs), NEW t \in TLVs, PartOf(o, s), WrittenTlv(o, t),
         t.type \notin TypesOf(s)
  PROVE  PartOf(o, Append(s, t)) /\ TypesOf(Append(s, t)) = TypesOf(s) \cup {t.type}
<1>1. PICK r : r = Append(s, t)
  OBVIOUS
<1>2. /\ r \in Seq(TLVs) /\ Len(s) \in Nat /\ Len(r) = Len(s) + 1 /\ r[Len(r)] = t
      /\ \A n \in 1 .. Len(s) : r[n] = s[n] /\ n \in 1 .. Len(r)
      /\ Len(r) \in 1 .. Len(r)
  BY <1>1
<1>3. \A n \in 1 .. Len(r) : n \in 1 .. Len(s) \/ n = Len(r)
  BY <1>2
<1>4. \A n \in 1 .. Len(r) : WrittenTlv(o, r[n])
  BY <1>2, <1>3 DEF PartOf
<1>5. \A n \in 1 .. Len(s) : s[n].type # t.type
  BY DEF TypesOf
<1>6. Once(r, Types)
  BY <1>2, <1>3, <1>5 DEF Once, PartOf
<1>7. TypesOf(r) = TypesOf(s) \cup {t.type}
  BY <1>2, <1>3 DEF TypesOf
<1>. QED  BY <1>1, <1>4, <1>6, <1>7 DEF PartOf

\* What convert_write writes is framed.
LEMMA PartFramed ==
  ASSUME NEW o, NEW s, PartOf(o, s)
  PROVE  Framed(s) /\ \A n \in 1 .. Len(s) : s[n].length = s[n].size
BY DEF PartOf, Framed, WrittenTlv

\* An empty message.
LEMMA EmptyPart ==
  /\ <<>> \in Seq(TLVs) /\ Words(<<>>) = 0 /\ TypesOf(<<>>) = {} /\ Framed(<<>>)
  /\ \A o : PartOf(o, <<>>)
<1>1. <<>> \in Seq(TLVs)
  OBVIOUS
<1>2. Words(<<>>) = 0
  BY <1>1, WordsNat
<1>3. \A n : n \notin 1 .. Len(<<>>)
  OBVIOUS
<1>. QED  BY <1>1, <1>2, <1>3 DEF TypesOf, Framed, PartOf, Once


-----------------------------------------------------------------------------
(***************************************************************************)
(* The invariant holds at first, and every step keeps it.                  *)
(***************************************************************************)

\* Initially nothing is written, or the message comes from elsewhere.
LEMMA InvInit == Init => IInv
<1>. SUFFICES ASSUME Init  PROVE IInv
  OBVIOUS
<1>1. /\ i = 1 /\ rest = <<>> /\ buff_len = 0 /\ parsed = Nothing /\ dests = <<>> /\ heap = Freed
      /\ data = <<>> /\ torn = FALSE
  BY DEF Init
<1>2. /\ Parsing /\ Connecting /\ AtTlv /\ Received /\ RoundTrip /\ OptsAccounted /\ FailsOK
  BY <1>1 DEF Init, Parsing, Connecting, AtTlv, Received, RoundTrip, OptsAccounted, FailsOK, Final
<1>t. /\ i \in 1 .. Len(Table) + 1 /\ rest \in Seq(TLVs) /\ data \in Seq(TLVs) /\ torn \in BOOLEAN
      /\ buff_len \in Nat /\ heap \in Heap
      /\ dests \in Seq(Addrs \cup {Garbled})
      /\ parsed \in [flags : SUBSET Types, addr : Addrs \cup Addrs6 \cup {Empty},
                     error_code : Codes \cup {Empty}, cookie_len : Nat, tcp_len : Nat]
  <2>1. i \in 1 .. Len(Table) + 1 /\ buff_len \in Nat
    BY <1>1, TableTypes
  <2>3. rest \in Seq(TLVs) /\ data \in Seq(TLVs) /\ dests \in Seq(Addrs \cup {Garbled})
    BY <1>1
  <2>4. torn \in BOOLEAN
    BY <1>1, Zenon
  <2>2. heap \in Heap
    BY <1>1 DEF Freed, Heap
  <2>5. parsed \in [flags : SUBSET Types, addr : Addrs \cup Addrs6 \cup {Empty},
                     error_code : Codes \cup {Empty}, cookie_len : Nat, tcp_len : Nat]
    BY <1>1 DEF Nothing
  <2>. QED  BY <2>1, <2>2, <2>3, <2>4, <2>5
<1>3. CASE pc = "write" /\ foreign = FALSE /\ opts \in Opts
           /\ wire = <<>> /\ left = BufLen - 4 /\ total_length = 0
  <2>1. Sent
    BY <1>3 DEF Sent
  <2>2. Writing
    BY <1>1, <1>3, TableTypes, EmptyPart, CodecAssumption DEF Writing
  <2>3. TypeOK
    <3>1. left \in 0 .. BufLen /\ total_length \in 0 .. BYTE - 1 /\ wire \in Seq(TLVs)
      BY <1>3, CodecAssumption DEF BYTE
    <3>. QED  BY <1>t, <1>3, <3>1 DEF TypeOK, Final
  <2>. QED  BY <1>2, <2>1, <2>2, <2>3 DEF IInv
<1>4. CASE pc = "sent" /\ foreign = TRUE /\ opts = Nothing
           /\ wire \in Foreign /\ left = 0 /\ total_length = Header + Words(wire)
  <2>1. Sent
    BY <1>4 DEF Sent
  <2>2. Writing
    BY <1>4 DEF Writing
  <2>3. wire \in Seq(TLVs) /\ Words(wire) \in Nat /\ total_length \in 0 .. BYTE - 1
    <3>1. wire \in Seq(TLVs) /\ Header + Words(wire) < BYTE
      BY <1>4, CodecAssumption
    <3>2. Words(wire) \in Nat
      BY <3>1, WordsNat
    <3>3. PICK w : w = Words(wire)
      OBVIOUS
    <3>4. w \in Nat /\ 1 + w < 256 /\ total_length = 1 + w
      BY <1>4, <3>1, <3>2, <3>3 DEF Header, BYTE
    <3>5. total_length \in 0 .. 256 - 1
      BY <3>4
    <3>. QED  BY <3>1, <3>2, <3>5 DEF BYTE
  <2>4. TypeOK
    BY <1>t, <1>4, <2>3, CodecAssumption DEF TypeOK, Final
  <2>. QED  BY <1>2, <2>1, <2>2, <2>4 DEF IInv
<1>. QED  BY <1>3, <1>4 DEF Init

\* How much convert_write has written, while its options last.
LEMMA WrittenWords ==
  ASSUME TypeOK, Writing, ~foreign
  PROVE  /\ Words(wire) \in Nat /\ 4 * Words(wire) + left = BufLen - 4
         /\ Words(wire) < BYTE /\ BufLen <= 4 * BYTE /\ BufLen \in Nat /\ left \in Nat
<1>1. wire \in Seq(TLVs) /\ left \in Nat /\ BufLen \in Nat /\ BufLen <= 4 * BYTE
  BY CodecAssumption DEF TypeOK
<1>2. left + 4 * Words(wire) = BufLen - 4
  BY DEF Writing
<1>3. Words(wire) \in Nat
  BY <1>1, WordsNat
<1>. QED  BY <1>1, <1>2, <1>3 DEF BYTE

\* A turn of _convert_write_tlvs.
LEMMA WriteTlvStep == IInv /\ WriteTlv => IInv'
<1>. SUFFICES ASSUME IInv, WriteTlv  PROVE IInv'
  OBVIOUS
<1>0. /\ TypeOK /\ Writing /\ Sent /\ AtTlv /\ Parsing /\ Connecting
      /\ pc = "write" /\ ~foreign
  BY DEF IInv, WriteTlv, Sent
<1>u. UNCHANGED <<opts, foreign, total_length, data, torn, rest, buff_len, parsed, heap, dests>>
  BY DEF WriteTlv, received
<1>1. PICK t : t = Table[i]
  OBVIOUS
<1>2. /\ i \in 1 .. 6 /\ t \in Types /\ Upto(i) = Upto(i - 1) \cup {t} /\ t \notin Upto(i - 1)
      /\ i + 1 \in 1 .. Len(Table) + 1 /\ (i + 1) - 1 = i
  <2>1. i \in 1 .. 6 /\ Len(Table) = 6
    BY <1>0, TableTypes DEF WriteTlv, TypeOK
  <2>. QED  BY <1>1, <2>1, TableTypes
<1>3. /\ opts \in Opts /\ PartOf(opts, wire) /\ TypesOf(wire) = opts.flags \cap Upto(i - 1)
      /\ left + 4 * Words(wire) = BufLen - 4
      /\ "connect" \in opts.flags /\ wire # <<>> => wire[1].type = "connect"
  BY <1>0 DEF Writing
<1>4. \/ t \notin opts.flags /\ i' = i + 1 /\ UNCHANGED <<pc, left, wire>>
      \/ pc' = "nospace" /\ UNCHANGED <<i, left, wire>>
      \/ /\ t \in opts.flags \ {"info", "supported"} /\ left >= Size(t)
         /\ wire' = Append(wire, TLV(t, LengthField(t), Size(t) \div 4, opts.addr, opts.error_code))
         /\ left' = left - Size(t) /\ i' = i + 1 /\ UNCHANGED pc
  BY <1>1 DEF WriteTlv
<1>5. parsed = Nothing /\ heap = Freed /\ dests = <<>>
  BY <1>0 DEF Parsing
<1>6. pc' \in {"write", "nospace"}
  BY <1>0, <1>4
<1>7. /\ Sent' /\ AtTlv' /\ Received' /\ Parsing' /\ Connecting' /\ RoundTrip' /\ OptsAccounted'
      /\ FailsOK'
  BY <1>0, <1>u, <1>5, <1>6
     DEF Sent, AtTlv, Received, Parsing, Connecting, RoundTrip, OptsAccounted, FailsOK, Freed, Final
<1>8. CASE t \notin opts.flags /\ i' = i + 1 /\ UNCHANGED <<pc, left, wire>>
  <2>1. TypeOK'
    BY <1>0, <1>u, <1>2, <1>8 DEF TypeOK
  <2>2. TypesOf(wire) = opts.flags \cap Upto(i)
    BY <1>2, <1>3, <1>8
  <2>3. Writing'
    BY <1>u, <1>2, <1>3, <1>8, <2>2 DEF Writing
  <2>. QED  BY <1>7, <2>1, <2>3 DEF IInv
<1>9. CASE pc' = "nospace" /\ UNCHANGED <<i, left, wire>>
  <2>1. TypeOK'
    BY <1>0, <1>u, <1>9 DEF TypeOK, Final
  <2>2. Writing'
    BY <1>u, <1>3, <1>9 DEF Writing
  <2>. QED  BY <1>7, <2>1, <2>2 DEF IInv
<1>10. CASE /\ t \in opts.flags \ {"info", "supported"} /\ left >= Size(t)
            /\ wire' = Append(wire, TLV(t, LengthField(t), Size(t) \div 4, opts.addr, opts.error_code))
            /\ left' = left - Size(t) /\ i' = i + 1 /\ UNCHANGED pc
  <2>1. t \in Written
    BY <1>2, <1>10, TableTypes DEF Written
  <2>2. PICK w \in Nat \ {0} : Need(opts, t) = 4 * w /\ Need(opts, t) \div 4 = w
    BY <1>3, <2>1, NeedWords
  <2>3. Size(t) = 4 * w /\ Size(t) \div 4 = w
    BY <2>2, SizeNeed
  <2>4. Words(wire) \in Nat /\ left \in Nat /\ 4 * Words(wire) + left = BufLen - 4 /\ BufLen <= 4 * BYTE
        /\ BufLen \in Nat
    BY <1>0, WrittenWords
  <2>5. w \in 1 .. BYTE - 1 /\ left >= 4 * w
    BY <1>10, <2>3, <2>4 DEF BYTE
  <2>6. LengthField(t) = w
    BY <2>3, <2>5 DEF LengthField, BYTE
  <2>7. PICK u : u = TLV(t, w, w, opts.addr, opts.error_code)
    OBVIOUS
  <2>8. u \in TLVs /\ u.type = t /\ u.size = w
    BY <1>2, <1>3, <2>5, <2>7 DEF TLV, TLVs, Opts, BYTE
  <2>9. WrittenTlv(opts, u)
    BY <1>10, <2>1, <2>2, <2>7 DEF TLV, WrittenTlv
  <2>10. wire' = Append(wire, u)
    BY <1>10, <2>3, <2>6, <2>7
  <2>11. wire \in Seq(TLVs)
    BY <1>0 DEF TypeOK
  <2>12. u.type \notin TypesOf(wire)
    BY <1>2, <1>3, <2>8
  <2>13. PartOf(opts, wire') /\ TypesOf(wire') = TypesOf(wire) \cup {t}
    BY <1>3, <2>8, <2>9, <2>10, <2>11, <2>12, PartAppend
  <2>14. wire' \in Seq(TLVs) /\ Words(wire') = Words(wire) + w
    BY <2>8, <2>10, <2>11, WordsAppend
  <2>15. left' \in 0 .. BufLen /\ left' + 4 * Words(wire') = BufLen - 4
    BY <1>10, <2>3, <2>4, <2>5, <2>14
  <2>16. TypesOf(wire') = opts.flags \cap Upto(i)
    BY <1>2, <1>3, <1>10, <2>13
  <2>f. "connect" \in opts.flags => wire'[1].type = "connect"
    <3>. SUFFICES ASSUME "connect" \in opts.flags  PROVE wire'[1].type = "connect"
      OBVIOUS
    <3>1. CASE wire = <<>>
      <4>1. wire'[1] = u
        BY <2>10, <3>1
      <4>2. "connect" \notin Upto(i - 1)
        BY <1>3, <3>1, EmptyPart
      <4>3. t = "connect"
        BY <1>1, <1>2, <1>10, <4>2, ConnectEarly
      <4>. QED  BY <2>8, <4>1, <4>3
    <3>2. CASE wire # <<>>
      <4>1. wire'[1] = wire[1]
        BY <2>8, <2>10, <2>11, <3>2
      <4>. QED  BY <1>3, <3>2, <4>1
    <3>. QED  BY <3>1, <3>2
  <2>17. Writing'
    BY <1>u, <1>2, <1>3, <1>10, <2>13, <2>15, <2>16, <2>f DEF Writing
  <2>18. TypeOK'
    BY <1>0, <1>u, <1>2, <1>10, <2>14, <2>15 DEF TypeOK
  <2>. QED  BY <1>7, <2>17, <2>18 DEF IInv
<1>. QED  BY <1>4, <1>8, <1>9, <1>10

\* convert_write writes the header.
LEMMA WriteHeaderStep == IInv /\ WriteHeader => IInv'
<1>. SUFFICES ASSUME IInv, WriteHeader  PROVE IInv'
  OBVIOUS
<1>0. /\ TypeOK /\ Writing /\ Sent /\ AtTlv /\ Parsing /\ Connecting
      /\ pc = "write" /\ ~foreign
  BY DEF IInv, WriteHeader, Sent
<1>u. /\ UNCHANGED <<opts, foreign, i, left, wire, data, torn, rest, buff_len, parsed, heap, dests>>
      /\ pc' = "sent" /\ total_length' = TotalLength
  BY DEF WriteHeader, received
<1>1. i = Len(Table) + 1
  BY <1>0, TableTypes DEF WriteHeader, TypeOK
<1>2. TotalLength = (Header + Words(wire)) % BYTE
  <2>1. (BufLen - left) = 4 * (Header + Words(wire)) /\ Words(wire) \in Nat
    BY <1>0, WrittenWords DEF Header
  <2>2. (BufLen - left) \div 4 = Header + Words(wire)
    BY <2>1 DEF Header
  <2>. QED  BY <2>2 DEF TotalLength
<1>3. total_length' \in 0 .. BYTE - 1
  <2>1. Words(wire) \in Nat
    BY <1>0, WrittenWords
  <2>. QED  BY <1>u, <1>2, <2>1 DEF Header, BYTE
<1>4. TypeOK'
  BY <1>0, <1>u, <1>3 DEF TypeOK
<1>5. Writing'
  BY <1>0, <1>u DEF Writing
<1>6. Sent'
  BY <1>0, <1>u, <1>1, <1>2 DEF Sent
<1>7. /\ AtTlv' /\ Received' /\ Parsing' /\ Connecting' /\ RoundTrip' /\ OptsAccounted' /\ FailsOK'
  BY <1>0, <1>u DEF AtTlv, Received, Parsing, Connecting, RoundTrip, OptsAccounted, FailsOK, Final
<1>. QED  BY <1>4, <1>5, <1>6, <1>7 DEF IInv


\* All the types the table has have been written when the message is sent.
LEMMA SentTypes ==
  ASSUME TypeOK, Writing, Sent, ~foreign, pc \notin {"write", "nospace"}
  PROVE  /\ TypesOf(wire) = opts.flags /\ PartOf(opts, wire) /\ opts \in Opts
         /\ Words(wire) \in Nat /\ Words(wire) < BYTE
         /\ total_length = (Header + Words(wire)) % BYTE
<1>1. i = Len(Table) + 1 /\ total_length = (Header + Words(wire)) % BYTE
  BY DEF Sent
<1>2. i - 1 = 6
  BY <1>1, TableTypes
<1>3. opts \in Opts /\ PartOf(opts, wire) /\ TypesOf(wire) = opts.flags \cap Upto(i - 1)
  BY DEF Writing
<1>4. opts.flags \subseteq Types
  BY <1>3 DEF Opts
<1>5. TypesOf(wire) = opts.flags
  BY <1>2, <1>3, <1>4, TableTypes
<1>. QED  BY <1>1, <1>3, <1>5, WrittenWords

\* What does not depend on the reader stays as it is when the message does.
LEMMA MessageKept ==
  ASSUME IInv, UNCHANGED message, pc \notin {"write", "nospace"}, pc' \notin {"write", "nospace"}
  PROVE  Writing' /\ Sent'
BY DEF IInv, message, Writing, Sent

\* _read_convert reads the header.
LEMMA CHeaderStep == IInv /\ CHeader => IInv'
<1>. SUFFICES ASSUME IInv, CHeader  PROVE IInv'
  OBVIOUS
<1>0. /\ TypeOK /\ Writing /\ Sent /\ Parsing /\ pc = "sent"
  BY DEF IInv, CHeader
<1>u. UNCHANGED message /\ UNCHANGED <<parsed, dests>>
      /\ UNCHANGED <<opts, foreign, i, left, wire, total_length, data, torn>>
  BY DEF CHeader, message, received
<1>1. \/ total_length = 0 /\ pc' = "undefined" /\ UNCHANGED <<rest, buff_len, heap>>
      \/ total_length = Header /\ pc' = "cdone" /\ UNCHANGED <<rest, buff_len, heap>>
      \/ /\ total_length > Header /\ rest' = wire /\ buff_len' = total_length - Header
         /\ \/ pc' = "ctlv" /\ heap' = [heap EXCEPT !.opts = 1]
            \/ pc' = "nomem" /\ UNCHANGED heap
      \/ foreign /\ pc' = "cfail" /\ UNCHANGED <<rest, buff_len, heap>>
  BY DEF CHeader
<1>2. pc' \in {"undefined", "cdone", "ctlv", "nomem", "cfail"}
  BY <1>1
<1>3. Writing' /\ Sent'
  BY <1>0, <1>u, <1>2, MessageKept
<1>4. parsed = Nothing /\ heap = Freed /\ dests = <<>>
  BY <1>0 DEF Parsing
<1>5. wire \in Seq(TLVs) /\ Words(wire) \in Nat
  BY <1>0, WordsNat DEF TypeOK
<1>6. total_length \in Nat /\ (total_length > Header => total_length - Header = Words(wire))
  <2>1. CASE foreign
    BY <1>0, <1>5, <2>1 DEF Sent, Header
  <2>2. CASE ~foreign
    <3>1. Words(wire) \in Nat /\ Words(wire) < BYTE /\ total_length = (Header + Words(wire)) % BYTE
      BY <1>0, <2>2, SentTypes
    <3>2. PICK w : w = Words(wire)
      OBVIOUS
    <3>3. w \in Nat /\ w < 256 /\ total_length = (1 + w) % 256
      BY <3>1, <3>2 DEF Header, BYTE
    <3>4. total_length \in Nat /\ (total_length > 1 => total_length - 1 = w)
      BY <3>3
    <3>. QED  BY <3>2, <3>4 DEF Header
  <2>. QED  BY <2>1, <2>2
<1>7. heap' \in Heap /\ rest' \in Seq(TLVs) /\ buff_len' \in Nat
  <2>1. heap' \in Heap
    BY <1>1, <1>4 DEF Heap, Freed
  <2>2. rest' \in Seq(TLVs) /\ buff_len' \in Nat
    BY <1>0, <1>1, <1>5, <1>6 DEF TypeOK, Header
  <2>. QED  BY <2>1, <2>2
<1>8. TypeOK'
  BY <1>0, <1>u, <1>2, <1>7 DEF TypeOK, Final
<1>9. Connecting' /\ Received' /\ FailsOK'
  BY <1>2 DEF Connecting, Received, FailsOK
<1>10. CASE pc' # "ctlv"
  <2>1. AtTlv'
    BY <1>2, <1>10 DEF AtTlv
  <2>2. heap' = heap
    BY <1>1, <1>10
  <2>3. Parsing'
    BY <1>2, <1>10 DEF Parsing
  <2>4. OptsAccounted'
    <3>1. pc' = "cdone" => total_length' = Header
      BY <1>u, <1>1
    <3>2. heap' = Freed
      BY <1>4, <2>2
    <3>. QED  BY <3>1, <3>2 DEF OptsAccounted, Freed
  <2>5. pc' = "cfail" => foreign
    BY <1>1
  <2>6. ASSUME pc' = "cdone", ~foreign  PROVE opts.flags = {}
    <3>1. total_length = Header
      BY <1>1, <2>6
    <3>2. Words(wire) \in Nat /\ Words(wire) < BYTE /\ total_length = (Header + Words(wire)) % BYTE
          /\ TypesOf(wire) = opts.flags
      BY <1>0, <2>6, SentTypes
    <3>3. PICK w : w = Words(wire)
      OBVIOUS
    <3>4. w \in Nat /\ w < 256 /\ 1 = (1 + w) % 256
      BY <3>1, <3>2, <3>3 DEF Header, BYTE
    <3>5. w = 0
      BY <3>4
    <3>6. wire = <<>>
      BY <1>5, <3>3, <3>5, WordsNat
    <3>. QED  BY <3>2, <3>6, EmptyPart
  <2>7. RoundTrip'
    BY <1>u, <1>4, <2>5, <2>6 DEF RoundTrip, Nothing
  <2>. QED  BY <1>3, <1>8, <1>9, <2>1, <2>3, <2>4, <2>7 DEF IInv
<1>11. CASE pc' = "ctlv"
  <2>1. rest' = wire /\ buff_len' = Words(wire) /\ heap' = [heap EXCEPT !.opts = 1]
    BY <1>1, <1>6, <1>11
  <2>2. RoundTrip' /\ OptsAccounted'
    BY <1>11 DEF RoundTrip, OptsAccounted, Final
  <2>3. Framed(wire)
    <3>1. CASE foreign
      BY <1>0, <3>1, CodecAssumption DEF Sent
    <3>2. CASE ~foreign
      BY <1>0, <3>2, SentTypes, PartFramed
    <3>. QED  BY <3>1, <3>2
  <2>4. ~foreign => TypesOf(wire) = opts.flags /\ PartOf(opts, wire)
    BY <1>0, SentTypes
  <2>5. AtTlv'
    BY <1>u, <1>11, <2>1, <2>3, <2>4 DEF AtTlv
  <2>6. heap'.opts = 1 /\ heap'.extended = 0 /\ heap'.cookie = 0
    BY <1>4, <2>1 DEF Freed
  <2>7. parsed'.flags = {} /\ FieldsRead(opts, parsed')
    BY <1>u, <1>4 DEF Nothing, FieldsRead
  <2>8. ~foreign' => parsed'.flags \cup TypesOf(rest') = opts'.flags /\ FieldsRead(opts', parsed')
    BY <1>u, <2>1, <2>4, <2>7
  <2>9. Once(wire', Contents) =>
            /\ Once(rest', Contents) /\ heap'.extended <= 1 /\ heap'.cookie <= 1
            /\ \A b \in Contents : b \in parsed'.flags => b \notin TypesOf(rest')
    BY <1>u, <2>1, <2>6, <2>7
  <2>10. Parsing'
    BY <1>11, <2>6, <2>8, <2>9 DEF Parsing
  <2>. QED  BY <1>3, <1>8, <1>9, <2>2, <2>5, <2>10 DEF IInv
<1>. QED  BY <1>10, <1>11


\* The struct convert_opts that convert_parse_tlvs fills in.
Returned == [flags : SUBSET Types, addr : Addrs \cup Addrs6 \cup {Empty},
             error_code : Codes \cup {Empty}, cookie_len : Nat, tcp_len : Nat]

\* What a TLV that was read adds.
LEMMA WithTlvFacts ==
  ASSUME NEW p \in Returned, NEW t \in TLVs, t.type \in Written,
         t.type \in Contents => t.length # 0
  PROVE  /\ WithTlv(p, t) \in Returned
         /\ WithTlv(p, t).flags = p.flags \cup {t.type}
         /\ WithTlv(p, t).addr = IF t.type = "connect" THEN t.addr ELSE p.addr
         /\ WithTlv(p, t).error_code = IF t.type = "error" THEN t.error_code ELSE p.error_code
         /\ WithTlv(p, t).tcp_len = IF t.type = "extended" THEN 4 * t.length - 4 ELSE p.tcp_len
         /\ WithTlv(p, t).cookie_len = IF t.type = "cookie" THEN 4 * t.length - 4 ELSE p.cookie_len
<1>1. /\ t.length \in 0 .. 255 /\ t.addr \in Addrs \cup Addrs6 \cup {Empty}
      /\ t.error_code \in Codes \cup {Empty}
  BY DEF TLVs, BYTE
<1>2. t.type \in Contents => 4 * t.length - 4 \in Nat
  BY <1>1
<1>3. PICK q : q = [p EXCEPT !.flags = @ \cup {t.type}]
  OBVIOUS
<1>4. /\ q \in Returned /\ q.flags = p.flags \cup {t.type} /\ q.addr = p.addr
      /\ q.error_code = p.error_code /\ q.tcp_len = p.tcp_len /\ q.cookie_len = p.cookie_len
  <2>1. t.type \in Types
    BY TableTypes DEF Written
  <2>. QED  BY <1>3, <2>1 DEF Returned
<1>5. CASE t.type = "connect"
  <2>1. WithTlv(p, t) = [q EXCEPT !.addr = t.addr]
    BY <1>3, <1>5 DEF WithTlv
  <2>. QED  BY <1>1, <1>4, <1>5, <2>1 DEF Returned
<1>6. CASE t.type = "error"
  <2>1. WithTlv(p, t) = [q EXCEPT !.error_code = t.error_code]
    BY <1>3, <1>6 DEF WithTlv
  <2>. QED  BY <1>1, <1>4, <1>6, <2>1 DEF Returned
<1>7. CASE t.type = "extended"
  <2>1. WithTlv(p, t) = [q EXCEPT !.tcp_len = 4 * t.length - 4]
    BY <1>3, <1>7 DEF WithTlv
  <2>. QED  BY <1>2, <1>4, <1>7, <2>1 DEF Returned, Contents
<1>8. CASE t.type = "cookie"
  <2>1. WithTlv(p, t) = [q EXCEPT !.cookie_len = 4 * t.length - 4]
    BY <1>3, <1>8 DEF WithTlv
  <2>. QED  BY <1>2, <1>4, <1>8, <2>1 DEF Returned, Contents
<1>. QED  BY <1>5, <1>6, <1>7, <1>8 DEF Written

\* The length and the size of a TLV are numbers.
LEMMA TlvNumbers == \A t \in TLVs : t.length \in Nat /\ t.size \in Nat
BY DEF TLVs, BYTE

\* A reader that moves on stays at a TLV of the message.
LEMMA AdvanceFacts ==
  ASSUME TypeOK, rest # <<>>, Framed(rest), buff_len = Words(rest),
         Head(rest).length <= buff_len, Advance(Head(rest))
  PROVE  /\ rest' \in Seq(TLVs) /\ buff_len' \in Nat /\ Framed(rest') /\ buff_len' = Words(rest')
         /\ Head(rest).length = 0 => rest' = rest
         /\ Head(rest).length # 0 => rest' = Tail(rest)
<1>1. PICK t, r : t = Head(rest) /\ r = Tail(rest)
  OBVIOUS
<1>2. rest \in Seq(TLVs) /\ buff_len \in Nat
  BY DEF TypeOK
<1>3. t \in TLVs /\ r \in Seq(TLVs) /\ Words(rest) = t.size + Words(r)
  BY <1>1, <1>2, WordsTail
<1>4. Words(r) \in Nat /\ (r = <<>> => Words(r) = 0)
  BY <1>3, WordsNat
<1>5. t.length \in Nat /\ t.size \in Nat
  BY <1>3, TlvNumbers
<1>6. Framed(r) /\ (t.length \in {0, t.size} \/ (r = <<>> /\ t.length > t.size))
  BY <1>1, <1>2, FramedTail
<1>7. t.length \in {0, t.size}
  <2>1. t.length <= t.size + Words(r)
    BY <1>1, <1>3
  <2>2. ~ (r = <<>> /\ t.length > t.size)
    BY <1>4, <1>5, <2>1
  <2>. QED  BY <1>6, <2>2
<1>8. buff_len' = buff_len - t.length /\ rest' = IF t.length = 0 THEN rest ELSE r
  BY <1>1 DEF Advance
<1>9. CASE t.length = 0
  BY <1>1, <1>2, <1>8, <1>9
<1>10. CASE t.length # 0
  <2>1. t.length = t.size /\ rest' = r
    BY <1>7, <1>8, <1>10
  <2>2. buff_len' = Words(r)
    BY <1>3, <1>4, <1>5, <1>8, <2>1
  <2>. QED  BY <1>1, <1>3, <1>4, <1>6, <1>10, <2>1, <2>2
<1>. QED  BY <1>9, <1>10

\* The blocks that are allocated for a TLV.
LEMMA AllocateFacts ==
  ASSUME heap \in Heap, NEW t, t.type \in Written
  PROVE  /\ Allocate(t) \in Heap /\ Allocate(t).opts = heap.opts
         /\ Allocate(t).extended = heap.extended + (IF t.type = "extended" THEN 1 ELSE 0)
         /\ Allocate(t).cookie = heap.cookie + (IF t.type = "cookie" THEN 1 ELSE 0)
<1>1. heap.extended \in Nat /\ heap.cookie \in Nat /\ heap.opts \in 0 .. 1
  BY DEF Heap
<1>2. CASE t.type = "extended"
  <2>1. Allocate(t) = [heap EXCEPT !.extended = @ + 1]
    BY <1>2 DEF Allocate
  <2>. QED  BY <1>1, <1>2, <2>1 DEF Heap
<1>3. CASE t.type = "cookie"
  <2>1. Allocate(t) = [heap EXCEPT !.cookie = @ + 1]
    BY <1>3 DEF Allocate
  <2>. QED  BY <1>1, <1>3, <2>1 DEF Heap
<1>4. CASE t.type \notin Contents
  <2>1. Allocate(t) = heap
    BY <1>4 DEF Allocate, Contents
  <2>2. t.type # "extended" /\ t.type # "cookie"
    BY <1>4 DEF Contents
  <2>. QED  BY <1>1, <2>1, <2>2
<1>. QED  BY <1>2, <1>3, <1>4 DEF Contents

\* The TLV the C reader is at, and what Bad leaves.
LEMMA AtHead ==
  ASSUME TypeOK, Writing, AtTlv, pc \in {"ctlv", "pytlv"}, buff_len > 0
  PROVE  /\ rest # <<>> /\ rest \in Seq(TLVs) /\ Head(rest) \in TLVs
         /\ Framed(rest) /\ buff_len = Words(rest) /\ buff_len >= Head(rest).size
         /\ ~foreign => /\ opts \in Opts /\ WrittenTlv(opts, Head(rest)) /\ PartOf(opts, Tail(rest))
                        /\ Head(rest).type \notin TypesOf(Tail(rest)) /\ ~Bad(Head(rest))
                        /\ Head(rest).length # 0 /\ Head(rest).length <= buff_len
                        /\ Head(rest).type = "connect" => buff_len >= 5
<1>1. rest \in Seq(TLVs) /\ Framed(rest) /\ buff_len = Words(rest)
  BY DEF TypeOK, AtTlv
<1>2. rest # <<>>
  BY <1>1, WordsNat
<1>3. PICK t : t = Head(rest)
  OBVIOUS
<1>4. t \in TLVs /\ Tail(rest) \in Seq(TLVs) /\ Words(rest) = t.size + Words(Tail(rest))
  BY <1>1, <1>2, <1>3, WordsTail
<1>5. Words(Tail(rest)) \in Nat /\ t.size \in Nat
  BY <1>4, WordsNat DEF TLVs
<1>6. buff_len >= t.size
  BY <1>1, <1>4, <1>5
<1>7. ASSUME ~foreign
      PROVE  /\ opts \in Opts /\ WrittenTlv(opts, t) /\ PartOf(opts, Tail(rest))
             /\ t.type \notin TypesOf(Tail(rest)) /\ ~Bad(t)
             /\ t.length # 0 /\ t.length <= buff_len
             /\ t.type = "connect" => buff_len >= 5
  <2>1. opts \in Opts /\ PartOf(opts, rest)
    BY <1>7 DEF Writing, AtTlv
  <2>2. PartOf(opts, Tail(rest)) /\ WrittenTlv(opts, t)
        /\ (t.type \in Types => t.type \notin TypesOf(Tail(rest)))
    BY <1>1, <1>2, <1>3, <2>1, PartTail
  <2>3. t.type \in Written /\ t.length = t.size /\ t.size \in Nat \ {0}
        /\ (t.type = "connect" => t.length = 5)
    BY <1>4, <2>1, <2>2, WrittenFacts
  <2>4. t.type \in Types
    BY <2>3, TableTypes DEF Written
  <2>5. buff_len \in Nat
    BY DEF TypeOK
  <2>6. ~Bad(t)
    BY <1>6, <2>3, <2>5 DEF Bad, Written
  <2>. QED  BY <1>6, <2>1, <2>2, <2>3, <2>4, <2>5, <2>6
<1>. QED  BY <1>1, <1>2, <1>3, <1>4, <1>6, <1>7


\* error_and_free leaves nothing but contents that were allocated before.
LEMMA GivenUp ==
  ASSUME IInv, pc = "ctlv", UNCHANGED message, pc' \in {"cfail", "nomem"}, pc' = "cfail" => foreign,
         heap' = error_and_free, UNCHANGED <<data, torn, rest, buff_len, parsed, dests>>
  PROVE  IInv'
<1>0. TypeOK /\ Parsing
  BY DEF IInv
<1>u. UNCHANGED <<opts, foreign, i, left, wire, total_length>>
  BY DEF message
<1>1. Writing' /\ Sent'
  BY MessageKept
<1>2. /\ heap \in Heap
      /\ heap.extended # 0 => "extended" \in parsed.flags
      /\ heap.cookie # 0 => "cookie" \in parsed.flags
  BY <1>0 DEF TypeOK, Parsing
<1>3. heap' = [opts |-> 0, extended |-> heap.extended, cookie |-> heap.cookie] /\ heap' \in Heap
  BY <1>2 DEF error_and_free, Heap
<1>4. TypeOK'
  BY <1>0, <1>u, <1>3 DEF TypeOK, Final
<1>5. heap' # Freed => heap'.opts = 0 /\ parsed'.flags \cap {"extended", "cookie"} # {}
  <2>. SUFFICES ASSUME heap' # Freed  PROVE heap'.opts = 0 /\ parsed.flags \cap {"extended", "cookie"} # {}
    OBVIOUS
  <2>1. heap.extended # 0 \/ heap.cookie # 0
    BY <1>3 DEF Freed
  <2>2. "extended" \in parsed.flags \/ "cookie" \in parsed.flags
    BY <1>2, <2>1
  <2>. QED  BY <1>3, <2>2
<1>6. OptsAccounted'
  BY <1>5 DEF OptsAccounted
<1>7. AtTlv' /\ Received' /\ Parsing' /\ Connecting' /\ FailsOK'
  BY DEF AtTlv, Received, Parsing, Connecting, FailsOK
<1>8. RoundTrip'
  BY <1>u DEF RoundTrip
<1>. QED  BY <1>1, <1>4, <1>6, <1>7, <1>8 DEF IInv

\* A turn of convert_parse_tlvs that takes the TLV.
LEMMA TakenTlv ==
  ASSUME IInv, pc = "ctlv", buff_len > 0, ~Bad(Head(rest)), UNCHANGED message,
         UNCHANGED <<pc, data, torn, dests>>,
         parsed' = WithTlv(parsed, Head(rest)), heap' = Allocate(Head(rest)), Advance(Head(rest))
  PROVE  IInv'
<1>0. TypeOK /\ Writing /\ AtTlv /\ Parsing
  BY DEF IInv
<1>u. UNCHANGED <<opts, foreign, i, left, wire, total_length>>
  BY DEF message
<1>1. Writing' /\ Sent'
  BY MessageKept
<1>2. PICK t, r : t = Head(rest) /\ r = Tail(rest)
  OBVIOUS
<1>3. /\ rest # <<>> /\ rest \in Seq(TLVs) /\ t \in TLVs /\ Framed(rest) /\ buff_len = Words(rest)
      /\ ~foreign => /\ opts \in Opts /\ WrittenTlv(opts, t) /\ PartOf(opts, r)
                     /\ t.type \notin TypesOf(r) /\ t.length # 0
  BY <1>0, <1>2, AtHead
<1>4. t.length \in Nat /\ buff_len \in Nat
  BY <1>0, <1>3, TlvNumbers DEF TypeOK
<1>5. /\ t.length <= buff_len /\ t.type \in Written /\ (t.type # "error" => t.length # 0)
  BY <1>2, <1>4 DEF Bad, Written
<1>6. /\ rest' \in Seq(TLVs) /\ buff_len' \in Nat /\ Framed(rest') /\ buff_len' = Words(rest')
      /\ t.length = 0 => rest' = rest
      /\ t.length # 0 => rest' = r
  BY <1>0, <1>2, <1>3, <1>5, AdvanceFacts
<1>7. parsed \in Returned /\ heap \in Heap
  BY <1>0 DEF TypeOK, Returned
<1>8. t.type \in Contents => t.length # 0
  BY <1>5 DEF Contents
<1>9. parsed' = WithTlv(parsed, t) /\ heap' = Allocate(t)
  BY <1>2
<1>10. /\ parsed' \in Returned /\ parsed'.flags = parsed.flags \cup {t.type}
       /\ parsed'.addr = IF t.type = "connect" THEN t.addr ELSE parsed.addr
       /\ parsed'.error_code = IF t.type = "error" THEN t.error_code ELSE parsed.error_code
       /\ parsed'.tcp_len = IF t.type = "extended" THEN 4 * t.length - 4 ELSE parsed.tcp_len
       /\ parsed'.cookie_len = IF t.type = "cookie" THEN 4 * t.length - 4 ELSE parsed.cookie_len
  BY <1>3, <1>5, <1>7, <1>8, <1>9, WithTlvFacts
<1>11. /\ heap' \in Heap /\ heap'.opts = heap.opts
       /\ heap'.extended = heap.extended + (IF t.type = "extended" THEN 1 ELSE 0)
       /\ heap'.cookie = heap.cookie + (IF t.type = "cookie" THEN 1 ELSE 0)
  BY <1>5, <1>7, <1>9, AllocateFacts
<1>12. TypeOK'
  BY <1>0, <1>u, <1>6, <1>10, <1>11 DEF TypeOK, Returned
<1>13. TypesOf(rest) = TypesOf(r) \cup {t.type} /\ r \in Seq(TLVs)
  BY <1>2, <1>3, Rest
<1>14. ~foreign => rest' = r /\ PartOf(opts, r)
  BY <1>3, <1>6
<1>15. AtTlv'
  BY <1>u, <1>6, <1>14 DEF AtTlv
<1>16. /\ ~foreign => parsed.flags \cup TypesOf(rest) = opts.flags /\ FieldsRead(opts, parsed)
       /\ heap.opts = 1
       /\ heap.extended # 0 => "extended" \in parsed.flags
       /\ heap.cookie # 0 => "cookie" \in parsed.flags
       /\ Once(wire, Contents) =>
            /\ Once(rest, Contents) /\ heap.extended <= 1 /\ heap.cookie <= 1
            /\ \A b \in Contents : b \in parsed.flags => b \notin TypesOf(rest)
  BY <1>0 DEF Parsing
<1>17. ASSUME ~foreign
       PROVE  parsed'.flags \cup TypesOf(rest') = opts.flags /\ FieldsRead(opts, parsed')
  <2>1. parsed'.flags \cup TypesOf(rest') = opts.flags
    BY <1>10, <1>13, <1>14, <1>16, <1>17
  <2>2. /\ t.addr = opts.addr /\ t.error_code = opts.error_code
        /\ t.type = "cookie" => 4 * t.length - 4 - opts.cookie_len \in 0 .. 3
        /\ t.type = "extended" => 4 * t.length - 4 - opts.tcp_len \in 0 .. 3
    BY <1>3, <1>17, WrittenFacts
  <2>3. FieldsRead(opts, parsed)
    BY <1>16, <1>17
  <2>4. FieldsRead(opts, parsed')
    BY <1>10, <2>2, <2>3 DEF FieldsRead
  <2>. QED  BY <2>1, <2>4
<1>18. /\ heap'.extended # 0 => "extended" \in parsed'.flags
       /\ heap'.cookie # 0 => "cookie" \in parsed'.flags
  <2>1. heap.extended \in Nat /\ heap.cookie \in Nat
    BY <1>7 DEF Heap
  <2>2. t.type # "extended" => heap'.extended = heap.extended
    BY <1>11, <2>1
  <2>3. t.type # "cookie" => heap'.cookie = heap.cookie
    BY <1>11, <2>1
  <2>. QED  BY <1>10, <1>16, <2>2, <2>3
<1>19. ASSUME Once(wire, Contents)
       PROVE  /\ Once(rest', Contents) /\ heap'.extended <= 1 /\ heap'.cookie <= 1
              /\ \A b \in Contents : b \in parsed'.flags => b \notin TypesOf(rest')
  <2>1. /\ Once(rest, Contents) /\ heap.extended <= 1 /\ heap.cookie <= 1
        /\ \A b \in Contents : b \in parsed.flags => b \notin TypesOf(rest)
    BY <1>16, <1>19
  <2>2. Once(r, Contents) /\ (t.type \in Contents => t.type \notin TypesOf(r))
    BY <1>2, <1>3, <2>1, OnceTail
  <2>3. Once(rest', Contents)
    BY <1>6, <2>1, <2>2
  <2>4. t.type \in Contents => t.type \notin parsed.flags
    BY <1>13, <2>1
  <2>5. heap.extended \in Nat /\ heap.cookie \in Nat
    BY <1>7 DEF Heap
  <2>6. heap'.extended <= 1
    <3>1. CASE t.type = "extended"
      <4>1. heap.extended = 0
        BY <1>16, <2>4, <3>1 DEF Contents
      <4>. QED  BY <1>11, <3>1, <4>1
    <3>2. CASE t.type # "extended"
      BY <1>11, <2>1, <2>5, <3>2
    <3>. QED  BY <3>1, <3>2
  <2>7. heap'.cookie <= 1
    <3>1. CASE t.type = "cookie"
      <4>1. heap.cookie = 0
        BY <1>16, <2>4, <3>1 DEF Contents
      <4>. QED  BY <1>11, <3>1, <4>1
    <3>2. CASE t.type # "cookie"
      BY <1>11, <2>1, <2>5, <3>2
    <3>. QED  BY <3>1, <3>2
  <2>8. ASSUME NEW b \in Contents, b \in parsed'.flags  PROVE b \notin TypesOf(rest')
    <3>1. CASE t.length = 0
      <4>1. rest' = rest /\ t.type \notin Contents
        BY <1>6, <1>8, <3>1
      <4>. QED  BY <1>10, <2>1, <2>8, <4>1
    <3>2. CASE t.length # 0
      <4>1. rest' = r
        BY <1>6, <3>2
      <4>. QED  BY <1>10, <1>13, <2>1, <2>2, <2>8, <4>1
    <3>. QED  BY <3>1, <3>2
  <2>. QED  BY <2>3, <2>6, <2>7, <2>8
<1>20. Parsing'
  BY <1>u, <1>11, <1>16, <1>17, <1>18, <1>19 DEF Parsing
<1>21. Received' /\ Connecting' /\ RoundTrip' /\ OptsAccounted' /\ FailsOK'
  BY DEF Received, Connecting, RoundTrip, OptsAccounted, FailsOK, Final
<1>. QED  BY <1>1, <1>12, <1>15, <1>20, <1>21 DEF IInv

\* A turn of convert_parse_tlvs.
LEMMA CTlvStep == IInv /\ CTlv => IInv'
<1>. SUFFICES ASSUME IInv, CTlv  PROVE IInv'
  OBVIOUS
<1>1. PICK t : t = Head(rest)
  OBVIOUS
<1>2. /\ pc = "ctlv" /\ buff_len > 0 /\ UNCHANGED message /\ UNCHANGED <<data, torn, dests>>
      /\ \/ Bad(t) /\ pc' = "cfail" /\ heap' = error_and_free /\ UNCHANGED <<rest, buff_len, parsed>>
         \/ /\ ~Bad(t) /\ parsed' = WithTlv(parsed, t) /\ heap' = Allocate(t) /\ Advance(t)
            /\ UNCHANGED pc
         \/ pc' = "nomem" /\ heap' = error_and_free /\ UNCHANGED <<rest, buff_len, parsed>>
  BY <1>1 DEF CTlv, received
<1>3. TypeOK /\ Writing /\ AtTlv
  BY DEF IInv
<1>4. Bad(t) => foreign
  BY <1>1, <1>2, <1>3, AtHead
<1>5. CASE Bad(t) /\ pc' = "cfail" /\ heap' = error_and_free /\ UNCHANGED <<rest, buff_len, parsed>>
  BY <1>2, <1>4, <1>5, GivenUp
<1>6. CASE /\ ~Bad(t) /\ parsed' = WithTlv(parsed, t) /\ heap' = Allocate(t) /\ Advance(t)
           /\ UNCHANGED pc
  BY <1>1, <1>2, <1>6, TakenTlv
<1>7. CASE pc' = "nomem" /\ heap' = error_and_free /\ UNCHANGED <<rest, buff_len, parsed>>
  BY <1>2, <1>7, GivenUp
<1>. QED  BY <1>2, <1>5, <1>6, <1>7


\* convert_parse_tlvs returns, and an answer with an error is freed.
LEMMA CDoneStep == IInv /\ CDone => IInv'
<1>. SUFFICES ASSUME IInv, CDone  PROVE IInv'
  OBVIOUS
<1>0. TypeOK /\ Writing /\ Sent /\ AtTlv /\ Parsing
  BY DEF IInv
<1>u. /\ pc = "ctlv" /\ buff_len = 0 /\ pc' = "cdone" /\ UNCHANGED message
      /\ UNCHANGED <<opts, foreign, i, left, wire, total_length, data, torn, rest, buff_len, parsed, dests>>
      /\ heap' = IF "error" \in parsed.flags THEN convert_free_opts(heap) ELSE heap
  BY DEF CDone, message, received
<1>1. Writing' /\ Sent'
  BY <1>u, MessageKept
<1>2. heap \in Heap
  BY <1>0 DEF TypeOK
<1>3. PICK h : h = convert_free_opts(heap)
  OBVIOUS
<1>4. /\ h = [opts |-> h.opts, extended |-> h.extended, cookie |-> h.cookie] /\ h \in Heap
      /\ h.opts = 0
      /\ heap.extended <= 1 => h.extended = 0
      /\ heap.cookie <= 1 => h.cookie = 0
  <2>1. /\ heap.opts \in 0 .. 1 /\ heap.extended \in Nat /\ heap.cookie \in Nat
        /\ heap = [opts |-> heap.opts, extended |-> heap.extended, cookie |-> heap.cookie]
    BY <1>2 DEF Heap
  <2>2. DOMAIN heap = {"opts", "extended", "cookie"}
    BY <1>2 DEF Heap
  <2>3. h = [b \in {"opts", "extended", "cookie"} |-> IF heap[b] = 0 THEN 0 ELSE heap[b] - 1]
    BY <1>3, <2>2 DEF convert_free_opts
  <2>4. /\ h.opts = IF heap.opts = 0 THEN 0 ELSE heap.opts - 1
        /\ h.extended = IF heap.extended = 0 THEN 0 ELSE heap.extended - 1
        /\ h.cookie = IF heap.cookie = 0 THEN 0 ELSE heap.cookie - 1
    BY <2>3
  <2>5. h = [opts |-> h.opts, extended |-> h.extended, cookie |-> h.cookie]
    BY <2>3
  <2>6. h.opts = 0 /\ h.extended \in Nat /\ h.cookie \in Nat
    BY <2>1, <2>4
  <2>7. h \in Heap
    BY <2>5, <2>6 DEF Heap
  <2>8. (heap.extended <= 1 => h.extended = 0) /\ (heap.cookie <= 1 => h.cookie = 0)
    BY <2>1, <2>4
  <2>. QED  BY <2>5, <2>6, <2>7, <2>8
<1>5. heap' \in Heap
  BY <1>u, <1>2, <1>3, <1>4
<1>6. TypeOK'
  BY <1>0, <1>u, <1>5 DEF TypeOK, Final
<1>7. AtTlv' /\ Received' /\ Parsing' /\ Connecting' /\ FailsOK'
  BY <1>u DEF AtTlv, Received, Parsing, Connecting, FailsOK
<1>8. rest = <<>>
  BY <1>0, <1>u, WordsNat DEF TypeOK, AtTlv
<1>9. ~foreign => parsed.flags = opts.flags /\ FieldsRead(opts, parsed)
  BY <1>0, <1>u, <1>8, EmptyPart DEF Parsing
<1>10. RoundTrip'
  BY <1>u, <1>9 DEF RoundTrip, FieldsRead
<1>11. OptsAccounted'
  <2>0. "error" \notin parsed.flags => heap'.opts = 1
    BY <1>0, <1>u DEF Parsing
  <2>. SUFFICES ASSUME heap' # Freed, "error" \in parsed.flags
                PROVE  foreign /\ \E n, m \in 1 .. Len(wire) :
                         n # m /\ wire[n].type = wire[m].type /\ wire[n].type \in {"extended", "cookie"}
    BY <1>u, <2>0 DEF OptsAccounted
  <2>1. ~Once(wire, Contents)
    <3>. SUFFICES ASSUME Once(wire, Contents)  PROVE FALSE
      OBVIOUS
    <3>1. heap.extended <= 1 /\ heap.cookie <= 1
      BY <1>0, <1>u DEF Parsing
    <3>2. h = Freed
      BY <1>4, <3>1 DEF Freed
    <3>. QED  BY <1>u, <1>3, <3>2
  <2>2. foreign
    <3>. SUFFICES ASSUME ~foreign  PROVE FALSE
      OBVIOUS
    <3>1. Once(wire, Types)
      BY <1>0 DEF Writing, PartOf
    <3>2. Contents \subseteq Types
      BY TableTypes DEF Contents
    <3>. QED  BY <2>1, <3>1, <3>2 DEF Once
  <2>. QED  BY <2>1, <2>2 DEF Once, Contents
<1>. QED  BY <1>1, <1>6, <1>7, <1>10, <1>11 DEF IInv

-----------------------------------------------------------------------------
(***************************************************************************)
(* The Converter's reader.                                                 *)
(***************************************************************************)

\* What the message and the Converter's reader have in common with the C reader.
LEMMA PyKept ==
  ASSUME IInv, UNCHANGED message, UNCHANGED <<parsed, heap>>, heap = Freed,
         pc \in {"sent", "pytlv", "pyhandle"},
         pc' \in {"pytlv", "pyhandle", "pydone", "pyfail", "pyshort"},
         pc' = "pyfail" => foreign \/ torn',
         data' \in Seq(TLVs), torn' \in BOOLEAN,
         rest' \in Seq(TLVs), buff_len' \in Nat, dests' \in Seq(Addrs \cup {Garbled})
  PROVE  /\ TypeOK' /\ Writing' /\ Sent' /\ Parsing' /\ RoundTrip' /\ OptsAccounted'
         /\ FailsOK'
<1>0. TypeOK
  BY DEF IInv
<1>u. UNCHANGED <<opts, foreign, i, left, wire, total_length>>
  BY DEF message
<1>1. Writing' /\ Sent'
  BY MessageKept
<1>2. TypeOK'
  BY <1>0, <1>u DEF TypeOK, Final
<1>3. Parsing' /\ RoundTrip' /\ OptsAccounted' /\ FailsOK'
  BY <1>u DEF Parsing, RoundTrip, OptsAccounted, FailsOK
<1>. QED  BY <1>1, <1>2, <1>3

\* The first n TLVs.
LEMMA Prefix ==
  ASSUME NEW s \in Seq(TLVs), NEW n \in 0 .. Len(s), NEW p, p = SubSeq(s, 1, n)
  PROVE  /\ p \in Seq(TLVs) /\ Len(p) = n
         /\ \A k \in 1 .. Len(p) : k \in 1 .. Len(s) /\ p[k] = s[k]
OBVIOUS

\* The first part of a message is framed, and is what convert_write writes.
LEMMA PrefixParts ==
  ASSUME NEW s \in Seq(TLVs), NEW n \in 0 .. Len(s), NEW p, p = SubSeq(s, 1, n), Framed(s)
  PROVE  /\ p \in Seq(TLVs) /\ Framed(p)
         /\ \A o : PartOf(o, s) => PartOf(o, p)
         /\ p # <<>> => s # <<>> /\ p[1] = s[1] /\ p[1].type \in TypesOf(p)
<1>1. /\ p \in Seq(TLVs) /\ Len(p) = n
      /\ \A k \in 1 .. Len(p) : k \in 1 .. Len(s) /\ p[k] = s[k]
  BY Prefix
<1>2. ASSUME NEW k \in 1 .. Len(p)
      PROVE  \/ p[k].length \in {0, p[k].size}
             \/ k = Len(p) /\ p[k].length > p[k].size
  <2>1. \/ s[k].length \in {0, s[k].size}
        \/ k = Len(s) /\ s[k].length > s[k].size
    BY <1>1 DEF Framed
  <2>2. k = Len(s) => k = Len(p)
    BY <1>1
  <2>. QED  BY <1>1, <2>1, <2>2
<1>3. ASSUME NEW o, PartOf(o, s)  PROVE PartOf(o, p)
  BY <1>1, <1>3 DEF PartOf, Once
<1>4. ASSUME p # <<>>  PROVE s # <<>> /\ p[1] = s[1] /\ p[1].type \in TypesOf(p)
  <2>1. 1 \in 1 .. Len(p)
    BY <1>1, <1>4
  <2>2. 1 \in 1 .. Len(s) /\ p[1] = s[1]
    BY <1>1, <2>1
  <2>. QED  BY <2>1, <2>2 DEF TypesOf
<1>. QED  BY <1>1, <1>2, <1>3, <1>4 DEF Framed

\* read_convert_header receives the header, and what has come of the TLVs.
LEMMA PyHeaderStep == IInv /\ PyHeader => IInv'
<1>. SUFFICES ASSUME IInv, PyHeader  PROVE IInv'
  OBVIOUS
<1>0. TypeOK /\ Writing /\ Sent /\ Parsing
  BY DEF IInv
<1>u. /\ pc = "sent" /\ UNCHANGED message /\ UNCHANGED <<parsed, heap, dests>>
      /\ UNCHANGED <<opts, foreign, i, left, wire, total_length>>
  BY DEF PyHeader, message
<1>1. heap = Freed /\ dests = <<>> /\ dests' \in Seq(Addrs \cup {Garbled})
  BY <1>0, <1>u DEF Parsing, TypeOK
<1>2. CASE pc' = "pyshort" /\ UNCHANGED <<data, torn, rest, buff_len>>
  <2>1. data' \in Seq(TLVs) /\ torn' \in BOOLEAN /\ rest' \in Seq(TLVs) /\ buff_len' \in Nat
    BY <1>0, <1>2 DEF TypeOK
  <2>2. /\ TypeOK' /\ Writing' /\ Sent' /\ Parsing' /\ RoundTrip' /\ OptsAccounted' /\ FailsOK'
    BY <1>u, <1>1, <1>2, <2>1, PyKept
  <2>3. AtTlv' /\ Received' /\ Connecting'
    BY <1>2 DEF AtTlv, Received, Connecting
  <2>. QED  BY <2>2, <2>3 DEF IInv
<1>3. CASE /\ pc' = "pytlv" /\ rest' = data' /\ buff_len' = Words(data') /\ torn' \in BOOLEAN
           /\ \E n \in 0 .. Len(wire) : data' = SubSeq(wire, 1, n)
  <2>1. PICK n \in 0 .. Len(wire) : data' = SubSeq(wire, 1, n)
    BY <1>3
  <2>2. PICK s : s = data'
    OBVIOUS
  <2>3. /\ wire \in Seq(TLVs)
        /\ ~foreign => /\ PartOf(opts, wire)
                       /\ "connect" \in opts.flags /\ wire # <<>> => wire[1].type = "connect"
    BY <1>0 DEF TypeOK, Writing
  <2>4. Framed(wire)
    <3>1. CASE foreign
      BY <1>0, <3>1, CodecAssumption DEF Sent
    <3>2. CASE ~foreign
      BY <2>3, <3>2, PartFramed
    <3>. QED  BY <3>1, <3>2
  <2>5. /\ s \in Seq(TLVs) /\ Framed(s)
        /\ \A o : PartOf(o, wire) => PartOf(o, s)
        /\ s # <<>> => wire # <<>> /\ s[1] = wire[1] /\ s[1].type \in TypesOf(s)
    BY <2>1, <2>2, <2>3, <2>4, PrefixParts
  <2>6. ~foreign => /\ PartOf(opts, s)
                    /\ "connect" \in opts.flags /\ s # <<>> => "connect" \in TypesOf(s)
    BY <2>3, <2>5
  <2>7. rest' = s /\ buff_len' = Words(s) /\ Words(s) \in Nat
    BY <1>3, <2>2, <2>5, WordsNat
  <2>8. /\ TypeOK' /\ Writing' /\ Sent' /\ Parsing' /\ RoundTrip' /\ OptsAccounted' /\ FailsOK'
    BY <1>u, <1>1, <1>3, <2>2, <2>5, <2>7, PyKept
  <2>9. AtTlv'
    BY <1>u, <1>3, <2>5, <2>6, <2>7 DEF AtTlv
  <2>10. Received'
    BY <1>u, <1>3, <2>2, <2>5, <2>6 DEF Received
  <2>11. Connecting'
    BY <1>u, <1>1, <1>3 DEF Connecting
  <2>. QED  BY <2>8, <2>9, <2>10, <2>11 DEF IInv
<1>4. \/ pc' = "pyshort" /\ UNCHANGED <<data, torn, rest, buff_len>>
      \/ /\ pc' = "pytlv" /\ rest' = data' /\ buff_len' = Words(data') /\ torn' \in BOOLEAN
         /\ \E n \in 0 .. Len(wire) : data' = SubSeq(wire, 1, n)
  <2>1. Len(wire) \in Nat
    BY <1>0 DEF TypeOK
  <2>2. 0 .. (IF total_length = 0 THEN 0 ELSE Len(wire)) \subseteq 0 .. Len(wire)
    BY <2>1
  <2>. QED  BY <2>2 DEF PyHeader, received
<1>. QED  BY <1>2, <1>3, <1>4

\* A turn of read_convert_header.
LEMMA PyTlvStep == IInv /\ PyTlv => IInv'
<1>. SUFFICES ASSUME IInv, PyTlv  PROVE IInv'
  OBVIOUS
<1>0. TypeOK /\ Writing /\ AtTlv /\ Received /\ Parsing /\ Connecting
  BY DEF IInv
<1>1. PICK t, r : t = Head(rest) /\ r = Tail(rest)
  OBVIOUS
<1>u. /\ pc = "pytlv" /\ buff_len > 0 /\ UNCHANGED message /\ UNCHANGED <<parsed, heap, dests>>
      /\ UNCHANGED <<opts, foreign, i, left, wire, total_length, data, torn>>
      /\ \/ /\ AtTear \/ (t.type = "connect" /\ buff_len < 5)
            /\ pc' = "pyfail" /\ UNCHANGED <<rest, buff_len>>
         \/ (AtTear \/ t.length > buff_len) /\ rest' = r /\ buff_len' = 0 /\ UNCHANGED pc
         \/ t.length <= buff_len /\ Advance(t) /\ UNCHANGED pc
  BY <1>1 DEF PyTlv, message, received
<1>2. /\ rest # <<>> /\ rest \in Seq(TLVs) /\ t \in TLVs /\ Framed(rest) /\ buff_len = Words(rest)
      /\ buff_len >= t.size
      /\ ~foreign => /\ PartOf(opts, r) /\ t.length # 0 /\ t.length <= buff_len
                     /\ t.type = "connect" => buff_len >= 5
  BY <1>0, <1>u, <1>1, AtHead
<1>3. heap = Freed /\ dests = <<>> /\ dests' \in Seq(Addrs \cup {Garbled}) /\ buff_len \in Nat
      /\ data' \in Seq(TLVs) /\ torn' \in BOOLEAN
  BY <1>0, <1>u DEF Parsing, Connecting, TypeOK
<1>4. t.length \in Nat /\ t.size \in Nat
  BY <1>2, TlvNumbers
<1>5. CASE (AtTear \/ (t.type = "connect" /\ buff_len < 5)) /\ pc' = "pyfail" /\ UNCHANGED <<rest, buff_len>>
  <2>1. foreign \/ torn'
    <3>1. CASE AtTear
      BY <1>u, <3>1 DEF AtTear
    <3>2. CASE t.type = "connect" /\ buff_len < 5
      BY <1>2, <1>3, <3>2
    <3>. QED  BY <1>5, <3>1, <3>2
  <2>2. /\ TypeOK' /\ Writing' /\ Sent' /\ Parsing' /\ RoundTrip' /\ OptsAccounted' /\ FailsOK'
    BY <1>u, <1>2, <1>3, <1>5, <2>1, PyKept
  <2>3. AtTlv' /\ Received' /\ Connecting'
    BY <1>5 DEF AtTlv, Received, Connecting
  <2>. QED  BY <2>2, <2>3 DEF IInv
<1>6. CASE UNCHANGED pc
  <2>1. /\ rest' \in Seq(TLVs) /\ buff_len' \in Nat /\ Framed(rest') /\ buff_len' = Words(rest')
        /\ ~foreign => PartOf(opts, rest')
    <3>1. CASE (AtTear \/ t.length > buff_len) /\ rest' = r /\ buff_len' = 0
      <4>1. r = <<>>
        <5>1. CASE AtTear
          BY <1>1, <5>1 DEF AtTear
        <5>2. CASE t.length > buff_len
          <6>1. t.length \notin {0, t.size}
            BY <1>2, <1>3, <1>4, <5>2
          <6>. QED  BY <1>1, <1>2, <6>1, FramedTail
        <5>. QED  BY <3>1, <5>1, <5>2
      <4>. QED  BY <3>1, <4>1, EmptyPart
    <3>2. CASE t.length <= buff_len /\ Advance(t)
      BY <1>0, <1>1, <1>2, <3>2, AdvanceFacts
    <3>. QED  BY <1>u, <1>6, <3>1, <3>2
  <2>2. /\ TypeOK' /\ Writing' /\ Sent' /\ Parsing' /\ RoundTrip' /\ OptsAccounted' /\ FailsOK'
    BY <1>u, <1>3, <1>6, <2>1, PyKept
  <2>3. AtTlv' /\ Connecting'
    BY <1>u, <1>3, <1>6, <2>1 DEF AtTlv, Connecting
  <2>4. Received'
    BY <1>0, <1>u, <1>6 DEF Received
  <2>. QED  BY <2>2, <2>3, <2>4 DEF IInv
<1>. QED  BY <1>u, <1>5, <1>6


\* The TLVs have been read.
LEMMA PyReadStep == IInv /\ PyRead => IInv'
<1>. SUFFICES ASSUME IInv, PyRead  PROVE IInv'
  OBVIOUS
<1>0. TypeOK /\ Received /\ Parsing /\ Connecting
  BY DEF IInv
<1>u. /\ pc = "pytlv" /\ pc' = "pyhandle" /\ UNCHANGED message /\ rest' = data
      /\ UNCHANGED <<buff_len, parsed, heap, dests>>
      /\ UNCHANGED <<opts, foreign, i, left, wire, total_length, data, torn>>
  BY DEF PyRead, message, received
<1>1. heap = Freed /\ dests = <<>> /\ buff_len' \in Nat /\ dests' \in Seq(Addrs \cup {Garbled})
  BY <1>0, <1>u DEF Parsing, Connecting, TypeOK
<1>2. data' \in Seq(TLVs) /\ torn' \in BOOLEAN /\ rest' \in Seq(TLVs)
  BY <1>0, <1>u DEF TypeOK
<1>3. /\ TypeOK' /\ Writing' /\ Sent' /\ Parsing' /\ RoundTrip' /\ OptsAccounted' /\ FailsOK'
  BY <1>u, <1>1, <1>2, PyKept
<1>4. AtTlv' /\ Received'
  BY <1>0, <1>u DEF AtTlv, Received
<1>5. Connecting'
  BY <1>u, <1>1 DEF Connecting
<1>. QED  BY <1>3, <1>4, <1>5 DEF IInv

\* A turn of handle_connection.
LEMMA PyHandleStep == IInv /\ PyHandle => IInv'
<1>. SUFFICES ASSUME IInv, PyHandle  PROVE IInv'
  OBVIOUS
<1>0. TypeOK /\ Writing /\ AtTlv /\ Received /\ Parsing /\ Connecting
  BY DEF IInv
<1>1. PICK t, r : t = Head(rest) /\ r = Tail(rest)
  OBVIOUS
<1>u. /\ pc = "pyhandle" /\ UNCHANGED message /\ UNCHANGED <<buff_len, parsed, heap>>
      /\ UNCHANGED <<opts, foreign, i, left, wire, total_length, data, torn>>
      /\ \/ rest = <<>> /\ pc' = "pydone" /\ UNCHANGED <<rest, dests>>
         \/ /\ rest # <<>>
            /\ dests' = IF t.type = "connect" THEN Append(dests, ipv6_to_ipv4(t.addr)) ELSE dests
            /\ rest' = r /\ UNCHANGED pc
         \/ /\ rest # <<>> /\ (t.type \notin Types \/ Unusable(t))
            /\ pc' = "pyfail" /\ UNCHANGED <<rest, dests>>
  BY <1>1 DEF PyHandle, message, received
<1>2. /\ rest \in Seq(TLVs) /\ buff_len' \in Nat /\ heap = Freed /\ dests \in Seq(Addrs \cup {Garbled})
      /\ data' \in Seq(TLVs) /\ torn' \in BOOLEAN /\ TypesOf(rest) \subseteq TypesOf(data)
      /\ ~foreign => opts \in Opts /\ PartOf(opts, rest)
      /\ ~foreign =>
           dests = IF "connect" \in TypesOf(data) \ TypesOf(rest) THEN <<ipv6_to_ipv4(opts.addr)>> ELSE <<>>
  BY <1>0, <1>u DEF TypeOK, Parsing, Writing, AtTlv, Received, Connecting
<1>3. rest # <<>> => /\ t \in TLVs /\ r \in Seq(TLVs) /\ TypesOf(rest) = TypesOf(r) \cup {t.type}
                     /\ ~foreign => /\ PartOf(opts, r) /\ WrittenTlv(opts, t)
                                    /\ t.type \in Types => t.type \notin TypesOf(r)
  BY <1>1, <1>2, WordsTail, Rest, PartTail
<1>4. rest # <<>> /\ ~foreign =>
        /\ t.type \in Types /\ (t.type = "connect" => t.size = 5) /\ t.addr = opts.addr
        /\ t.type \in opts.flags
  BY <1>2, <1>3, WrittenFacts, TableTypes DEF Written
<1>5. CASE rest = <<>> /\ pc' = "pydone" /\ UNCHANGED <<rest, dests>>
  <2>1. /\ TypeOK' /\ Writing' /\ Sent' /\ Parsing' /\ RoundTrip' /\ OptsAccounted' /\ FailsOK'
    BY <1>u, <1>2, <1>5, PyKept
  <2>2. AtTlv' /\ Received'
    BY <1>0, <1>u, <1>5 DEF AtTlv, Received
  <2>3. Connecting'
    BY <1>u, <1>2, <1>5, EmptyPart DEF Connecting
  <2>. QED  BY <2>1, <2>2, <2>3 DEF IInv
<1>6. CASE /\ rest # <<>>
           /\ dests' = IF t.type = "connect" THEN Append(dests, ipv6_to_ipv4(t.addr)) ELSE dests
           /\ rest' = r /\ UNCHANGED pc
  <2>1. dests' \in Seq(Addrs \cup {Garbled})
    <3>1. ipv6_to_ipv4(t.addr) \in Addrs \cup {Garbled}
      BY DEF ipv6_to_ipv4
    <3>. QED  BY <1>2, <1>6, <3>1
  <2>2. /\ TypeOK' /\ Writing' /\ Sent' /\ Parsing' /\ RoundTrip' /\ OptsAccounted' /\ FailsOK'
    BY <1>u, <1>2, <1>3, <1>6, <2>1, PyKept
  <2>3. AtTlv' /\ Received'
    BY <1>0, <1>u, <1>2, <1>3, <1>6 DEF AtTlv, Received
  <2>4. ASSUME ~foreign
        PROVE  dests' = IF "connect" \in TypesOf(data) \ TypesOf(r) THEN <<ipv6_to_ipv4(opts.addr)>> ELSE <<>>
    <3>1. CASE t.type = "connect"
      <4>1. dests = <<>> /\ "connect" \in TypesOf(data) \ TypesOf(r)
        BY <1>2, <1>3, <1>4, <1>6, <2>4, <3>1
      <4>2. dests' = Append(<<>>, ipv6_to_ipv4(opts.addr))
        BY <1>4, <1>6, <2>4, <3>1, <4>1
      <4>3. \A x : Append(<<>>, x) = <<x>>
        OBVIOUS
      <4>. QED  BY <4>1, <4>2, <4>3
    <3>2. CASE t.type # "connect"
      BY <1>2, <1>3, <1>6, <2>4, <3>2
    <3>. QED  BY <3>1, <3>2
  <2>5. Connecting'
    BY <1>u, <1>6, <2>4 DEF Connecting
  <2>. QED  BY <2>2, <2>3, <2>5 DEF IInv
<1>7. CASE /\ rest # <<>> /\ (t.type \notin Types \/ Unusable(t))
           /\ pc' = "pyfail" /\ UNCHANGED <<rest, dests>>
  <2>1. foreign \/ torn'
    BY <1>u, <1>4, <1>7 DEF Unusable, AtTear
  <2>2. /\ TypeOK' /\ Writing' /\ Sent' /\ Parsing' /\ RoundTrip' /\ OptsAccounted' /\ FailsOK'
    BY <1>u, <1>2, <1>7, <2>1, PyKept
  <2>3. AtTlv' /\ Received' /\ Connecting'
    BY <1>7 DEF AtTlv, Received, Connecting
  <2>. QED  BY <2>2, <2>3 DEF IInv
<1>. QED  BY <1>u, <1>5, <1>6, <1>7

-----------------------------------------------------------------------------
(***************************************************************************)
(* The theorems.                                                           *)
(***************************************************************************)

\* Every step of the writer and of the readers keeps the invariant.
LEMMA InvStep == IInv /\ [Next]_vars => IInv'
<1>. SUFFICES ASSUME IInv, [Next]_vars  PROVE IInv'
  OBVIOUS
<1>1. CASE UNCHANGED vars
  BY <1>1 DEF vars, IInv, TypeOK, Writing, Sent, AtTlv, Parsing, Connecting, RoundTrip,
                  Received, OptsAccounted, FailsOK
<1>. QED  BY <1>1, WriteTlvStep, WriteHeaderStep, CHeaderStep, CTlvStep, CDoneStep, PyHeaderStep,
             PyTlvStep, PyReadStep, PyHandleStep DEF Next, Write, Read

\* The invariant holds in every state.
LEMMA Invariance == Spec => []IInv
BY InvInit, InvStep, PTL DEF Spec

\* The variables keep their types: what convert_write and both readers compute
\* stays in range, and blocks and lengths never go below zero.
THEOREM TypeCorrect == Spec => []TypeOK
<1>1. IInv => TypeOK
  BY DEF IInv
<1>. QED  BY <1>1, Invariance, PTL

\* The length fields of what convert_write writes describe it, whatever the
\* lengths of a cookie and of TCP options, but for a full buffer.
THEOREM LengthsDescribe == Spec => []LengthsExact
<1>1. IInv => LengthsExact
  <2>. SUFFICES ASSUME IInv, ~foreign, pc \notin {"write", "nospace"}
                PROVE  /\ \A n \in 1 .. Len(wire) : wire[n].length = wire[n].size
                       /\ \/ total_length = Header + Words(wire)
                          \/ total_length = 0 /\ Header + Words(wire) = BYTE
    BY DEF LengthsExact
  <2>1. PartOf(opts, wire) /\ Words(wire) \in Nat /\ Words(wire) < BYTE
        /\ total_length = (Header + Words(wire)) % BYTE
    BY SentTypes DEF IInv
  <2>2. \A n \in 1 .. Len(wire) : wire[n].length = wire[n].size
    BY <2>1, PartFramed
  <2>3. PICK w : w = Words(wire)
    OBVIOUS
  <2>4. w \in Nat /\ w < 256 /\ total_length = (1 + w) % 256
    BY <2>1, <2>3 DEF Header, BYTE
  <2>5. total_length = 1 + w \/ (total_length = 0 /\ 1 + w = 256)
    BY <2>4
  <2>. QED  BY <2>2, <2>3, <2>5 DEF Header, BYTE
<1>. QED  BY <1>1, Invariance, PTL

\* Neither convert_parse_tlvs nor read_convert_header loses its place in any
\* message.
THEOREM ReadersKeepPlace == Spec => []ReadersInSync
<1>1. IInv => ReadersInSync
  BY DEF IInv, AtTlv, ReadersInSync
<1>. QED  BY <1>1, Invariance, PTL

\* convert_parse_tlvs accepts and understands what convert_write writes.
THEOREM MessagesUnderstood == Spec => []RoundTrip
<1>1. IInv => RoundTrip
  BY DEF IInv
<1>. QED  BY <1>1, Invariance, PTL

\* A message that is refused, and an answer with an error, leave no memory behind
\* but what error_and_free drops and what a repeated TLV has lost; an accepted
\* answer always leaves its options.
THEOREM AllocationsExplained == Spec => []OptsAccounted
<1>1. IInv => OptsAccounted
  BY DEF IInv
<1>. QED  BY <1>1, Invariance, PTL

\* handle_connection connects to the destination that the message has, once, or
\* to none, however short the recv calls fall.
THEOREM DestinationReached == Spec => []DestinationKept
<1>1. IInv => DestinationKept
  <2>. SUFFICES ASSUME IInv  PROVE DestinationKept
    OBVIOUS
  <2>1. Connecting /\ Received /\ FailsOK
    BY DEF IInv
  <2>2. opts.addr \in Addrs => ipv6_to_ipv4(opts.addr) = opts.addr
    BY DEF ipv6_to_ipv4
  <2>3. ASSUME pc = "pydone", ~foreign
        PROVE  IF "connect" \notin opts.flags \/ data = <<>> THEN dests = <<>>
               ELSE opts.addr \in Addrs => dests = <<opts.addr>>
    <3>1. dests = IF "connect" \in TypesOf(data) THEN <<ipv6_to_ipv4(opts.addr)>> ELSE <<>>
      BY <2>1, <2>3 DEF Connecting
    <3>2. "connect" \in opts.flags /\ data # <<>> => "connect" \in TypesOf(data)
      BY <2>1, <2>3 DEF Received
    <3>3. TypesOf(data) \subseteq opts.flags
      BY <2>1, <2>3 DEF Received, PartOf, WrittenTlv, TypesOf
    <3>4. data = <<>> => TypesOf(data) = {}
      BY EmptyPart
    <3>. QED  BY <2>2, <3>1, <3>2, <3>3, <3>4
  <2>. QED  BY <2>1, <2>3 DEF FailsOK, DestinationKept
<1>. QED  BY <1>1, Invariance, PTL
=============================================================================

--------------------------- MODULE MCConvertCodec ---------------------------
(***************************************************************************)
(* ConvertCodec for TLC, with the sizes of the code.                       *)
(***************************************************************************)
EXTENDS ConvertCodec, TLC

CONSTANTS a4, a6, e1, e2

\* Connect TLVs of the right length, too long and cut short; cookies, an error
\* and TLVs nobody writes; length fields that are 0.
Whole == {TLV("connect", 5, 5, a4, Empty), TLV("connect", 6, 6, a4, Empty),
          TLV("cookie", 1, 1, Empty, Empty), TLV("error", 2, 2, Empty, e2),
          TLV("info", 1, 1, Empty, Empty), TLV("unknown", 1, 1, Empty, Empty)}
Cut == {TLV("connect", 5, 3, a4, Empty), TLV("cookie", 3, 1, Empty, Empty)}
Zero == {TLV("error", 0, 1, Empty, e2), TLV("extended", 0, 1, Empty, Empty),
         TLV("connect", 0, 5, a4, Empty)}
MCForeign == {<<t>> : t \in Whole \cup Cut \cup Zero}
               \cup {<<t, u>> : t \in Whole \cup Zero, u \in Whole \cup Cut \cup Zero}
               \cup {<<TLV("cookie", 1, 1, Empty, Empty), TLV("cookie", 2, 2, Empty, Empty),
                       TLV("error", 1, 1, Empty, e2)>>}
=============================================================================

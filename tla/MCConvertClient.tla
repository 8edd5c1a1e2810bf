-------------------------- MODULE MCConvertClient --------------------------
(***************************************************************************)
(* Small instances of ConvertClient for TLC.                               *)
(***************************************************************************)
EXTENDS ConvertClient, TLC

CONSTANTS t1, t2, c1, c2

\* The Converter accepts with or without a TLV, refuses with an error TLV, or
\* answers with what the client cannot parse.
AllReplies == {<<"hdr0">>, <<"hdrN", "tlvOk">>, <<"hdrN", "tlvError">>,
               <<"hdrN", "tlvBad">>, <<"badHdr">>}
FewReplies == {<<"hdr0">>, <<"hdrN", "tlvError">>}

MCThreads == {t1, t2}
MCCells == {c1, c2}
\* Threads and cells are interchangeable: only safety is checked.
Symmetry == Permutations(MCThreads) \cup Permutations(MCCells)
=============================================================================

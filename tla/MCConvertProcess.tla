-------------------------- MODULE MCConvertProcess --------------------------
(***************************************************************************)
(* A small instance of ConvertProcess for TLC.                             *)
(***************************************************************************)
EXTENDS ConvertProcess

CONSTANTS t1, t2, c1, c2
=============================================================================

----------------------------- MODULE MCTCServer -----------------------------
(***************************************************************************)
(* TCServer for TLC.  The descriptor numbers are only compared for         *)
(* equality, so they are interchangeable.                                  *)
(***************************************************************************)
EXTENDS TCServer, TLC

\* One end of the second connection may be reset.
NoResets == {}
ClientResets == {Client(2)}
ServerResets == {Server(2)}

Symmetry == Permutations(Fds)
=============================================================================

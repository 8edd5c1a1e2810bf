------------------------ MODULE MCPerformanceLogger ------------------------
(***************************************************************************)
(* PerformanceLogger for TLC: three clients on two descriptor numbers.     *)
(***************************************************************************)
EXTENDS PerformanceLogger

\* The second client's connection has a third subflow, or loses one.
ChangeBounds == <<0, 2, 0>>
=============================================================================

------------------------------ MODULE MCSched ------------------------------
(***************************************************************************)
(* Instance of SchedFair for TLC.                                          *)
(***************************************************************************)
EXTENDS SchedFair

\* Any program as the first process.
AnyProgram == Calls
=============================================================================

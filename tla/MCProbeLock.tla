----------------------------- MODULE MCProbeLock -----------------------------
(***************************************************************************)
(* Small instances of ProbeLock.                                           *)
(***************************************************************************)
EXTENDS ProbeLock, TLC
=============================================================================

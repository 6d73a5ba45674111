------------------------ MODULE MCExecutionControl ------------------------
(***************************************************************************)
(* A small instance of ExecutionControl for TLC: one account.              *)
(***************************************************************************)
EXTENDS ExecutionControl

CONSTANT a1
=============================================================================

-------------------------- MODULE MCKernelLifecycle --------------------------
(***************************************************************************)
(* Two jobs and a client at a queue of two.                                *)
(***************************************************************************)
EXTENDS KernelLifecycle

CONSTANTS j1, j2, c1, kernel
=============================================================================

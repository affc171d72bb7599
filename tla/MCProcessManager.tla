-------------------------- MODULE MCProcessManager --------------------------
(***************************************************************************)
(* ProcessManager for TLC.  Neither the pids nor the sessions are told     *)
(* apart by any definition.                                                *)
(***************************************************************************)
EXTENDS ProcessManager, TLC

Symmetry == Permutations(Pids) \cup Permutations(SessionIds)
=============================================================================

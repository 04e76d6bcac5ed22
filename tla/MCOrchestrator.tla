--------------------------- MODULE MCOrchestrator ---------------------------
(***************************************************************************)
(* Orchestrator for TLC.                                                   *)
(***************************************************************************)
EXTENDS Orchestrator, TLC

\* Jobs are interchangeable, and so are processes.
Symmetry == Permutations(Jobs) \cup Permutations(Procs)
=============================================================================

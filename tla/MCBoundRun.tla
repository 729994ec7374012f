------------------------------ MODULE MCBoundRun ------------------------------
(* The small suites of MCOrchestrator, with workers that keep the contract. *)
EXTENDS MCOrchestrator, BoundRun
=============================================================================

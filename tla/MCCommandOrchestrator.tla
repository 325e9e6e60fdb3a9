----------------------- MODULE MCCommandOrchestrator -----------------------
(* The instances of CommandOrchestrator for TLC. *)
EXTENDS CommandOrchestrator, TLC

CONSTANTS t1, t2, k1, k2, k3, c1, c2

\* Tasks, commands and clients differ in nothing but what is done with them.
Symmetry == Permutations({t1, t2}) \cup Permutations({k1, k2, k3}) \cup Permutations({c1, c2})
=============================================================================

------------------------ MODULE MCWorkflowScheduler ------------------------
(***************************************************************************)
(* A small instance of the scheduler: two runs that share three items, one *)
(* of which may discuss twice and so repeat a question.  Three items are   *)
(* enough for a chain, a fork, a join and a cycle.                         *)
(***************************************************************************)
EXTENDS WorkflowScheduler, TLC

CONSTANTS i1, i2, i3, r1, r2

MCBudget == [i \in Items |-> IF i = i1 THEN 2 ELSE 0]
MCSymmetry == Permutations({i2, i3}) \cup Permutations({r1, r2})
=============================================================================

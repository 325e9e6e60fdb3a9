---------------------------- MODULE MCLifecycle ----------------------------
(* The instance of WorkflowLifecycle for TLC. *)
EXTENDS WorkflowLifecycle, TLC

CONSTANTS c1, c2

\* The callers differ in nothing but their requests.
CallerSymmetry == Permutations({c1, c2})
=============================================================================

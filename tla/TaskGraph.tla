----------------------------- MODULE TaskGraph -----------------------------
(***************************************************************************)
(* What a scheduler of dependent tasks promises, with no word of runs,     *)
(* approvals, discussions or executors: nodes are declared with the nodes  *)
(* they come after, a node opens only when all of those are done, and a    *)
(* node that is done or failed is so for good.                             *)
(***************************************************************************)
CONSTANT Nodes

VARIABLES phase, after

vars == <<phase, after>>

Phase == {"unborn", "waiting", "open", "done", "failed"}

Unsettled == {"waiting", "open"}
Free(n) == \A p \in after[n] : phase[p] = "done"
Enter(S, p) == phase' = [n \in Nodes |-> IF n \in S THEN p ELSE phase[n]]
NodesIn(p) == {n \in Nodes : phase[n] = p}

Init ==
    /\ phase = [n \in Nodes |-> "unborn"]
    /\ after = [n \in Nodes |-> {}]

\* A node is born behind nodes that exist.
Declare(n, ps) ==
    /\ \A p \in ps : phase[p] # "unborn"
    /\ phase' = [phase EXCEPT ![n] = "waiting"]
    /\ after' = [after EXCEPT ![n] = ps]

\* A node that has not opened may be put behind other nodes.
Rewire(n, ps) ==
    /\ n \notin ps
    /\ \A p \in ps : phase[p] # "unborn"
    /\ after' = [after EXCEPT ![n] = ps]
    /\ UNCHANGED phase

\* Waiting nodes open together, each because everything before it was done.
Release(S) ==
    /\ \A n \in S : Free(n)
    /\ Enter(S, "open")
    /\ UNCHANGED after

Settle(n, outcome) ==
    /\ phase' = [phase EXCEPT ![n] = outcome]
    /\ UNCHANGED after

\* Nodes are given up before they settle: nobody waits for them any longer.
Drop(S) ==
    /\ Enter(S, "done")
    /\ UNCHANGED after

Next ==
    \/ \E n \in NodesIn("unborn"), ps \in SUBSET Nodes : Declare(n, ps)
    \/ \E n \in NodesIn("waiting"), ps \in SUBSET Nodes : Rewire(n, ps)
    \/ \E S \in SUBSET NodesIn("waiting") : Release(S)
    \/ \E n \in NodesIn("open"), outcome \in {"done", "failed"} : Settle(n, outcome)
    \/ \E S \in SUBSET {n \in Nodes : phase[n] \in Unsettled} : Drop(S)

Spec == Init /\ [][Next]_vars
=============================================================================

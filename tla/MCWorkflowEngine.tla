------------------------- MODULE MCWorkflowEngine -------------------------
(* Instances of WorkflowEngine for TLC. *)
EXTENDS WorkflowEngine, TLC

CONSTANTS mA, mB, c1, c2

Stage(role, after, approval) == [role |-> role, after |-> after, approval |-> approval]

\* Two modules, the second with two parallel branches and so two terminal items.
TwoModules == <<mA, mB>>
TwoPackages ==
    mA :> <<Stage("doc-manager", {}, FALSE), Stage("qa-test", {}, FALSE)>>
    @@ mB :> <<Stage("module-dev", {}, FALSE),
               Stage("qa-test", {"module-dev"}, FALSE),
               Stage("security-review", {"module-dev"}, TRUE)>>

OneModule == <<mA>>

\* The shortest package that reaches a reflow.
ShortPackage == mA :> <<Stage("doc-manager", {}, FALSE)>>

\* Two modules of which one is reflowed, as short as they can be.
ShortPackages ==
    mA :> <<Stage("doc-manager", {}, FALSE)>> @@ mB :> <<Stage("module-dev", {}, FALSE)>>

\* One module with two branches, of which one fails its gate while the other one still
\* waits for the approval its routing asks for.
TwoBranches ==
    mA :> <<Stage("module-dev", {}, FALSE),
            Stage("doc-manager", {"module-dev"}, FALSE),
            Stage("security-review", {"module-dev"}, TRUE)>>

Both == {c1, c2}
Callers2 == Permutations(Both)
=============================================================================

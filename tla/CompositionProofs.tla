------------------------- MODULE CompositionProofs -------------------------
(***************************************************************************)
(* The run of MCServices and the theorems about the services: a behaviour  *)
(* of all of them is one of each, so what is proved of a service holds     *)
(* where it is checked together with the others.                           *)
(***************************************************************************)
EXTENDS MCServices, ServicesProofs, ContextMemoryProofs, WorkflowLifecycleProofs

\* A step of the services is one of the service in focus, which leaves the others alone.
LEMMA OneService ==
    ASSUME [ServicesNext]_servicesVars
    PROVE  /\ [PolicyNext]_policyVars /\ [MemoryNext]_memoryVars /\ [CommandNext]_commandVars
           /\ [ActionNext]_actionVars /\ [RecoveryNext]_recoveryVars /\ [RoutingNext]_routingVars
  <1>1. CASE UNCHANGED servicesVars
    BY <1>1 DEF servicesVars
  <1>2. CASE ServicesNext
    <2>1. [PolicyNext]_policyVars /\ [MemoryNext]_memoryVars /\ [CommandNext]_commandVars
      BY <1>2 DEF ServicesNext
    <2>2. [ActionNext]_actionVars /\ [RecoveryNext]_recoveryVars
      BY <1>2 DEF ServicesNext
    <2>3. [RoutingNext]_routingVars
      BY <1>2 DEF ServicesNext, RoutingNext
    <2>4. QED
      BY <2>1, <2>2, <2>3
  <1>3. QED
    BY <1>1, <1>2

\* Whatever is proved of one service holds of all of them together.
THEOREM Composition ==
    ServicesSpec => PolicySpec /\ MemorySpec /\ CommandSpec /\ ActionSpec /\ RecoverySpec /\ RoutingSpec
  <1>1. ServicesInit => /\ PolicyInit /\ MemoryInit /\ CommandInit
                        /\ ActionInit /\ RecoveryInit /\ RoutingInit
    BY DEF ServicesInit
  <1>2. [ServicesNext]_servicesVars =>
          /\ [PolicyNext]_policyVars /\ [MemoryNext]_memoryVars /\ [CommandNext]_commandVars
          /\ [ActionNext]_actionVars /\ [RecoveryNext]_recoveryVars /\ [RoutingNext]_routingVars
    BY OneService
  <1>3. QED
    BY <1>1, <1>2, PTL DEF ServicesSpec, PolicySpec, MemorySpec, CommandSpec, ActionSpec,
                           RecoverySpec, RoutingSpec

\* Every variable of every service keeps its type.
THEOREM ServicesTypeCorrect == ServicesSpec => []ServicesTypeOK
  <1>1. PolicyInv /\ MemoryInv /\ CommandInv /\ ActionInv /\ RecoveryTypeOK /\ RoutingTypeOK
          => ServicesTypeOK
    BY DEF PolicyInv, MemoryInv, CommandInv, ActionInv, ServicesTypeOK
  <1>2. QED
    BY <1>1, Composition, PolicyInvariance, MemoryInvariance, CommandInvariance, ActionInvariance,
       RecoveryTypeCorrect, RoutingTypeCorrect, PTL
=============================================================================

---------------------------- MODULE MCServices ----------------------------
(***************************************************************************)
(* The services around the workflow, for TLC.  They share no state and     *)
(* call each other in none of these handlers: a behaviour of all of them   *)
(* is a shuffle of one behaviour of each, and no property below speaks of  *)
(* two.  So each behaviour of this module is one of a single service, the  *)
(* one in focus, and all of them are checked in one run.                   *)
(***************************************************************************)
EXTENDS AlertPolicyStore, ContextMemory, CommandPolicy, ActionLayer,
        OrchestrationRecovery, RoutingRules, TLC

CONSTANT c1

Services == {"policy", "memory", "commands", "action", "recovery", "router", "rules", "roles"}

VARIABLE focus

\* Namespaces and keys of which two have the same text: ("a", "b"::"c") and ("a"::"b", "c").
TwoProjects == {<<"a">>, <<"a", "b">>}
OneRun == {<<"a">>}
AliasedKeys == {<<"b", "c">>, <<"c">>}

\* Agent routing: priorities that differ, that are the same, and a rule that is disabled.
Rule(agent, keywords, priority, enabled) ==
    [agent |-> agent, keywords |-> keywords, priority |-> priority, enabled |-> enabled]
RouterInCode == [default |-> "coding", rules |-> <<Rule("test", {"test"}, 10, TRUE),
                                                   Rule("review", {"audit"}, 20, TRUE)>>]
ThreeConfigs ==
    {RouterInCode,
     [default |-> "coding", rules |-> <<Rule("review", {"audit", "test"}, 10, TRUE),
                                        Rule("test", {"test"}, 10, TRUE)>>],
     [default |-> "review", rules |-> <<Rule("test", {"test"}, 20, TRUE), Rule("test", {}, 1, TRUE),
                                        Rule("coding", {"audit"}, 10, FALSE),
                                        Rule("review", {"audit", "test"}, 15, TRUE)>>]}

\* The matrix: rules that name one signal or two, of which one may be unknown.
Line(priority, match, complete, target) ==
    [priority |-> priority, match |-> match, complete |-> complete, target |-> target]
MatrixInCode == [target |-> "dev", rules |-> <<>>]
TwoMatrices ==
    {MatrixInCode,
     [target |-> "dev", rules |->
        <<Line(20, [domain |-> {"backend", "data"}], TRUE, "api"),
          Line(10, [domain |-> {"frontend"}, stack |-> {"react"}], TRUE, "ui"),
          Line(10, [domain |-> {"frontend", "data"}], TRUE, "etl"),
          Line(5, [domain |-> {"data"}], FALSE, "none")>>]}
FewSignals == [domain : {{"frontend"}, {"backend"}, {"data"}, {"infra"}}, stack : {{}, {"react"}, {"go"}}]

\* Agent rules: the same role in both scopes, twice in one, and under another spelling.
Section(scope, plain, rules) == [scope |-> scope, plain |-> plain, rules |-> rules]
For(role, executor) == [role |-> role, executor |-> executor]
RegistryInCode == <<Section("main", TRUE, <<For("chief", "a")>>),
                    Section("subproject", TRUE, <<For("dev", "b")>>)>>
ExecutorsInCode == [chief |-> "a", dev |-> "b"]
FiveTexts ==
    {RegistryInCode, <<>>,
     <<Section("main", TRUE, <<For("dev", "x"), For("chief", "y")>>),
       Section("subproject", TRUE, <<For("dev", "y")>>)>>,
     <<Section("subproject", TRUE, <<For("dev", "x"), For("dev", "y")>>)>>,
     <<Section("main", TRUE, <<For("dev", "x")>>), Section("main", FALSE, <<For("dev", "y")>>)>>}

servicesVars == <<policyVars, memoryVars, commandVars, actionVars, recoveryVars, routingVars, focus>>

\* What a service may choose when it starts is chosen for the one in focus alone.
ServicesInit ==
    /\ PolicyInit /\ MemoryInit /\ CommandInit /\ ActionInit /\ RecoveryInit /\ RoutingInit
    /\ focus \in Services
    /\ focus # "policy" => ~approvalRequired
    /\ focus # "commands" => restartPolicy = CHOOSE p \in Restarting : TRUE
    /\ focus # "action" => layer = "down"
    /\ focus # "router" => routerFile = DefaultRouter /\ matrix = DefaultMatrix
    /\ focus # "rules" => registryFile = DefaultRegistry
    /\ focus # "roles" => policyFile.content = Unreadable

ServicesNext ==
    /\ UNCHANGED focus
    /\ \/ /\ focus = "policy" /\ PolicyNext
          /\ UNCHANGED <<memoryVars, commandVars, actionVars, recoveryVars, routingVars>>
       \/ /\ focus = "memory" /\ MemoryNext
          /\ UNCHANGED <<policyVars, commandVars, actionVars, recoveryVars, routingVars>>
       \/ /\ focus = "commands" /\ CommandNext
          /\ UNCHANGED <<policyVars, memoryVars, actionVars, recoveryVars, routingVars>>
       \/ /\ focus = "action" /\ ActionNext
          /\ UNCHANGED <<policyVars, memoryVars, commandVars, recoveryVars, routingVars>>
       \/ /\ focus = "recovery" /\ RecoveryNext
          /\ UNCHANGED <<policyVars, memoryVars, commandVars, actionVars, routingVars>>
       \/ /\ \/ focus = "router" /\ RouterNext /\ UNCHANGED <<registryVars, roleVars>>
             \/ focus = "rules" /\ RegistryNext /\ UNCHANGED <<routerVars, roleVars>>
             \/ focus = "roles" /\ RoleNext /\ UNCHANGED <<routerVars, registryVars>>
          /\ UNCHANGED <<policyVars, memoryVars, commandVars, actionVars, recoveryVars>>

ServicesSpec == ServicesInit /\ [][ServicesNext]_servicesVars

\* The ranges of the variables of every service.
ServicesTypeOK ==
    /\ PolicyTypeOK /\ MemoryTypeOK /\ CommandTypeOK /\ ActionTypeOK /\ RecoveryTypeOK
    /\ RoutingTypeOK
=============================================================================

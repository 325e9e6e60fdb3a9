---------------------------- MODULE RoutingRules ----------------------------
(***************************************************************************)
(* Four files of rules that decide who does the work, and what the two     *)
(* processes hold of them in memory:                                       *)
(*   - agent routing: which agent takes a command (AgentRouter);           *)
(*   - the development matrix: whom a module's work is for                 *)
(*     (DevRoutingMatrixService);                                          *)
(*   - agent rules: which executor a role has (AgentRulesRegistryService   *)
(*     in the control center, a loader of its own in the Action Layer);    *)
(*   - role routing: which adapter executes a role                         *)
(*     (RoleRoutingPolicyService).                                         *)
(* Operators edit the files, at any moment; the code reads them when it    *)
(* starts, when it is told to, or when it sees that one has changed, and   *)
(* writes the first and the third itself.  A control center that dies      *)
(* reads all of them again; they share nothing else, so each part below    *)
(* has its restart.                                                        *)
(***************************************************************************)
EXTENDS Integers, Sequences, SequencesExt

CONSTANTS
    Unreadable,      \* a file that is missing, truncated or no JSON
    Malformed,       \* JSON of another shape
    Down,            \* in place of what a process holds while it does not serve
    RouterConfigs,   \* agent routing: [default, rules]
    DefaultRouter,   \* the one in the code
    Words,           \* the keywords that commands may contain
    Matrices,        \* the matrix: [target, rules]
    DefaultMatrix,   \* the one in the code
    MatrixSignals,   \* what modules are taken for: functions from signals to sets
    RegistryTexts,   \* agent rules: sequences of sections [scope, plain, rules]
    DefaultRegistry, \* the one in the code
    DefaultExecutors,\* AgentRegistry.default_mapping
    RolePolicies,    \* role routing, of which nothing but its identity matters here
    MaxPolicyEdits,  \* bound on edits of the role routing
    MaxWriteFaults   \* bound on failing writes

ASSUME RoutingAssumption ==
    /\ MaxPolicyEdits \in Nat /\ MaxWriteFaults \in Nat
    /\ Down \notin RouterConfigs
    /\ DefaultRouter \in RouterConfigs /\ DefaultMatrix \in Matrices
    /\ DefaultRegistry \in RegistryTexts
    /\ Unreadable \notin RegistryTexts \cup {Malformed, Down}

\* Rules form a list, each with a number for its priority.
Listed(rules) ==
    /\ rules \in Seq({rules[i] : i \in DOMAIN rules})
    /\ \A i \in DOMAIN rules : rules[i].priority \in Int

ASSUME RulesAreListed ==
    /\ \A config \in RouterConfigs : Listed(config.rules)
    /\ \A m \in Matrices : Listed(m.rules)

VARIABLES
    routerFile, router, \* agent routing: on disk, in memory
    put,                \* what a PUT is writing, or Down
    unread,             \* history: the file was edited, or written in part, since it was read
    matrix,             \* the matrix the process was started with
    writeFaults,
    registryFile,       \* agent rules on disk
    registry,           \* what GET /agent-rules shows
    engineFrom,         \* the text that WorkflowEngine got its executors from
    layerFrom,          \* what the Action Layer found when it started
    policyFile,         \* role routing: its content, and the time it was written
    routes, seenTime,   \* what is held of it, and the time noted for that
    reload,             \* how far the reload is that a work item caused
    overtaken           \* history: an edit came between reading the file and noting its time

routerVars == <<routerFile, router, put, unread, matrix, writeFaults>>
registryVars == <<registryFile, registry, engineFrom, layerFrom>>
roleVars == <<policyFile, routes, seenTime, reload, overtaken>>
routingVars == <<routerVars, registryVars, roleVars>>

-----------------------------------------------------------------------------
(* Rules in the order of their priority, and of the file where it is the    *)
(* same; the first that fits decides.                                       *)

\* Mutant: rules of the same priority come in the reverse order of the file.
PrecedesBackwards(rules, i, j) ==
    \/ rules[i].priority < rules[j].priority
    \/ rules[i].priority = rules[j].priority /\ i > j

Precedes(rules, i, j) ==
    \/ rules[i].priority < rules[j].priority
    \/ rules[i].priority = rules[j].priority /\ i < j

\* The kept rules in that order: the n-th one has n - 1 kept ones before it.
Place(rules, kept, i) == Cardinality({j \in kept : Precedes(rules, j, i)}) + 1
Ranked(rules, kept) ==
    [n \in 1 .. Cardinality(kept) |-> rules[CHOOSE i \in kept : Place(rules, kept, i) = n]]

FirstFit(rules, fitting, otherwise) ==
    IF fitting = {} THEN otherwise ELSE rules[Min(fitting)]

\* _load_config: a rule without keywords is left out.
RouterLoaded(content) ==
    LET config == IF content \in RouterConfigs THEN content ELSE DefaultRouter
    IN  [default |-> config.default,
         rules |-> Ranked(config.rules, {i \in DOMAIN config.rules : config.rules[i].keywords # {}})]

Triggered(rule, words) == rule.enabled /\ rule.keywords \cap words # {}

\* route, for a task that is not assigned to an agent of its own.
RouteCommand(words) ==
    LET fitting == {i \in DOMAIN router.rules : Triggered(router.rules[i], words)}
    IN  FirstFit(router.rules, fitting, [agent |-> router.default]).agent

MatrixLoaded(content) == IF content \in Matrices THEN content ELSE DefaultMatrix

\* _matrix_rule_matches: a signal of which nothing is known fits every rule.
Fitting(rule, signals) ==
    \A key \in DOMAIN rule.match \cap DOMAIN signals :
      rule.match[key] # {} /\ signals[key] # {} => rule.match[key] \cap signals[key] # {}

\* _select_rule: a rule that does not name its target in full is passed over.
SelectTarget(signals) ==
    LET rules == Ranked(matrix.rules, DOMAIN matrix.rules)
        fitting == {i \in DOMAIN rules : Fitting(rules[i], signals) /\ rules[i].complete}
    IN  FirstFit(rules, fitting, [target |-> matrix.target]).target

-----------------------------------------------------------------------------
(* Agent routing: PUT writes the file and reads it back.                    *)

RouterInit ==
    /\ routerFile \in RouterConfigs \cup {Unreadable}
    /\ router = RouterLoaded(routerFile)
    /\ put = Down
    /\ unread = FALSE
    /\ \E content \in Matrices \cup {Unreadable} : matrix = MatrixLoaded(content)
    /\ writeFaults = 0

ReadRouter == router' = RouterLoaded(routerFile') /\ unread' = FALSE

PutOpens(config) ==
    /\ put = Down
    /\ put' = config
    /\ routerFile' = Unreadable
    /\ UNCHANGED <<router, unread, matrix, writeFaults>>

PutWrites ==
    /\ put # Down
    /\ routerFile' = put
    /\ put' = Down
    /\ ReadRouter
    /\ UNCHANGED <<matrix, writeFaults>>

PutFails ==
    /\ put # Down /\ writeFaults < MaxWriteFaults
    /\ put' = Down
    /\ unread' = TRUE
    /\ writeFaults' = writeFaults + 1
    /\ UNCHANGED <<routerFile, router, matrix>>

ReloadRouter ==
    /\ put = Down
    /\ UNCHANGED <<routerFile, put, matrix, writeFaults>>
    /\ ReadRouter

EditRouter(content) ==
    /\ put = Down
    /\ routerFile' = content
    /\ unread' = TRUE
    /\ UNCHANGED <<router, put, matrix, writeFaults>>

RouterRestart ==
    /\ put' = Down
    /\ \E content \in Matrices \cup {Unreadable} : matrix' = MatrixLoaded(content)
    /\ UNCHANGED <<routerFile, writeFaults>>
    /\ ReadRouter

RouterNext ==
    \/ \E config \in RouterConfigs : PutOpens(config)
    \/ PutWrites \/ PutFails \/ ReloadRouter \/ RouterRestart
    \/ \E content \in RouterConfigs \cup {Unreadable} : EditRouter(content)

-----------------------------------------------------------------------------
(* Agent rules.  plain: the section's name is written as the code knows it, *)
(* not with capitals or blanks, which only the control center forgives.     *)

Scopes == {"subproject", "main"}

\* Of two sections of the same scope the later one counts.
SectionOf(text, scope, forgiving) ==
    LET named == {i \in DOMAIN text : text[i].scope = scope /\ (text[i].plain \/ forgiving)}
    IN  IF named = {} THEN <<>> ELSE text[Max(named)].rules

RulesFor(role, rules) == {i \in DOMAIN rules : rules[i].role = role}
FirstPerRole(rules) ==
    [role \in {rules[i].role : i \in DOMAIN rules} |-> rules[Min(RulesFor(role, rules))].executor]

\* A subproject's rule for a role goes before the main one; no rule at all means the
\* mapping in the code, here and in AgentRegistry.
ExecutorsOf(text, forgiving) ==
    LET sub == FirstPerRole(SectionOf(text, "subproject", forgiving))
        main == FirstPerRole(SectionOf(text, "main", forgiving))
        all == [role \in DOMAIN sub \cup DOMAIN main |->
                  IF role \in DOMAIN sub THEN sub[role] ELSE main[role]]
    IN  IF DOMAIN all = {} THEN DefaultExecutors ELSE all

CenterExecutors(text) == ExecutorsOf(text, TRUE)

\* Text and mapping in the code say the same.
ASSUME DefaultsAgree == CenterExecutors(DefaultRegistry) = DefaultExecutors

\* What the Action Layer cannot load is replaced by the mapping in the code.
LayerExecutors(content) ==
    IF content \in RegistryTexts THEN ExecutorsOf(content, FALSE) ELSE DefaultExecutors

\* The control center refuses a section that has two rules for a role.
Accepted(content) ==
    /\ content \in RegistryTexts
    /\ \A i \in DOMAIN content : \A j \in DOMAIN content[i].rules :
         RulesFor(content[i].rules[j].role, content[i].rules) = {j}

RegistryInit ==
    /\ registryFile \in RegistryTexts \cup {Unreadable, Malformed}
    /\ registry = Down /\ engineFrom = Down
    /\ layerFrom = Down

\* _load_payload: a file that cannot be read is overwritten with the text in the code.
LoadRules ==
    /\ registryFile' = IF registryFile = Unreadable THEN DefaultRegistry ELSE registryFile
    /\ registry' = IF Accepted(registryFile') THEN registryFile' ELSE registry

\* With a text it refuses the control center does not start.
StartCenter ==
    /\ registry = Down
    /\ LoadRules
    /\ engineFrom' = registry'
    /\ UNCHANGED layerFrom

\* POST /agent-rules/reload: a refused text is a 422 and the old one stays; the engine's
\* executors are not loaded again.
ReloadRules ==
    /\ registry # Down
    /\ LoadRules
    /\ UNCHANGED <<engineFrom, layerFrom>>

StopCenter ==
    /\ registry' = Down /\ engineFrom' = Down
    /\ UNCHANGED <<registryFile, layerFrom>>

RestartLayer ==
    /\ layerFrom' = registryFile
    /\ UNCHANGED <<registryFile, registry, engineFrom>>

EditRegistry(content) ==
    /\ registryFile' = content
    /\ UNCHANGED <<registry, engineFrom, layerFrom>>

RegistryNext ==
    \/ StartCenter \/ ReloadRules \/ StopCenter \/ RestartLayer
    \/ \E content \in RegistryTexts \cup {Unreadable, Malformed} : EditRegistry(content)

-----------------------------------------------------------------------------
(* Role routing: every work item looks at the time of the file first, and   *)
(* reads it again when that has changed.                                    *)

RoleInit ==
    /\ policyFile \in [content : RolePolicies \cup {Unreadable}, time : {1}]
    /\ routes = Down /\ seenTime = 0
    /\ reload = "none"
    /\ overtaken = FALSE

EditPolicy(content) ==
    /\ policyFile.time <= MaxPolicyEdits
    /\ policyFile' = [content |-> content, time |-> policyFile.time + 1]
    /\ overtaken' = (reload = "stat")
    /\ UNCHANGED <<routes, seenTime, reload>>

\* _reload_if_changed; at the start of the process the file is read in any case.
BeginReload ==
    /\ reload = "none"
    /\ seenTime # policyFile.time
    /\ reload' = "read"
    /\ UNCHANGED <<policyFile, routes, seenTime, overtaken>>

\* Mutant: the time is noted although the file could not be read.
ReadPolicyOnce ==
    /\ reload = "read"
    /\ reload' = "stat" /\ overtaken' = FALSE
    /\ routes' = IF policyFile.content = Unreadable THEN routes ELSE policyFile.content
    /\ UNCHANGED <<policyFile, seenTime>>

\* A file that cannot be read raises, to the work item or to the start of the process,
\* and is read again the next time.
ReadPolicy ==
    /\ reload = "read"
    /\ IF policyFile.content = Unreadable
       THEN reload' = "none" /\ UNCHANGED <<routes, overtaken>>
       ELSE reload' = "stat" /\ routes' = policyFile.content /\ overtaken' = FALSE
    /\ UNCHANGED <<policyFile, seenTime>>

\* The time that is noted is that of the file now, not that of what was read.
NoteTime ==
    /\ reload = "stat"
    /\ reload' = "none"
    /\ seenTime' = policyFile.time
    /\ UNCHANGED <<policyFile, routes, overtaken>>

RoleRestart ==
    /\ routes' = Down /\ seenTime' = 0
    /\ reload' = "none"
    /\ overtaken' = FALSE
    /\ UNCHANGED policyFile

RoleNext ==
    \/ BeginReload \/ ReadPolicy \/ NoteTime \/ RoleRestart
    \/ \E content \in RolePolicies \cup {Unreadable} : EditPolicy(content)

-----------------------------------------------------------------------------
RoutingInit == RouterInit /\ RegistryInit /\ RoleInit

RoutingNext ==
    \/ RouterNext /\ UNCHANGED <<registryVars, roleVars>>
    \/ RegistryNext /\ UNCHANGED <<routerVars, roleVars>>
    \/ RoleNext /\ UNCHANGED <<routerVars, registryVars>>

RoutingSpec == RoutingInit /\ [][RoutingNext]_routingVars

\* Each memory holds something its file can hold.
RoutingTypeOK ==
    /\ routerFile \in RouterConfigs \cup {Unreadable}
    /\ \E content \in RouterConfigs : router = RouterLoaded(content)
    /\ put \in RouterConfigs \cup {Down}
    /\ unread \in BOOLEAN
    /\ matrix \in Matrices
    /\ writeFaults \in 0 .. MaxWriteFaults
    /\ registryFile \in RegistryTexts \cup {Unreadable, Malformed}
    /\ {registry, engineFrom} \subseteq RegistryTexts \cup {Down}
    /\ layerFrom \in RegistryTexts \cup {Unreadable, Malformed, Down}
    /\ policyFile.content \in RolePolicies \cup {Unreadable}
    /\ routes \in RolePolicies \cup {Down}
    /\ {seenTime, policyFile.time} \subseteq 0 .. MaxPolicyEdits + 1
    /\ reload \in {"none", "read", "stat"}
    /\ overtaken \in BOOLEAN

\* The rule that decides among those that fit: no other has a lower number, or the same
\* one and an earlier place in the file.
Decides(rules, fits, i) ==
    /\ i \in fits
    /\ \A j \in fits : \/ rules[i].priority < rules[j].priority
                       \/ rules[i].priority = rules[j].priority /\ i <= j

\* Whatever a command says, its agent is that of the deciding rule of the file that was
\* read last, and the default one only if no rule fits; likewise the target of a module
\* (AgentRouter.route, DevRoutingMatrixService._select_rule).  Control center and
\* Action Layer, which read the agent rules with different code at different times, name
\* the same executors for the same text, also where one of them falls back to the
\* mapping in the code: unless a section's name is not written plainly.
RulesDecideAlike ==
    /\ put = Down /\ ~unread /\ routerFile # Unreadable => \A words \in SUBSET Words :
         LET fits == {i \in DOMAIN routerFile.rules : Triggered(routerFile.rules[i], words)}
         IN  \/ \E i \in fits : /\ Decides(routerFile.rules, fits, i)
                                /\ RouteCommand(words) = routerFile.rules[i].agent
             \/ fits = {} /\ RouteCommand(words) = routerFile.default
    /\ \A signals \in MatrixSignals :
         LET fits == {i \in DOMAIN matrix.rules :
                        Fitting(matrix.rules[i], signals) /\ matrix.rules[i].complete}
         IN  \/ \E i \in fits : /\ Decides(matrix.rules, fits, i)
                                /\ SelectTarget(signals) = matrix.rules[i].target
             \/ fits = {} /\ SelectTarget(signals) = matrix.target
    /\ \/ {engineFrom, layerFrom} \cap {Down, Malformed} # {}
       \/ engineFrom # (IF layerFrom = Unreadable THEN DefaultRegistry ELSE layerFrom)
       \/ \E i \in DOMAIN engineFrom : ~engineFrom[i].plain
       \/ CenterExecutors(engineFrom) = LayerExecutors(layerFrom)

\* What decides is what the file says, through reloads, failing writes, restarts and
\* edits.  The agent routing in memory is that of the file unless the file was edited by
\* hand or written in part since.  Once the time of the role routing has been noted the
\* routes are those of the file, unless it was edited between reading it and noting its
\* time: then the old routes stay in force until the next edit.
RoutingFollowsFiles ==
    /\ put = Down /\ ~unread => router = RouterLoaded(routerFile)
    /\ reload = "none" /\ seenTime = policyFile.time /\ ~overtaken =>
         routes = policyFile.content
=============================================================================

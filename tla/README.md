# WhereCode control center: specifications, model checking and proofs

This directory holds TLA+ specifications of the control center of WhereCode (`src/control_center`),
the part of the repository that keeps state: it takes a requirement, splits it into a pipeline of
work items, lets agents execute them through an executor, checks their results at gates and answers
for the state of the run. The modules are written from the source; `PROJECT.json` names, for each
definition, the lines it models.

* [System inventory](#system-inventory)
* [Modules](#modules)
* [What is checked](#what-is-checked)
* [Bounds](#bounds)
* [Fairness](#fairness)
* [What is proved](#what-is-proved)
* [Where code and documents disagree](#where-code-and-documents-disagree)
* [What is not modelled](#what-is-not-modelled)
* [Plan](#plan)

## System inventory

The control center is one Python process, a FastAPI application with an asyncio event loop. Its
request handlers are coroutines: between two `await`s a handler runs alone, at an `await` any other
handler may run. State lives in memory and is written through, entity by entity, to sqlite, each
`upsert` in a transaction of its own, and loaded from it at start. The ops checks alone run in threads.
The action layer is a second process, a threading HTTP server without state between requests.

| component | source | state | operations | hard behaviour | what makes it correct |
|---|---|---|---|---|---|
| workflow scheduler | `services/workflow_scheduler*.py` | runs, work items, discussions, gate checks, artifacts | create, add, tick, start, complete, approve, discuss, resolve, skip, rewire, interrupt, restart | derived run status that must follow every item; discussions with budget and time-out; calls for canceled runs | runs isolated; status truthful; dependency order; finished is final; canceled is inert |
| workflow engine | `services/workflow_engine*.py` | `reflow_attempts`, `module_terminal_workitems` in the run; locals of each call | bootstrap, execute until blocked, gates, module reflow, artifacts | two calls on one run interleave at each await; interrupts, approvals, answers arrive meanwhile; a reflow rebuilds a part of the graph that others wait for; crashes | one execution per item; nobody left running; integration after modules; succeeded means verified; calls return |
| gatekeeper | `services/gatekeeper.py`, `gates/` | none | evaluate a finished item | result depends on the reflow generation | no item that failed its gate is counted as done |
| execution runtime | `workflow_execution_runtime.py` | run and requirement status | execute, interrupt, restart, acceptance outcome | advance before the check of the confirmation | no work on an unconfirmed requirement |
| decomposition | `workflow_decompose_*.py` | pending decomposition, confirmation, clarification | decompose, confirm, reject, clarify, advance loop, preview | the chief architect is awaited between check and write; bootstrap fails after confirm | what was confirmed is what is built; a decision is about what was read |
| orchestration, recovery | `workflow_orchestration_*.py` | the latest decision report | orchestrate, recover | several causes compete by score; the run moves during the call; the report is used later | the advice can be followed; a canceled run is restarted |
| command orchestrator | `orchestrator.py`, `models/hierarchy.py` | projects, tasks, commands, counters | create, approve, advance on read | one lock held across an await; several upserts per step | counters agree with commands, after a restart as well |
| command policy | `command_orchestration_policy.py`, `command_dispatch.py` | metadata of command and task about runs | intent, clarification, create or restart a run, every end of the orchestration | run rows are written at once, command rows at the end; clients move the runs during the await | a command makes one run; a task shows its latest run |
| ops checks | `ops_check_runtime.py` | check runs, reports | start, wait, thread body | real threads, snapshots written back, rows written outside the lock | a finished run stays finished and has its report |
| alert policy store | `metrics_alert_policy_store*.py` | two documents with audit lines, rollback approvals, purge log | update, roll back, approve, purge, expire | consume, then apply; whole files rewritten; a write may fail at any point | an approval and a key are used once; at rest memory, file and audit agree |
| context memory | `context_memory_store.py` | items per namespace | upsert, resolve, delete | precedence of scopes; rows named by joined text | the nearest scope wins; what is stored is what was seen |
| routing and rules | `agent_router.py`, `agent_rules_registry.py`, `dev_routing_matrix.py`, `executors/role_routing.py` | four files of rules, copies in two processes | load, PUT, reload, reload by modification time, decide | edits at any time; failing writes; two implementations of one format | what decides is what the file says; both processes decide alike |
| executors, client | `executors/`, `action_layer_client.py` | none | execute a work item | time-outs, exceptions | every call is answered, and truthfully |
| action layer | `src/action_layer` | none | run an agent with an LLM | retries, silent providers, abandoned calls, restarts | success only for an answer that says so |

How they interact: the API routes call the execution, decomposition and orchestration runtimes; these
call the engine; the engine alone drives the scheduler through a run, while other routes call the
scheduler's own operations (tick, start, complete, approve, resolve, interrupt) at any moment the event
loop is free. A command of the command orchestrator goes through the dispatch to the command policy, which
creates or restarts a run and orchestrates it, or to an agent. The engine awaits the executor service, which
routes the role and asks the action layer over HTTP, which asks an LLM provider. Ops checks, alert policy,
context memory and rules share nothing with these but the process.
All hazards found in the survey, with their lines, are listed in `PROJECT.json` under `hazards`.

## Modules

```
TaskGraph                  what a scheduler of dependent tasks promises
   ^ implements (proved and checked)
WorkflowScheduler          workflow_scheduler*.py, one action per method
   ^ implements            ^ instance    ^ theorems: WorkflowSchedulerProofs
   | (proved and checked)  |
   |                 WorkflowLifecycle   workflow_decompose_*.py, workflow_execution_runtime.py,
   |                       ^ extends     workflow_orchestration_runtime.py
   |                       |
   |                 OrchestrationRecovery   workflow_orchestration_support*.py, recover
   |                             theorems of both: WorkflowLifecycleProofs
WorkflowEngine             workflow_engine*.py, gatekeeper.py, the calls of clients, crashes
                           theorems: WorkflowEngineProofs

JobLedger                  what a ledger of jobs promises
   ^ implements (proved and checked)
CommandOrchestrator        orchestrator.py, hierarchy.py, sqlite_state_store.py
                                 ^ theorems: CommandOrchestratorProofs
CommandPolicy              command_orchestration_policy.py, command_dispatch.py: what a command does
ActionLayer                executors/, action_layer_client.py, src/action_layer
AlertPolicyStore           metrics_alert_policy_store*.py
ContextMemory              context_memory_store.py; theorems: ContextMemoryProofs
OpsChecks                  ops_check_runtime.py; theorems: OpsChecksProofs
RoutingRules               agent_router.py, agent_rules_registry*.py, dev_routing_matrix.py, role_routing.py
                           theorems of CommandPolicy, ActionLayer, AlertPolicyStore and RoutingRules: ServicesProofs

MCWorkflowScheduler, MCWorkflowEngine, MCLifecycle, MCCommandOrchestrator   instances of one module
MCServices   = AlertPolicyStore + ContextMemory + CommandPolicy + ActionLayer + OrchestrationRecovery
               + RoutingRules, one of them in focus per behaviour; theorems: CompositionProofs
MCLive       = WorkflowEngine with crashes + OpsChecks, one of them in focus, under fairness;
               theorems: OpsChecksProofs
```

**TaskGraph** knows nodes that are unborn, waiting, open, done or failed, and the nodes each of them
comes after. A node opens only when all of those are done; done and failed are final; what is given up
(skipped) counts as done. It says nothing of runs, approvals or executors.

**WorkflowScheduler** has one variable per field the code keeps (`run.status`, `item.status`,
`depends_on`, `requires_approval`, `discussion_used`, the fingerprints in the item's metadata, and
the sessions of each item, by round) and one action per public method. No method of the scheduler
awaits, so that one call is one step. A call the code refuses with an exception is a disabled
action. `Refresh` is `_refresh_run_status`, with which almost every method ends. Time
appears only as the choice `late` in `ResolveDiscussion`. Gate checks and artifacts, which the
scheduler stores and never reads back, are left to the engine. The refinement mapping to `TaskGraph` is
the function `phase`.

**WorkflowEngine** instantiates the scheduler and adds what the engine keeps in a run, and one
coroutine per caller with its program counter and locals (`batch`, `item`, ...). `loop` is the event
loop: a coroutine that holds it takes its steps up to the next await or its end, everyone else needs it
free. Each of its steps has at most one call of a scheduler method, which is also the unit of
persistence: `Crash` may come between any two, and what it leaves is exactly what had been
stored. `Next` is a life of the process; `MCLive` adds `Crash` to it. The actions follow the code from top to bottom:

| code | actions |
|---|---|
| `bootstrap_standard_pipeline` | `Bootstrap`, `BootstrapItem` (one `add_workitem`), `BootstrapEnd` |
| `execute_until_blocked`, head of the loop | `Execute`, `PullReady`, `PullTick`, `PullEnd`, `NextRoundOfBatch` |
| `start_workitem`, the await | `StartNext`, `StartRefused` |
| the answer of the executor | `Answer`, `AnswerDiscuss`, `AnswerDiscussRefused` |
| after the await, gates | `JudgeDrop`, `JudgeSuccess`, `JudgeFailure`, `Complete`, `Emit`, `Fail`, `RaiseIfCanceled` |
| `_apply_module_reflow` | `BeginReflow`, `SkipObsolete`, `Grow`, `SetTerminal`, `Rewire`, `RewireRefused`, `Replace` |
| other requests | `Create`, `Interrupt`, `Approve`, `Resolve`, `ManualTick`, `ManualStart`, `ManualComplete` |

A work item is named by its origin: module, generation (0 from the bootstrap, then one per reflow) and
position. `Package` is the task package of a module: a sequence of roles with the roles each
comes after. The gates of the code look for markers in the module key; the sets `DocReflowOnce`,
`DocFail`, `TestFail`, `SecurityFail` are the modules whose key bears one. The executor is the
environment: it may succeed, fail or, for the roles in `Talkative`, ask for a discussion.

**WorkflowLifecycle** is about one run from its requirement to its acceptance. It instantiates the
scheduler with a pipeline of two items, the release after the work, and adds what is decided about the run:
`requirement` (`run.requirement_status`), `record` (`metadata["chief_decomposition"]`, of which
`pending_decomposition` is a copy), `preview`, `built` (the decomposition the items came from),
`evidence`, `accepted`. The fingerprint of the preview is the record it was made of. `seen` is the token a human
has read; a client confirms with it ("token") or without one ("blind"), as the code allows both. A handler is a
stack of segments: `orchestrate` is *decompose, then advance, then execute, then accept*, `execute` with
auto-advance is *advance, then execute*; each caller has the rest of its handler in `todo`, and only the
chief architect (`chief`) and the executor (`await`) are awaited. `NextAction` is `_build_decompose_next_action`, and
a step of the advance loop computes and executes it without giving up the event loop. The numbers in a request
(`max_steps`, `max_loops`) become the choice to end at any step. After a restart the model goes on with the new
run, which begins with a copy of the old decomposition. Clients that append work items after the bootstrap are left
out, so that `AcceptedSound` speaks of the pipeline.

| code | actions |
|---|---|
| `decompose_bootstrap_workflow_run` | `Decompose`, `ChiefProposes`, `ChiefDecides`, `ChiefFails` |
| pending, `confirm_decompose_bootstrap_workflow_run` | `ReadPending`, `Confirm` (approve or reject) |
| preview | `PreviewRoute` |
| `advance_decompose_bootstrap_run_loop` | `Advance`, `StepPreview`, `StepConfirm`, `StepBootstrap`, `StepTick`, `StepExecute`, `AdvanceEnds` |
| `orchestrate_workflow_run` | `Orchestrate` |
| `execute_workflow_run` | `Execute`, `ExecuteAuto`, `ExecuteStarts`, `ExecuteRefused`, `Accept` |
| the engine, in short | `EngineStarts`, `EngineTicks`, `EngineEnds`, `Answer`, `AnswerDropped`, `AnswerRaises` |
| other requests | `BootstrapRoute`, `Interrupt`, `ManualTick`, `ManualComplete`, `Restart` |

**CommandOrchestrator** has the memory (`projects`, `tasks`, `commands`), the rows in sqlite (`disk`) and the
`outbox`: a method changes the memory in one step, since nothing else runs between two awaits, and leaves there
the rows it persists, in the order of the code. `Flush` writes one row, and nothing but `Flush` and `Crash` can
happen until they are written. The lock of the class is `lock`; a reader keeps it over all the commands it
advances (`co[client].todo`) and over the await of the executor (`awaits`). `Refresh` is
`_refresh_task_and_project_state_locked`. After a crash the memory is what the store has, if the models
accept it (`Loads`).

| code | actions |
|---|---|
| `create_project`, `create_task`, `create_command`, `approve_command` | `CreateProject`, `CreateTask`, `CreateCommand`, `ApproveCommand` |
| `list_*`, `get_*`, the metrics | `Read` (takes the lock), `Release` |
| `_advance_command_locked` | `AdvanceSkip`, `AdvanceStart`, `AdvanceExecute` |
| `_complete_command_execution_locked` | `Answer` |
| `upsert`; death of the process and `_load_state` | `Flush`; `Crash` |

**JobLedger** is what the rows of the commands promise, without tasks, counters, locks or a memory: an entry moves from
submitted over cleared (approved), started and run to finished, and never back; a job runs after it was entered as
started, and again only for a death of the process after it ran. The mapping is the stored row of each command (`EntryOf`), how often
it was executed (`calls`) and the number of crashes. A crash is `Die`: what it does to the memory shows nowhere in the ledger.

**CommandPolicy** is what the executor of `CommandOrchestrator` does with the commands of one task. The lock keeps
commands apart, so there is one `call`; it meets clients of the workflow API (`FlowEnds`, `ClientRestarts`) during
its await, and `CommandCrash` between any two rows. `flows` are the workflow runs, whose rows are written at once;
`task`/`taskRow` and `orders`/`orderRows` are what memory and store know about them. An intent is reduced to what
it decides: requirements, open questions, the flag about restarting.

| code | actions |
|---|---|
| `_advance_command_locked`, the prefix test of `maybe_execute` | `Submit`, `OrderBegins`, `Dispatch` |
| clarification | `AskBack` |
| `_create_or_restart_command_orchestrate_run` | `CreateFlow`, `RestartFlow`, `LinkFlow` |
| the ends of the orchestration | `OrderAnswered`, `Refused`, `Raises`; of any other command `AgentAnswers` |
| rows of the command and the task; restart | `WriteOrder`, `WriteTask`; `CommandCrash` |

**ActionLayer** follows a call from `ExecutorService` to the provider: `caller` (the await, with its time-out),
`worker` (the thread of the action layer, which goes on when the caller has left) and the provider, which is the
environment (`said`). A layer may run with a provider or without one, where it answers from a template.

| code | actions |
|---|---|
| `execute_workitem`, `ActionLayerClient` | `Route`, `NoConnection`, `CallTimesOut` |
| the handler of the layer | `Receive`, `Respond` (part of the actions that end a thread) |
| `default_http_post` | `AsksAgain`, `GivesUp`, `ThreadDies` |
| the answer and its parsing | `ProviderAnswers` (`Parsed`) |
| the process | `LayerStarts`, `LayerStops` |

**AlertPolicyStore** is synchronous, so handlers do not overlap; but each is a sequence of changes in memory and of
file operations, any of which may raise, and the process may die between any two. `HandlerBegins` puts that sequence
into `todo`, and each of the step actions takes one step of it. `Path.write_text` is two steps, since it truncates first. Time is the
action `Expire`.

| code | actions |
|---|---|
| `update_policy`, `update_verify_policy_registry` | `Update` |
| `rollback_to_audit`; approvals | `Rollback`; `CreateApproval`, `ApproveRollback`, `RefreshOnly`, `PurgeApprovals`, `PurgeLogGC` |
| the steps of these | `SetValue`, `WriteDoc`, `NoteAudit`, `AppendAudit`, `MarkApproval`, `WriteApprovals`, `LogPurge`, `WritePurges` |
| a write raises; the process dies | `PolicyFault`; `PolicyCrash` |

**ContextMemory** names a row as the code does, by the text `namespace::key`. Ids and keys are sequences of the
parts between separators, and the text is their concatenation, so that two of them may have the same text. Actions:
`PutItem`, `DeleteItem` (each with a write that may fail), `MemoryCrash`; `Resolve` is an operator.

**OpsChecks** has two processes per check: the handler that creates it and may wait (`CreateCheck`, `PersistQueued`,
`StartThread`, `WaitEnds`, `WaitTimesOut`, `WriteBack`, `PutWritten`) and its thread (`BeginCheck`, `Spawn`,
`ScriptEnds`, `WriteReport`, `SetFinal`, `Put`; `Rescue` and `ThreadFault` for the exceptions). A step ends where the
lock is released or a row or a file is written, so that they meet at exactly the points where the code lets them.

**OrchestrationRecovery** extends the lifecycle with what orchestrate leaves behind: a decision report whose
primary action (`advice`) wins a scoring of all causes (`Base`, `Adjustment`, `Score`, `Primary`: the tables of the
code, in percent). A step is one of the lifecycle's, or the report that ends an orchestrate call; `fresh` says that
nothing has moved since. The recovery actions themselves are steps of the lifecycle (`RecoverOrchestrates`, `Moves`).

**RoutingRules** has four parts that share nothing: agent routing (`PutOpens`, `PutWrites`, `PutFails`,
`ReloadRouter`, `EditRouter`, `RouterRestart`), the development matrix (read once at start), the agent rules (`StartCenter`, `ReloadRules`,
`RestartLayer`, `EditRegistry`), and role routing, whose reload is three steps, the look at the modification time, the read and the note
of the time (`BeginReload`, `ReadPolicy`, `NoteTime`), with `EditPolicy` in between. How rules decide are operators: `RouteCommand`,
`SelectTarget`, `CenterExecutors`, `LayerExecutors`.

**MCWorkflowScheduler**, **MCWorkflowEngine**, **MCLifecycle** and **MCCommandOrchestrator** hold the instances for
TLC. **MCServices** and **MCLive** check several modules in one run: these share no variable and none calls
another in the handlers modelled, no property speaks of two, and every behaviour of all of them together is a shuffle of one behaviour
of each. So the variable `focus` picks one, and the others stay in their initial state. `MCWorkflowEngine`, `MCLifecycle` and the
refinements are where modules do interact.

Definitions whose comment begins with "Mutant" are variants with a plausible bug; no action uses them. They are there to show
that each property can fail: with the mutant in place of the definition it varies, TLC finds the
property violated.

## What is checked

| run | question | properties | distinct states |
|---|---|---|---|
| `scheduler` | do all interleavings of scheduler calls over two runs keep runs apart, statuses truthful and work in order, and do they execute a task graph? | `TypeOK`, `RunsAreIsolated`, `RunStatusSound`, `DiscussionSound`, `DependenciesBeforeWork`, `FailureIsFinal`, `CanceledRunIsInert`, `ImplementsTaskGraph` | 983 000 |
| `engine` | two callers, a reflow, discussions, approvals, interrupts | `IntegrationAfterModules`, `RunningItemsAreOwned`, `OneExecution`, `EvidenceComplete`, `ReturnsOnlyWhenBlocked` | 808 000 |
| `engine_refines_scheduler` | does the engine stay within the scheduler's specification, in particular rewire pending items only, where a package is a chain? | `ImplementsScheduler` | 102 000 |
| `lifecycle` | two clients decompose, orchestrate, advance and execute while humans decide | `ApprovedIsBuilt`, `AcceptedSound`, `DecisionIsSound`, `CanceledStays` | 1 950 000 |
| `commands` | projects, tasks and commands with two clients and two crashes | `StoreIsMemory`, `CountersLag`, `ExecutedOncePerLife`, `ApprovedBeforeExecution`, `ImplementsLedger` | 1 190 000 |
| `services` | the services around the workflow, each with failing writes, crashes, time-outs, edits or clients in between | `ServicesTypeOK`, `PolicyStoreAtRest`, `RollbackOnce`, `StoredUnlessAliased`, `OneFlowPerCommand`, `StoredRunsExist`, `TaskShowsLatest`, `ToldWhatWasSaid`, `AdviceApplies`, `RulesDecideAlike`, `RoutingFollowsFiles` | 1 180 000 |
| `live` | does everything that goes on by itself end, and what is then true, if the process may die anywhere? | `LiveTypeOK`, `SucceededMeansVerified`, `FinishedHasReport`, `CallsReturn`, `UnwaitedIsFinal`, `CheckEnds` | 125 000 |
| `engine_branches` | (violated) do the stages stay in order, if a module has two branches? | `StagesInOrder` | |
| `lifecycle_rejected` | (violated) is a rejected decomposition left unbuilt? | `BuiltIsConfirmed` | |
| `lifecycle_clarifying` | (violated) does an open question block the work? | `ClarifyingBlocksWork` | |
| `commands_load` | (violated) can what a crash leaves always be loaded? | `StoreLoads` | |
| `checks_final` | (violated) does a finished check stay finished? | `TerminalIsFinal` | |

Points worth knowing about these properties:

* `RunStatusSound` has an exception, and it is needed: `add_workitem` does not refresh the run, so a
  run may say *succeeded* (or *planning*, or *running* when it has no item) although pending items
  have been appended. The property says that this is all that can be wrong with a status.
* `DiscussionSound` relates three things that are written separately: the counter, the sessions and the
  status of the item. An open question on an item that was skipped is the one loose end.
* `DependenciesBeforeWork` is stated over the present dependencies, so that a rewiring can break it.
  `update_workitem_dependencies` does not look at the status of the item; that only pending items are
  ever rewired is a fact about the engine, which `engine_refines_scheduler` checks. It is a fact only where the module
  that is reflowed has a chain of stages. With branches, as in `engine_branches`, the integration test may have been
  released before the next reflow of the module rewires it.
* `IntegrationAfterModules` and `RunningItemsAreOwned` are stated for the moments when the event loop is
  free. Within a reflow they are broken for a while, which nobody can see unless the process dies then.
  After such a death an item may be left running for ever and the integration test may wait for a skipped
  item; `SucceededMeansVerified` shows what protects the run all the same: the orphan keeps it
  from ever saying *succeeded*.
* `EvidenceComplete` holds without crashes only. A crash between `complete_workitem` and the artifacts
  loses them; the acceptance outcome of the execution runtime then notices.
* `DecisionIsSound` speaks of two things: a decision is never changed, and one with a token is about what its sender
  has read. A decomposition that waits for confirmation can be
  replaced by one that was under way at the same time, without a word to anyone; the token protects those who use it.
* `ApprovedIsBuilt` rests on the order in `confirm`: the decision is recorded after the bootstrap, which may fail.
* `CountersLag` says how much a crash can damage: counters never run ahead, and each crash leaves at most one task or
  project whose counters disagree. Without crashes it says that counters and status always agree. The damage is not repaired, since counters
  are incremented and never counted anew, and `StoreLoads` shows what becomes of it.
* `RollbackOnce` lets an idempotency key be applied again for every time an earlier attempt was cut short before its
  audit entry was on disk: the audit file is where the code looks the key up. An approval is different: its use is stored
  first, so that a cut between the two loses the rollback rather than repeating it.
* `PolicyStoreAtRest` leaves out the documents whose last update was cut short; the next whole update of the document repairs
  them. Approvals may differ in one way: a dry run expires them in memory only.
* `StoredUnlessAliased` has an exception that is a limit of the code: two items whose namespace and key join to the same
  text share a row, and a restart brings one of them back.
* `OneFlowPerCommand` counts the crashes: a command whose row was not written when the process died is executed again,
  and makes (or restarts) another run.
* `TaskShowsLatest` excludes runs whose orchestration raised. The task then names the run as its latest, and shows the snapshot of an earlier one.
* `ToldWhatWasSaid` accepts a text that is no JSON as success, because the layer does.
* `AdviceApplies` leaves out runs that nothing can advise (`Unadvisable`): a run with its items that was decomposed
  again, whose decomposition cannot be approved any more, and a run that has finished.
* `FinishedHasReport` holds with waiting creators too. That the record itself then may be replaced by an older one is
  `TerminalIsFinal`; `UnwaitedIsFinal` and `CheckEnds` say what holds for everyone else.
* `ImplementsLedger` is about the order of two writes around an await: the row that says *running* is stored before the executor
  is asked, and the result after it has answered. Between them the store is one move behind the memory at most.
* `RulesDecideAlike` compares the code's way (sort, then the first that fits) with a direct definition of the deciding rule in the
  file, for every reachable content of memory; it also says that the two loaders of the agent rules agree where the name of a section is
  written as the code knows it. `RoutingFollowsFiles` has an exception: an edit between the read of the role routing and the
  note of its modification time is not seen until the next edit.

## Bounds

* `scheduler`: two runs, three items (one with a budget of two discussions, two with none), one
  fingerprint. Two runs are needed for isolation, three items for a chain, a fork or a join whose parts
  are in different states, two rounds for a repeated fingerprint. All dependency graphs over the items
  occur, including cycles that rewiring could build.
* `engine`: two modules; the first fails its documentation gate once and is reflowed, the
  second has two branches, one of which waits for approval; one discussion round; two callers; interrupts
  with and without skipping. `MaxLoops` is 12, more rounds than the longest execution needs.
* `engine_refines_scheduler`: one caller and clients that call tick, start and complete themselves, with
  `MaxLoops` 3 so that a call ends in the middle.
* `live`: two short modules, one of them reflowed while the integration test waits for it, two callers, crashes at any step, no symmetry (it would not be
  sound for liveness); one check, because checks share nothing but the lock, two failing writes, one crash.
* `lifecycle`: two callers that send any of their requests, decompositions with and without confirmation, two
  decompositions (so that one can replace the other) and one restart. `lifecycle_rejected` and
  `lifecycle_clarifying` need one caller and one decomposition.
* `commands`: one project with two tasks (one can be wrong while the other is right), three commands, two clients,
  two crashes. Commands with and without approval, successes and failures are chosen freely.
* `services`, by part. Alert policy: two contents (one the default) of the policy alone (the registry of verify policies goes through the same
  actions and is never rolled back), five numbered things of which up to four audits, one approval and two purges, one failing write or crash: enough for a rollback of a
  rollback, a retry of one that was cut short, and a purge between two refreshes. Context memory: two projects and a run, of which one namespace with
  a key reads like another with another key; two rows; one fault and one crash. Command policy: two commands, three runs, one crash,
  so that a restarted run can be restarted again. Action layer: two calls, two retries, one restart. Recovery: one caller, one decomposition,
  one restart, and the strategy "balanced"; "speed" and "safe" change the scores, not the steps. Rules: three configurations with equal and
  different priorities, disabled rules and rules without keywords, five texts of agent rules (duplicates, both scopes, another spelling), three edits.
* `checks_final`: one check, no fault and no crash.

Deadlock is not checked: a run that has finished, failed or been canceled stops, and so does a process that
cannot load its state, and a service whose bounds are used up.

## Fairness

`EngineFairness` assumes of each caller: a coroutine that can run runs (`WF` of `Running`): asyncio serves its
queue in order. An awaited answer arrives (`SF` of `Answered`): the HTTP client of the action layer has
a time-out (`action_layer_client.py:42`) and the adapter turns every exception into a failed result
(`executors/adapters/opencode/adapter.py:64`); strong fairness, because the answer can be delivered only
while no other coroutine holds the loop. Nothing is assumed of clients, humans or crashes.

`CheckFairness` assumes of each check that its thread is scheduled (`WF` of `Thread`), which the operating system does, and
that a handler that has accepted a request runs to its answer. It includes that the script ends, which the code does not
enforce: no time-out is set for it.

`WorkflowLifecycle` has a `FairSpec` like the engine's, which its run with a temporal counterexample uses; the chief architect
answers like the executor. `FairCheckSpec` is the specification of `checks_final`.

## What is proved

`WorkflowSchedulerProofs` proves, for every number of runs and items and every discussion budget, from
`SchedulerAssumption` alone:

| theorem | statement |
|---|---|
| `Invariance` | `Spec => []Inv` |
| `TypeCorrect`, `Isolation`, `StatusSoundness`, `DiscussionSoundness`, `OrderedExecution` | each invariant of the runs |
| `Finality`, `FailurePermanence`, `CancelIsEffective` | the action properties of the runs |
| `Refinement` | `Spec => ImplementsTaskGraph` |

`Inv` is the conjunction of the five invariants. It is needed as a whole: the status of a run can be
computed only over items that belong to it (`RunsAreIsolated`), a session can be opened only in a round
that is free (`DiscussionSound`), and `DependenciesBeforeWork` survives `AddWorkItem` only because an item
that does not exist is pending and has no dependants. The refinement rests on the same invariant: a tick
opens exactly nodes that are free. Each lemma about `Next` has one step per action.

`DerivedStatusAgree` and `DerivedStatusAppend` carry `RunStatusSound`: the derived status depends on
nothing but the items of the run, and appending pending items changes it in two ways only.

`CommandOrchestratorProofs` proves, for any projects, tasks, commands and clients (finite sets) and any number of
crashes, from `OrchestratorAssumption`:

| theorem | statement |
|---|---|
| `Invariance` | `Spec => []Inv` |
| `TypeCorrect`, `Durability`, `SingleExecution`, `ApprovalFirst` | `TypeOK`, `StoreIsMemory`, `ExecutedOncePerLife`, `ApprovedBeforeExecution` |
| `Finality` | `Spec => FinishedIsFinal` |
| `LaggingCounters` | `Spec => []CountersLag` |
| `LedgerImplemented` | `Spec => ImplementsLedger` |

None of these is inductive, because a crash replaces the memory by what happens to be stored. `Persisting` says of
each entity that its last row in the outbox, or the stored row if it has none, is what the memory has (`Kept`);
`FlushKept` carries this over the writing of one row, `RefreshKeeps` over a step of a method. `RowsSound` says of *every* version of a
command, in memory, stored or in the outbox, that its task is stored, that it has the approval it needs and that it is not
back in the queue after an execution, so that a crash finds a sound command whichever version it loads.
`ExecutionSound` counts: a command that is neither being executed nor finished has been executed in earlier lives only.

`CountersLag` has an invariant of its own, `LagInv`. The counters of the memory *and* of the store must lag behind (`Whole`), since a crash makes
the one the other; so must every mixture of the two that writing the outbox goes through, which holds because rows go forwards, those of
commands before those that count them (`OnTheirWay`). That a crash adds one wrong entity at most depends on when it comes. `Early`: until the row of
the task is written, nothing can be wrong in the store but the task, and what was wrong before. `Late`: after it, nothing but its project. What is common to the
methods is `MethodLag` (a method that changes one task, its commands and its project, refreshes them and persists them in order), what is particular to each is that
it counts what it makes: `CreateTaskLag`, `CreateCommandLag`, `MoveLag`, `AnswerLag`. Cardinalities enter by `Sizes` and `FS_AddElement` only.

The refinement of `JobLedger` has the invariant `LedgerInv`: the command rows on their way are those of the memory, and each stored row is the memory's or one move behind it (`Follows`),
where a move to a result follows an execution. Each method moves one command and puts no other command's row into the outbox
(`MoveLedger`, `RowsOfOne`), so that each `Flush` writes a row that is stored already or makes the one move (`LedgerStep`).

`Finality` (`FinishedIsFinal`) of both modules is proved without being a property of a run. For the scheduler it is also what
`ImplementsTaskGraph` says of the nodes of the graph.

Three of the services are proved, for any number of calls, retries, checks, faults and crashes, from the named
assumption of each module:

| theorem | statement | inductive invariant |
|---|---|---|
| `ServicesProofs`: `ActionInvariance`, `Truthfulness` | `ActionSpec => []ToldWhatWasSaid` | `CallsSound`: who has sent no request has no asking thread, and as long as one asks, its caller can have been told a failure at most (it timed out, or the layer's client gave up) |
| `ContextMemoryProofs`: `MemoryInvariance`, `MemoryDurable` | `MemorySpec => []StoredUnlessAliased` | types, `RowsTotal` and the property itself; nothing is assumed of the texts, so any two cells may share a row |
| `ContextMemoryProofs`: `NearestAnswer` | `MemorySpec => []NearestWins` | none: it holds of whatever is in memory, below |
| `OpsChecksProofs`: `CheckInvariance`, `ReportsThere`, `ResultsFinal` | `CheckSpec => []FinishedHasReport`, `CheckSpec => UnwaitedIsFinal` | `CheckSound`, below |

A record of a check moves between memory, the store, the snapshot of the handler and that of the thread, and any of them may replace
another later on. `RecordsSound` therefore says of all four that a finished record names a report that exists.
`NotEnded` says that without a failing write none of the four is finished before the thread sets its result, which
is why only a late write-back can undo one; `HandlerSound` and `ThreadSound` say who has a snapshot to write.
A step of one check leaves the others alone (`CheckStepType`, `OthersSound`), so only its own soundness is proved step by step (`OwnSound`).

`resolve` is a recursion over the namespaces of a call, of which there are three at most (`ChainShape`): `ResolveUnrolled` takes the recursive function apart,
`ResolveLayers` says what each pass adds to the answer and replaces in it, and `NearestWins` compares that with the nearest namespace, key by key.

`WorkflowEngineProofs` is about the engine with any modules, packages, callers, budgets and bounds that `EngineAssumption`
admits. `CrashSpec` is the engine whose process may die at every step (`Step == Next \/ Crash`); `Spec` implies it.

| theorem | statement | assumed besides |
|---|---|---|
| `EngineInvariance`, `EngineTypeCorrect` | `CrashSpec => []Base`, `CrashSpec => []TypeOK` | |
| `ExclusiveExecution` | `OneExecution`, with and without crashes | |
| `Ownership`, `Evidenced` | `Spec => []RunningItemsAreOwned`, `Spec => []EvidenceComplete` | `~ManualApi` |
| `Verification` | `SucceededMeansVerified`, with and without crashes | `~ManualApi` |
| `BlockedReturn` | `Spec => ReturnsOnlyWhenBlocked` (an action property) | `~ManualApi` |
| `IntegrationOrder` | `Spec => []IntegrationAfterModules` | `Chained` |
| `EngineRefinement` | `Spec => ImplementsScheduler` | `Chained` |

`~ManualApi` says that no client ticks, starts or completes items by its own calls. A client that starts an item and goes away leaves it running, and
one that completes an item passes no gate and emits nothing, and an item started by hand is awaited by nobody when a call returns: these statements are about the engine only.
`Chained` says that the package of each module some gate of which may fail is a chain, as the default package is: each task depends on the
one before it. Without it two of the statements are false: `engine_branches` shows the one, and a package of `module-dev` and two
document stages after it, of which the second needs an approval, leads the engine to rewire an integration test that has
been released. The `engine` and `engine_refines_scheduler` runs satisfy `Chained`; in the former the module that is not reflowed has branches.

`Base` holds across crashes. It has the types, what the scheduler guarantees of any sequence of its
operations (its lemmas are stated for `Operation`, which includes a rewiring of any item, so that nothing is assumed of
packages here), that a reflow stays within its module and budget, and what each caller may still do with its item:
`CallerSound`, `Exclusive`. That nobody executes the same item twice follows only with the acting callers included: an item that is
judged, reflowed or completed is still running, which is what makes `start_workitem` refuse it.
`Verified` adds why a run cannot say *succeeded* too early: `Unfinished` says that a module whose terminal item was skipped
has a running item that no caller will ever complete, either because a reflow is about to replace it, or because a crash has left it behind.
`Ordered` is about lineages: per module the earlier chains are done (`Past`), nothing of the latest one is skipped but by
the reflow that replaces it (`Present`), a chain under construction is untouched (`Future`), and the integration test waits for the
remembered terminal item or is about to be told of it (`Awaited`). `Retires` carries the argument for the chain: what comes before the
failed item has been done, and what comes after it is reached by the search for descendants, so that nothing of the old chain is left.
The search is a least fixed point in the model (`Obsolete`), which is what the proofs use, in place of a recursion.
`Progressing` is why a call that returns leaves nothing behind, and needs no `Chained`: a run that a tick leaves *running* without anything ready has
a pending item, and then one before which nothing is pending (`LeastItem`). What that one depends on comes before it (`Acyclic`), so it
has been decided on, and what keeps the item waiting can only be running (`WorkLeft`): its owner, since the caller that
ticks holds the loop, awaits a result. Dependencies stay acyclic through reflows because each new chain is of a later attempt than any
item the module has (`Attempted`), and because a rewired integration test waits for modules only.

`WorkflowLifecycleProofs` proves, for any callers, decompositions and restarts, `LifecycleTypeCorrect`, `ApprovalMeansBuilt`
(`ApprovedIsBuilt`), `AcceptanceSound` (`AcceptedSound`), `DecisionsAreSound` and `CancellationStands` (the action properties `DecisionIsSound`,
`CanceledStays`). `LifecycleInv` adds to the types that the pipeline is there as a whole or not at all (`Whole`), that identities of decompositions
are not used again (`Numbered`), that an approved record is the built one (`ApprovedStands`), and that a run that says *succeeded* is
done (`SucceededIsDone`), which is what an acceptance looks at.

About the reports that orchestrate leaves, the same module proves `AdviceIsApplicable` (`RecoverySpec => []AdviceApplies`) and
`RecoveryTypeCorrect`, for any subset of the three strategies. First, a report has a primary action at all: no strategy
gives two actions the same score (`ScoresDiffer`), so that they are totally ordered (`BeforeOrders`) and adding a proposal keeps a
first one (`LeastOfMore`, `PrimaryIsLeast`). Second, the first one can do something (`PrimaryFits`): a canceled run always
proposes its restart, which comes before what would not apply to it (`RestartFirst`), and each other proposal is made on the condition under which
it applies. `RecoveryInv` adds to `LifecycleInv` that a pipeline comes with its SDD artifacts (`HasSdd`), which is why an
execution is not refused for them, and that a call refused for its token ends with the decision still open (`JobSound`).
`OrchestrationIsLifecycle` (`RecoverySpec => Spec`, where clients may also decompose, `"decompose" \in Kinds`) carries the other theorems over
to orchestrate and recover.

`ServicesProofs` has the theorems of four services that are independent of each other; those of the action layer are in the table above. `RulesFollowFiles` (`RoutingFollowsFiles`) and
`RoutingTypeCorrect` (`RoutingTypeOK`) are about routing, and so is `RulesDecided` (`RulesDecideAlike`), for rules of any number and any priorities.
Sorting is not a recursion in the model: the place of a rule is the number of kept rules before it (`Place`). Rules in
order have growing places (`PlacesGrow`), so that no place is taken twice, and none is free, since there are as many as rules (`PlacesTaken`, by
cardinality and not by induction). The first ranked rule that fits is then the one before which no other that fits comes (`FirstDecides`).
Two assumptions are about the constants. `RulesAreListed`: priorities are integers, which both loaders see to (`agent_router.py:101-105`,
`dev_routing_matrix.py:261-263`). `DefaultsAgree`: the agent rules in the code of the control center give the executors in the code of
the registry, role by role (`agent_rules_registry.py:8-75`, `action_layer/services/agent_registry.py:26-36`). Without it the two processes disagree when the
one falls back and the other does not.
Of the command policy, `OneRunPerCommand` (`OneFlowPerCommand`), `NamedRunsExist` (`StoredRunsExist`) and `LatestRunShown` (`TaskShowsLatest`):
the count of runs is bounded through what a command may still do: while it has not yet made its run in this life of the
process, it has made at most one per crash; a crash moves it back to that state and pays for it.
What is stored is sound because a row names a run only after the run's own row was written.
Of the alert policy store, `ApprovedRollbacks` (`RollbackOnce`) and `RestingStore` (`PolicyStoreAtRest`), both from `PolicyInvariance`.
There the difficulty is that a handler is a sequence of steps and may end after any of them, by a write that fails or by a crash.
`Then` says what is left of a handler after each of its steps, and `Orderly` that `todo` is such a sequence (`FirstStep` and `StepBefore` take a step
off and put one in front; `DocParts` to `LogParts` show it of every handler the code has). `PolicyInv` is then about the *set* of steps
that are left: the document under way has its new value as soon as "set value" is done, its file once "write doc" is done,
its audit entry once "note audit" is done (`DocsSound`); the approval of a rollback is *used* in every version that a restart could load
before the policy changes (`GrantSound`, `ApprovalsSound`); and a key was applied as often as it was lost, plus once if it is recorded or about to be (`KeysSound`).

What TLC checks in one run holds of the parts together. `CompositionProofs` proves `Composition`, that a behaviour of `MCServices` is one of each of its six services
(`OneService`: a step is a step of the service in focus and leaves the others alone), so that every theorem above holds there, and from
it `ServicesTypeCorrect` (`ServicesTypeOK`). `LiveComposition` and `LiveTypeCorrect` (`LiveTypeOK`) in `OpsChecksProofs` say the same of `MCLive`.

Proved only: `NearestWins` and `FinishedIsFinal`. Only model-checked: all liveness (`CallsReturn`, `CheckEnds`); every other property of a passing run is a theorem, under the assumptions named above. TLAPS cannot be used for liveness under fairness, for `ENABLED`, for induction over data structures, or in modules with
RECURSIVE operators (there are none).

## Where code and documents disagree

* `docs/V3_PROJECT_PLAN.md:46` gives the stages of a run an order, verification after implementation. The
  engine remembers one terminal item per module. If a task package has two branches, and one of them fails its
  gate, the reflow replaces in the integration test's dependencies the remembered terminal item, which may be
  that of the *other* branch (`workflow_engine.py:427-437`). The integration test then starts while
  an item of that branch still waits for its approval (run `engine_branches`).

* `control_center/README.md:140` describes `WHERECODE_DECOMPOSE_REQUIRE_CONFIRMATION` as the need of a human
  confirmation before the bootstrap. A rejected decomposition stays in the metadata, is no longer pending, and the
  next advance loop builds it (`workflow_decompose_runtime_advance.py:86`; run `lifecycle_rejected`).
* `docs/V3_PROJECT_PLAN.md:56` says that unresolved ambiguity blocks implementation. Only the execute handler looks
  at the status of the requirement; the advance loop calls the engine without it
  (`workflow_decompose_runtime_advance.py:105`; run `lifecycle_clarifying`).
* `models/hierarchy.py:96` and `:113` refuse counters that contradict each other, and the control center builds these
  models from the stored rows when it starts. A crash between the rows of `create_task` (`orchestrator.py:267`) loses the
  count of the task; the next task is counted as one and as the second active one, is stored so, and the next start raises
  (run `commands_load`).
* `ops_check_runtime.py:33` calls success and failed terminal. A creator whose wait times out takes a snapshot, and writes
  it back under the lock taken anew (`ops_check_runtime.py:171-175`). If the check finishes in between, its result is replaced by *running*, in memory
  and store, for good (run `checks_final`).

An observation that is no run: `POST /agent-rules/reload` loads the registry that `GET /agent-rules` shows, but the engine
keeps the executors it was given at start (`runtime_bootstrap.py:118`), and so does the action layer.
`RoutingRules` has the three as `registry`, `engineFrom` and `layerFrom`.

## What is not modelled

* Text: prompts, questions, summaries, requirement texts; the coverage heuristics of the decomposition and the normalisation of
  the chief's answer; which signals a module's text gives the development matrix; the fields of a role's route; the loading of agent
  profiles. They compute data that the modelled code passes on.
* Priorities of work items (`StartNext` takes the batch in any order, since a task package may give any priorities). Time, except as
  the choice of being late.
* Routes and wiring: a route maps a request to a call and an exception to a status code. Those that decide something
  (confirmed purges, required approvals, bootstrap, execute) are modelled with their service. Metrics only read.
* API models (schemas), the command center (a user interface), scripts, docs and tests.

Hazards without a property, each with its reason in `PROJECT.json`: a crash between an item's completion and its artifacts
(`workflow_engine.py:252`; the code has no recovery and promises none), a crash inside
`interrupt_run` (`workflow_scheduler.py:505`; the models take it in one step), and a run that is decomposed
again after it was built (`workflow_decompose_runtime.py:205`; that no request helps is a statement about `ENABLED`).

## Plan

1. `WorkflowScheduler`, `TaskGraph`: checked and proved. Done.
2. `CommandOrchestrator`: checked and proved. Done.
3. `WorkflowEngine`, `WorkflowLifecycle`, `OrchestrationRecovery`: checked and proved. Done.
4. The services: checked and proved, each and together. Done.
5. Persistence of `interrupt_run` upsert by upsert; the task graph of the preview as an algorithm; the signals of the
   development matrix.

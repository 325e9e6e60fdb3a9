--------------------------- MODULE CommandPolicy ---------------------------
(***************************************************************************)
(* CommandOrchestrationPolicyService and CommandDispatchService: what a    *)
(* command of one task does once CommandOrchestrator executes it.  A       *)
(* command with an orchestration prefix creates a workflow run or restarts *)
(* the task's latest one and awaits its orchestration; any other is routed *)
(* to an agent.                                                            *)
(*                                                                         *)
(* The orchestrator's lock is held all the time, so commands do not meet   *)
(* each other; they meet clients of the workflow API during the await, and *)
(* a crash between any two rows.  Rows of runs are written at once, those  *)
(* of the command and the task at the end; commands that were running are  *)
(* executed again after a crash.                                           *)
(***************************************************************************)
EXTENDS Naturals, FiniteSets, Sequences

CONSTANTS
    MaxCommands, MaxPolicyRuns, MaxCommandCrashes, \* bounds
    Restarting,  \* values of ..._RESTART_CANCELED_POLICY, normalised
    Flags        \* bound: what commands say of --restart-latest-canceled

ASSUME CommandPolicyAssumption ==
    /\ {MaxCommands, MaxPolicyRuns, MaxCommandCrashes} \subseteq Nat
    /\ Restarting \subseteq {"always", "auto_if_no_requirements", "off"}
    /\ Flags \subseteq {"absent", "true", "false"}

VARIABLES
    restartPolicy,       \* the setting of this process
    flows,               \* the workflow runs of the task
    task, taskRow,       \* its metadata about runs, in memory and stored
    orders, orderRows,   \* its commands, likewise
    call,                \* the command that is executed, how far, and with which run
    raised,              \* history: runs whose orchestration raised
    commandCrashes

commandVars == <<restartPolicy, flows, task, taskRow, orders, orderRows, call, raised,
                 commandCrashes>>

NoFlow == 0
Flows == 1 .. MaxPolicyRuns
Orders == 1 .. MaxCommands
Clarify == MaxPolicyRuns + 1  \* workflow_run_status_latest = "needs_clarification"

\* What _extract_command_orchestrate_intent finds in the text, as far as it decides
\* something: requirements, markers in them without --clarified, --restart-latest-canceled.
Intents == {i \in [prefixed : BOOLEAN, requirements : BOOLEAN, ambiguous : BOOLEAN,
                   flag : Flags] :
              /\ i.ambiguous => i.requirements /\ i.flag = "absent"
              /\ ~i.prefixed => i = [prefixed |-> FALSE, requirements |-> TRUE,
                                     ambiguous |-> FALSE, flag |-> "absent"]}
NoOrder == [status |-> "none"]
NoCall == [order |-> 0, at |-> "none", flow |-> NoFlow]

CommandInit ==
    /\ restartPolicy \in Restarting
    /\ flows = [f \in Flows |-> [status |-> "none", source |-> NoFlow, by |-> 0, told |-> FALSE]]
    /\ task = [latest |-> NoFlow, state |-> NoFlow, shows |-> NoFlow]
    /\ taskRow = task
    /\ orders = [o \in Orders |-> NoOrder]
    /\ orderRows = orders
    /\ call = NoCall
    /\ raised = {}
    /\ commandCrashes = 0

-----------------------------------------------------------------------------
(* Clients                                                                 *)

\* The event loop is free: no command is executed, or the one that is awaits something.
LoopFree == call.at \in {"none", "await", "agent"}

NextFlow == Cardinality({f \in Flows : flows[f].status # "none"}) + 1
NewFlow(source, by) == [status |-> "running", source |-> source, by |-> by, told |-> FALSE]

\* A command is created and started, both of which CommandOrchestrator stores.
Submit(o, intent) ==
    /\ call = NoCall
    /\ orders[o] = NoOrder /\ \A p \in 1 .. o - 1 : orders[p] # NoOrder
    /\ orders' = [orders EXCEPT ![o] = [status |-> "running", intent |-> intent]]
    /\ orderRows' = [orderRows EXCEPT ![o] = orders'[o]]
    /\ UNCHANGED <<restartPolicy, flows, task, taskRow, call, raised, commandCrashes>>

\* A run ends by its execution, is interrupted, or is restarted by a client, which tells
\* the task nothing.
FlowEnds(f, status) ==
    /\ LoopFree /\ flows[f].status = "running"
    /\ flows' = [flows EXCEPT ![f].status = status]
    /\ UNCHANGED <<restartPolicy, task, taskRow, orders, orderRows, call, raised, commandCrashes>>

ClientRestarts(f) ==
    /\ LoopFree /\ flows[f].status \in {"canceled", "ended"}
    /\ NextFlow \in Flows
    /\ flows' = [flows EXCEPT ![NextFlow] = NewFlow(f, 0)]
    /\ UNCHANGED <<restartPolicy, task, taskRow, orders, orderRows, call, raised, commandCrashes>>

-----------------------------------------------------------------------------
(* maybe_execute up to its await                                           *)

\* _resolve_restart_latest_canceled
WantsRestart(intent) ==
    \/ intent.flag = "true"
    \/ /\ intent.flag = "absent"
       /\ \/ restartPolicy = "always"
          \/ restartPolicy = "auto_if_no_requirements" /\ ~intent.requirements

\* Mutant: the latest run is restarted whatever its status.
RestartableAnyway == task.latest # NoFlow

Restartable == task.latest # NoFlow /\ flows[task.latest].status = "canceled"

OrderBegins(o) == call = NoCall /\ orders[o].status = "running"
Orchestrates(o) == OrderBegins(o) /\ orders[o].intent.prefixed /\ ~orders[o].intent.ambiguous

\* No prefix: the router's agent is called, runs are not touched.
Dispatch(o) ==
    /\ OrderBegins(o) /\ ~orders[o].intent.prefixed
    /\ call' = [order |-> o, at |-> "agent", flow |-> NoFlow]
    /\ UNCHANGED <<restartPolicy, flows, task, taskRow, orders, orderRows, raised, commandCrashes>>

\* Markers without --clarified: the command fails before there is a run.
AskBack(o) ==
    /\ OrderBegins(o) /\ orders[o].intent.prefixed /\ orders[o].intent.ambiguous
    /\ task' = [task EXCEPT !.shows = Clarify]
    /\ orders' = [orders EXCEPT ![o] = [status |-> "failed", flow |-> NoFlow]]
    /\ call' = [order |-> o, at |-> "rows", flow |-> NoFlow]
    /\ UNCHANGED <<restartPolicy, flows, taskRow, orderRows, raised, commandCrashes>>

CreateFlow(o) ==
    /\ Orchestrates(o) /\ NextFlow \in Flows
    /\ ~(WantsRestart(orders[o].intent) /\ Restartable)
    /\ flows' = [flows EXCEPT ![NextFlow] = NewFlow(NoFlow, o)]
    /\ task' = [task EXCEPT !.latest = NextFlow]
    /\ call' = [order |-> o, at |-> "await", flow |-> NextFlow]
    /\ UNCHANGED <<restartPolicy, taskRow, orders, orderRows, raised, commandCrashes>>

\* restart_run stores the new run twice, the second time with its source.
RestartFlow(o) ==
    /\ Orchestrates(o) /\ NextFlow \in Flows
    /\ WantsRestart(orders[o].intent) /\ Restartable
    /\ flows' = [flows EXCEPT ![NextFlow] = NewFlow(NoFlow, o)]
    /\ call' = [order |-> o, at |-> "link", flow |-> NextFlow]
    /\ UNCHANGED <<restartPolicy, task, taskRow, orders, orderRows, raised, commandCrashes>>

LinkFlow ==
    /\ call.at = "link"
    /\ flows' = [flows EXCEPT ![call.flow].source = task.latest]
    /\ task' = [task EXCEPT !.latest = call.flow]
    /\ call' = [call EXCEPT !.at = "await"]
    /\ UNCHANGED <<restartPolicy, taskRow, orders, orderRows, raised, commandCrashes>>

-----------------------------------------------------------------------------
(* The answer, and the rows that _run_command then writes                  *)

Finishes(status) ==
    /\ orders' = [orders EXCEPT ![call.order] = [status |-> status, flow |-> call.flow]]
    /\ call' = [call EXCEPT !.at = "rows"]
    /\ UNCHANGED <<restartPolicy, taskRow, orderRows, commandCrashes>>

\* Mutant: the run does not get the snapshot.
ToldNobody == UNCHANGED flows

\* The snapshot of the state goes into the metadata of the command, of the task and of
\* the run, whose row is written at once.
Told == flows' = [flows EXCEPT ![call.flow].told = TRUE]

\* An orchestration that is blocked is a failed command.
OrderAnswered(status) ==
    /\ call.at = "await"
    /\ Told
    /\ task' = [latest |-> call.flow, state |-> call.flow, shows |-> call.flow]
    /\ Finishes(status)
    /\ UNCHANGED raised

\* Mutant: a refused orchestration leaves the task's snapshot as it was.
RefusedUnseen ==
    /\ call.at = "await"
    /\ Told
    /\ task' = [task EXCEPT !.latest = call.flow]
    /\ Finishes("failed")
    /\ UNCHANGED raised

\* HTTPException: the snapshot says failed, workflow_run_status_latest stays as it was.
Refused ==
    /\ call.at = "await"
    /\ Told
    /\ task' = [task EXCEPT !.latest = call.flow, !.state = call.flow]
    /\ Finishes("failed")
    /\ UNCHANGED raised

\* Any other exception leaves the policy; CommandOrchestrator fails the command, which
\* does not get to know its run.
Raises ==
    /\ call.at = "await"
    /\ raised' = raised \cup {call.flow}
    /\ orders' = [orders EXCEPT ![call.order] = [status |-> "failed", flow |-> NoFlow]]
    /\ call' = [call EXCEPT !.at = "rows"]
    /\ UNCHANGED <<restartPolicy, flows, task, taskRow, orderRows, commandCrashes>>

AgentAnswers(status) ==
    /\ call.at = "agent"
    /\ Finishes(status)
    /\ UNCHANGED <<flows, task, raised>>

WriteOrder ==
    /\ call.at = "rows"
    /\ orderRows' = [orderRows EXCEPT ![call.order] = orders[call.order]]
    /\ call' = [call EXCEPT !.at = "task"]
    /\ UNCHANGED <<restartPolicy, flows, task, taskRow, orders, raised, commandCrashes>>

WriteTask ==
    /\ call.at = "task"
    /\ taskRow' = task
    /\ call' = NoCall
    /\ UNCHANGED <<restartPolicy, flows, task, orders, orderRows, raised, commandCrashes>>

\* The process dies and is started again, with the same setting.
CommandCrash ==
    /\ commandCrashes < MaxCommandCrashes
    /\ commandCrashes' = commandCrashes + 1
    /\ task' = taskRow
    /\ orders' = orderRows
    /\ call' = NoCall
    /\ UNCHANGED <<restartPolicy, flows, taskRow, orderRows, raised>>

CommandNext ==
    \/ \E o \in Orders :
         \/ \E intent \in Intents : Submit(o, intent)
         \/ Dispatch(o) \/ AskBack(o) \/ CreateFlow(o) \/ RestartFlow(o)
    \/ \E f \in Flows : ClientRestarts(f) \/ \E s \in {"canceled", "ended"} : FlowEnds(f, s)
    \/ LinkFlow
    \/ \E status \in {"success", "failed"} : OrderAnswered(status) \/ AgentAnswers(status)
    \/ Refused \/ Raises
    \/ WriteOrder \/ WriteTask
    \/ CommandCrash

CommandSpec == CommandInit /\ [][CommandNext]_commandVars

-----------------------------------------------------------------------------
Metadata == [latest : 0 .. MaxPolicyRuns, state : 0 .. MaxPolicyRuns, shows : 0 .. Clarify]
OrderType == {NoOrder} \cup [status : {"running"}, intent : Intents]
                \cup [status : {"success", "failed"}, flow : 0 .. MaxPolicyRuns]

CommandTypeOK ==
    /\ flows \in [Flows -> [status : {"none", "running", "canceled", "ended"},
                            source : 0 .. MaxPolicyRuns, by : 0 .. MaxCommands, told : BOOLEAN]]
    /\ task \in Metadata /\ taskRow \in Metadata
    /\ orders \in [Orders -> OrderType] /\ orderRows \in [Orders -> OrderType]
    /\ call \in [order : 0 .. MaxCommands, at : {"none", "agent", "link", "await", "rows", "task"},
                 flow : 0 .. MaxPolicyRuns]
    /\ raised \subseteq Flows
    /\ restartPolicy \in Restarting /\ commandCrashes \in 0 .. MaxCommandCrashes

MadeBy(o) == {f \in Flows : flows[f].by = o}
RestartsOf(f) == {g \in Flows : flows[g].by # 0 /\ flows[g].source = f}

\* A command makes one run, and one more for each time the process died while it was
\* executed; a canceled run is restarted by commands once, and once more for each such
\* death; and a restarted run comes from one that was canceled before it.
OneFlowPerCommand ==
    /\ \A o \in Orders : Cardinality(MadeBy(o)) <= 1 + commandCrashes
    /\ \A f \in Flows :
         /\ Cardinality(RestartsOf(f)) <= 1 + commandCrashes
         /\ RestartsOf(f) # {} => flows[f].status = "canceled"

\* What is stored about a run is never ahead of the run: the run a task or a command
\* names is there, and the run that a finished command names has the same snapshot,
\* wherever the process died.
StoredRunsExist ==
    /\ \A t \in {task, taskRow} : \A f \in {t.latest, t.state} \ {NoFlow} :
         flows[f].status # "none"
    /\ \A f \in {task.state, taskRow.state} \ {NoFlow} : flows[f].told
    /\ \A o \in Orders : orderRows[o].status \in {"success", "failed"} =>
         orderRows[o].flow = NoFlow \/ flows[orderRows[o].flow].told

\* Between commands a task shows the state of its latest run, in memory and in the store,
\* unless the orchestration of that run raised or the process died: whatever the clients
\* did to its runs meanwhile, no snapshot of an earlier run is left over.
TaskShowsLatest ==
    call = NoCall /\ commandCrashes = 0 =>
      /\ task = taskRow
      /\ task.state = task.latest \/ task.latest \in raised
=============================================================================

----------------------- MODULE OrchestrationRecovery -----------------------
(***************************************************************************)
(* What orchestrate leaves behind and what recover makes of it: every      *)
(* orchestrate call ends in a decision report on the run, whose primary    *)
(* recovery action POST orchestrate/recover executes when the request      *)
(* names none (workflow_orchestration_runtime.py and its decision table).  *)
(*                                                                         *)
(* The work is WorkflowLifecycle's: a step here is one of its steps, or a  *)
(* report.  A report is written in the segment that ends the call, so      *)
(* nothing else moves while one is due.                                    *)
(***************************************************************************)
EXTENDS WorkflowLifecycle, Integers

CONSTANT Strategies   \* the strategies that requests ask for

ASSUME RecoveryAssumption == Strategies \subseteq {"speed", "balanced", "safe"}

VARIABLES
    advice,  \* primary_recovery_action of orchestrate_telemetry_latest, or "nothing"
    fresh,   \* nothing has moved since that report
    job      \* per caller: the orchestrate call it is in

reportVars == <<advice, fresh, job>>
recoveryVars == <<vars, reportVars>>

NoJob == [strategy |-> "none", token |-> FALSE]

RecoveryInit ==
    /\ Init
    /\ advice = "nothing" /\ fresh = FALSE
    /\ job = [c \in Callers |-> NoJob]

-----------------------------------------------------------------------------
(* The decision report. *)

\* Priority and confidence (in percent) of every recovery action, smaller first.
Base ==
    [restart_workflow_run         |-> <<5, 98>>,
     reconfirm_with_latest_token  |-> <<8, 90>>,
     retry_with_decompose_payload |-> <<10, 95>>,
     reconfirm_decomposition      |-> <<12, 90>>,
     disable_force_redecompose    |-> <<15, 95>>,
     complete_acceptance_evidence |-> <<16, 92>>,
     refresh_preview              |-> <<20, 85>>,
     retry_bootstrap_pipeline     |-> <<25, 75>>,
     generate_preview             |-> <<30, 80>>,
     retry_execute_workflow_run   |-> <<35, 70>>,
     wait_or_unblock_workitems    |-> <<45, 60>>,
     none                         |-> <<100, 100>>]

Adjustment ==
    [speed |-> [retry_with_decompose_payload |-> <<-3, 3>>, retry_bootstrap_pipeline |-> <<-6, 8>>,
                retry_execute_workflow_run |-> <<-8, 10>>, generate_preview |-> <<-2, 2>>,
                refresh_preview |-> <<-1, 2>>, reconfirm_decomposition |-> <<6, -8>>,
                wait_or_unblock_workitems |-> <<8, -10>>],
     balanced |-> [retry_with_decompose_payload |-> <<-2, 2>>,
                retry_bootstrap_pipeline |-> <<-2, 4>>, retry_execute_workflow_run |-> <<-3, 5>>,
                generate_preview |-> <<-1, 1>>, refresh_preview |-> <<-2, 3>>,
                reconfirm_decomposition |-> <<1, -2>>, wait_or_unblock_workitems |-> <<2, -2>>],
     safe |-> [reconfirm_with_latest_token |-> <<-6, 6>>, reconfirm_decomposition |-> <<-5, 6>>,
                refresh_preview |-> <<-4, 5>>, wait_or_unblock_workitems |-> <<-2, 2>>,
                retry_bootstrap_pipeline |-> <<6, -6>>, retry_execute_workflow_run |-> <<10, -12>>]]

Between(low, x, high) == IF x < low THEN low ELSE IF x > high THEN high ELSE x

Score(strategy, action) ==
    LET delta == IF action \in DOMAIN Adjustment[strategy]
                 THEN Adjustment[strategy][action] ELSE <<0, 0>>
    IN  <<Between(1, Base[action][1] + delta[1], 100), Between(0, Base[action][2] + delta[2], 100)>>

\* preview_stale: there is a preview, of something else.
Stale == record # Empty /\ preview # Empty /\ ~PreviewReady

\* The action that the next step of the run asks for.
Hint ==
    CASE NextAction = "trigger_decompose_bootstrap" -> "retry_with_decompose_payload"
      [] NextAction = "confirm_or_reject_decomposition" -> "reconfirm_decomposition"
      [] NextAction = "generate_preview" -> IF Stale THEN "refresh_preview" ELSE "generate_preview"
      [] NextAction = "bootstrap_pipeline" -> "retry_bootstrap_pipeline"
      [] NextAction = "execute_workflow_run" -> "retry_execute_workflow_run"
      [] NextAction = "wait_or_unblock_workitems" -> "wait_or_unblock_workitems"
      [] NextAction = "review_results" -> IF evidence THEN "none" ELSE "complete_acceptance_evidence"

\* Mutant: the report does not look at whether the run was canceled.
CandidatesUncanceled(reason) ==
    {Hint}
    \cup (IF reason = "requirements" THEN {"retry_with_decompose_payload"} ELSE {})
    \cup (IF reason = "force" THEN {"disable_force_redecompose"} ELSE {})
    \cup (IF reason = "token" THEN {"reconfirm_with_latest_token"} ELSE {})
    \cup (IF AwaitsDecision THEN {"reconfirm_decomposition"} ELSE {})
    \cup (IF Stale THEN {"refresh_preview"} ELSE {})

\* What the report proposes, by the reason the call ended for and the run as it is now.
Candidates(reason) ==
    {Hint}
    \cup (IF reason = "requirements" THEN {"retry_with_decompose_payload"} ELSE {})
    \cup (IF reason = "force" THEN {"disable_force_redecompose"} ELSE {})
    \cup (IF reason = "token" THEN {"reconfirm_with_latest_token"} ELSE {})
    \cup (IF Canceled THEN {"restart_workflow_run"} ELSE {})
    \cup (IF AwaitsDecision THEN {"reconfirm_decomposition"} ELSE {})
    \cup (IF Stale THEN {"refresh_preview"} ELSE {})

Before(strategy, a, b) ==
    LET x == Score(strategy, a) y == Score(strategy, b) IN
    x[1] < y[1] \/ (x[1] = y[1] /\ x[2] > y[2])

Primary(strategy, reason) ==
    CHOOSE a \in Candidates(reason) : \A b \in Candidates(reason) \ {a} : Before(strategy, a, b)

Reported(strategy, reason) == advice' = Primary(strategy, reason) /\ fresh' = TRUE

-----------------------------------------------------------------------------
(* orchestrate *)

Due(c) == job[c] # NoJob /\ co[c] = Idle
Quiet == \A c \in Callers : ~Due(c)

Begin(c, strategy) ==
    /\ job' = [job EXCEPT ![c] = [strategy |-> strategy, token |-> FALSE]]
    /\ fresh' = FALSE /\ UNCHANGED advice

NothingYet == record = Empty /\ ~HasItems

Accepts(c) == Quiet /\ Free /\ co[c].pc = "idle" /\ "orchestrate" \in Kinds

\* With something to decompose or not, it goes on to execute.
OrchestrateExecutes(c, strategy, force, auto, ambiguous) ==
    /\ Quiet
    /\ Orchestrate(c, force, auto, ambiguous)
    /\ Begin(c, strategy)

\* execute=false: the decomposition alone, or nothing at all.
OrchestratePrepares(c, strategy, force, ambiguous) ==
    /\ Accepts(c)
    /\ ~Canceled /\ ~(force /\ HasItems)
    /\ IF force \/ NothingYet THEN StartDecompose(c, <<>>, FALSE, ambiguous) ELSE UNCHANGED vars
    /\ Begin(c, strategy)

\* It is refused before it does anything: the run is canceled, has items that may not be
\* decomposed again, waits for a decision, or the requirements are missing.
OrchestrateBlocked(c, strategy, force) ==
    /\ Accepts(c)
    /\ \/ Canceled /\ Reported(strategy, "canceled")
       \/ ~Canceled /\ force /\ HasItems /\ Reported(strategy, "force")
       \/ /\ ~Canceled /\ ~HasItems /\ (force \/ NothingYet)
          /\ \/ Reported(strategy, "requirements")
             \/ AwaitsDecision /\ Reported(strategy, "pending")
    /\ UNCHANGED <<vars, job>>

\* The end of the call, whether it went through or a handler refused with 409 or 422.
Report(c) ==
    /\ Due(c)
    /\ Reported(job[c].strategy, IF job[c].token THEN "token" ELSE "none")
    /\ job' = [job EXCEPT ![c] = NoJob]
    /\ UNCHANGED vars

\* Execution is refused for an open decision; the advance loop before it may have tried
\* to decide with a token of another decomposition.
RefusedInOrchestrate(c) ==
    /\ ExecuteRefused(c)
    /\ \E token \in BOOLEAN :
        /\ token => AwaitsDecision /\ co[c].auto /\ job[c] # NoJob
        /\ job' = [job EXCEPT ![c].token = token]

\* A chief architect that cannot be reached is a 503, which leaves no report.
RaisedInOrchestrate(c) == ChiefFails(c) /\ job' = [job EXCEPT ![c] = NoJob]

-----------------------------------------------------------------------------
(* recover *)

\* The action of the request, or of the latest report, with whatever else the request
\* bears.  The token that reconfirm_with_latest_token sends is read from the run itself,
\* so nobody needs to have seen it.
Recovered(c, action, auto) ==
    \/ action \in {"generate_preview", "refresh_preview"} /\ PreviewRoute
    \/ action = "reconfirm_decomposition" /\ \E by \in {"token", "blind"} : Confirm(by, TRUE)
    \/ action = "reconfirm_with_latest_token" /\ Confirm("blind", TRUE)
    \/ action = "retry_bootstrap_pipeline" /\ Advance(c, auto)
    \/ /\ action \in {"retry_execute_workflow_run", "wait_or_unblock_workitems"}
       /\ Execute(c) \/ ExecuteAuto(c, auto)
    \/ action = "restart_workflow_run" /\ Restart(TRUE)

RetriesOrchestrate(action) ==
    action \in {"retry_with_decompose_payload", "disable_force_redecompose", "retry_orchestrate"}

\* The calls that go round: the new one never forces a decomposition.
RecoverOrchestrates(c, strategy, auto, ambiguous) ==
    /\ RetriesOrchestrate(advice)
    /\ OrchestrateExecutes(c, strategy, FALSE, auto, ambiguous)

-----------------------------------------------------------------------------

\* Any step of the run that is not the beginning of an orchestrate call.
Moves ==
    /\ Quiet
    /\ \/ /\ \/ \E c \in Callers :
                  \/ (At(c, "execute") => Executable) /\ Running(c)
                  \/ Answered(c)
                  \/ \E ambiguous \in BOOLEAN : Decompose(c, ambiguous)
                  \/ \E auto \in BOOLEAN : Advance(c, auto) \/ ExecuteAuto(c, auto)
                  \/ Execute(c)
                  \/ \E auto \in BOOLEAN : Recovered(c, advice, auto)
             \/ BootstrapRoute \/ ReadPending \/ PreviewRoute
             \/ \E by \in {"token", "blind"}, approved \in BOOLEAN : Confirm(by, approved)
             \/ Interrupt \/ ManualTick \/ ManualComplete
             \/ \E copy \in BOOLEAN : Restart(copy)
          /\ UNCHANGED job
       \/ \E c \in Callers : RefusedInOrchestrate(c) \/ RaisedInOrchestrate(c)
    /\ fresh' = FALSE
    /\ advice' = IF restarts' = restarts THEN advice ELSE "nothing"

RecoveryNext ==
    \/ Moves
    \/ \E c \in Callers :
        \/ Report(c)
        \/ \E strategy \in Strategies, force, auto, ambiguous \in BOOLEAN :
            \/ OrchestrateExecutes(c, strategy, force, auto, ambiguous)
            \/ OrchestratePrepares(c, strategy, force, ambiguous)
            \/ OrchestrateBlocked(c, strategy, force)
            \/ RecoverOrchestrates(c, strategy, auto, ambiguous)

RecoverySpec == RecoveryInit /\ [][RecoveryNext]_recoveryVars

-----------------------------------------------------------------------------
(* What the advice promises. *)

Actions == DOMAIN Base

\* The lifecycle's variables keep their ranges under the calls added here.
RecoveryTypeOK ==
    /\ TypeOK
    /\ advice \in Actions \cup {"nothing"}
    /\ fresh \in BOOLEAN
    /\ job \in [Callers -> [strategy : Strategies \cup {"none"}, token : BOOLEAN]]

\* Recover has an action for it, and the run is such that the action can do something.
Applicable(action) ==
    CASE action \in {"generate_preview", "refresh_preview"} -> record # Empty
      [] action \in {"reconfirm_decomposition", "reconfirm_with_latest_token"} ->
             AwaitsDecision /\ ~HasItems
      [] action = "retry_bootstrap_pipeline" -> record # Empty /\ ~HasItems
      [] action \in {"retry_execute_workflow_run", "wait_or_unblock_workitems"} -> Executable
      [] action = "restart_workflow_run" -> runStatus[Run] \in Scheduler!TerminalRun
      [] RetriesOrchestrate(action) -> ~Canceled
      [] OTHER -> FALSE

\* A run nobody can advise: it has its items, and a decomposition or a doubt about the
\* requirement came after them; or all its items are finished and nothing is left to do.
Unadvisable ==
    \/ HasItems /\ (AwaitsDecision \/ requirement # "confirmed")
    \/ NextAction = "review_results"

\* Whichever of the causes won the scoring, whatever the strategy and whatever happened
\* while the call was under way: the action a report names is one that recover can
\* execute, unless the run is beyond advice (build_orchestrate_decision_report_impl
\* against execute_orchestrate_recovery_action).  A canceled run is to be restarted,
\* however the call ended and whatever else is wrong with it; only strategy "safe" puts a
\* token that did not match first.
AdviceApplies ==
    fresh =>
      /\ Applicable(advice) \/ Unadvisable
      /\ Canceled => advice \in {"restart_workflow_run"} \cup
           (IF "safe" \in Strategies THEN {"reconfirm_with_latest_token"} ELSE {})
=============================================================================

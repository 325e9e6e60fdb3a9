------------------------- MODULE WorkflowLifecycle -------------------------
(***************************************************************************)
(* One run from its requirement to its acceptance: decomposition by the    *)
(* chief architect, confirmation, preview, advance loop, orchestration and *)
(* execution (workflow_decompose_*.py, workflow_execution_runtime.py,      *)
(* workflow_orchestration_runtime.py), over WorkflowScheduler.             *)
(*                                                                         *)
(* The pipeline is two items, the release after the work; WorkflowEngine   *)
(* has the full one.  A handler is a stack of segments (`todo'), each runs *)
(* from one await to the next while it holds the event loop.               *)
(***************************************************************************)
EXTENDS Naturals, Sequences, FiniteSets

CONSTANTS
    Run, NoRun,
    Callers,            \* clients whose requests await something
    NoCaller,           \* nobody holds the event loop
    ConfirmationModes,  \* values of DECOMPOSE_REQUIRE_CONFIRMATION
    Kinds,              \* bound: kinds of requests the callers send
    MaxRecords,         \* bound: decompositions the chief architect returns
    MaxRestarts         \* bound: restarts of the run

Items == {"work", "release"}
NoRecord == 0
ByRequest == MaxRecords + 1   \* built from the modules of a /bootstrap request

ASSUME LifecycleAssumption ==
    /\ NoCaller \notin Callers
    /\ Run # NoRun
    /\ ConfirmationModes \subseteq BOOLEAN
    /\ MaxRecords \in Nat /\ MaxRestarts \in Nat

VARIABLES
    runStatus, runOf, status, dependsOn, requiresApproval,
    discussionUsed, fingerprints, sessions,    \* the scheduler
    requirement, \* run.requirement_status
    sdd,         \* the four SDD artifacts exist
    record,      \* metadata["chief_decomposition"]
    pending,     \* metadata["pending_decomposition"] is there: the same record
    preview,     \* the record the cached preview was made of (its fingerprint)
    built,       \* the decomposition the items of the run were built from
    evidence,    \* acceptance report, release note and rollback plan exist
    accepted,    \* run.accepted
    made,        \* decompositions so far
    restarts,    \* restarts so far
    seen,        \* the token a human last read
    loop,        \* who holds the event loop
    co           \* the coroutine of each caller

Scheduler == INSTANCE WorkflowScheduler WITH
    Runs <- {Run}, Fingerprints <- {}, NoFingerprint <- NoRun,
    Budget <- [i \in Items |-> 0], MaxBudget <- 0

schedulerVars == <<runStatus, runOf, status, dependsOn, requiresApproval,
                   discussionUsed, fingerprints, sessions>>
decisionVars == <<requirement, sdd, record, pending, preview, made, restarts, seen>>
resultVars == <<built, evidence, accepted>>
vars == <<schedulerVars, decisionVars, resultVars, loop, co>>

Empty == [id |-> NoRecord, confirmation |-> "none", by |-> "none", copied |-> FALSE]
Idle == [pc |-> "idle", todo |-> <<>>, auto |-> FALSE, item |-> "work"]

Canceled == runStatus[Run] = "canceled"
HasItems == \E i \in Items : runOf[i] = Run
Ready == {i \in Items : runOf[i] = Run /\ status[i] = "ready"}
Unfinished == {i \in Items : runOf[i] = Run /\ status[i] \notin Scheduler!TerminalItem}
AwaitsDecision == pending /\ record.confirmation = "pending"

-----------------------------------------------------------------------------
(* The event loop                                                          *)

Free == loop = NoCaller
At(c, p) == loop = c /\ co[c].pc = p

\* The handler goes on with the innermost of the segments `todo', or ends.
Resume(c, todo) ==
    IF todo = <<>>
    THEN co' = [co EXCEPT ![c] = Idle] /\ loop' = NoCaller
    ELSE /\ co' = [co EXCEPT ![c].pc = Head(todo), ![c].todo = Tail(todo)]
         /\ loop' = c

Return(c) == Resume(c, co[c].todo)

\* The engine raises: the advance loop that called it takes it as a blocked step and
\* halts, the execute handler passes it on to the client.
Raise(c) ==
    Resume(c, IF co[c].todo # <<>> /\ Head(co[c].todo) = "advance"
              THEN Tail(co[c].todo) ELSE <<>>)

-----------------------------------------------------------------------------
(* Bootstrap                                                               *)

\* bootstrap_standard_pipeline on a run without items; the status of the run is
\* neither tested nor refreshed.
Build(from) ==
    /\ runOf' = [i \in Items |-> Run]
    /\ dependsOn' = [i \in Items |-> IF i = "release" THEN {"work"} ELSE {}]
    /\ built' = from
    /\ requirement' = "confirmed"
    /\ sdd' = TRUE
    /\ UNCHANGED <<runStatus, status, requiresApproval, discussionUsed, fingerprints, sessions>>

\* POST /bootstrap, with modules of its own.
BootstrapRoute ==
    /\ Free /\ ~HasItems
    /\ Build(ByRequest)
    /\ UNCHANGED <<record, pending, preview, made, restarts, seen, evidence, accepted, loop, co>>

-----------------------------------------------------------------------------
(* Decomposition                                                           *)

\* decompose_bootstrap_workflow_run up to its await, with `rest' to do afterwards: an
\* ambiguous requirement puts the run into clarifying.
StartDecompose(c, rest, auto, ambiguous) ==
    /\ ~AwaitsDecision
    /\ IF ambiguous
       THEN requirement' = "clarifying" /\ UNCHANGED co
       ELSE /\ co' = [co EXCEPT ![c] = [Idle EXCEPT !.pc = "chief", !.todo = rest, !.auto = auto]]
            /\ UNCHANGED requirement
    /\ UNCHANGED <<schedulerVars, resultVars, sdd, record, pending, preview, made, restarts, seen, loop>>

Decompose(c, ambiguous) ==
    /\ Free /\ co[c].pc = "idle"
    /\ "decompose" \in Kinds
    /\ StartDecompose(c, <<>>, FALSE, ambiguous)

\* The chief architect fails, or returns what the validation refuses.
ChiefFails(c) ==
    /\ Free /\ co[c].pc = "chief"
    /\ Resume(c, <<>>)
    /\ UNCHANGED <<schedulerVars, decisionVars, resultVars>>

NewRecord(confirmation) ==
    [id |-> made + 1, confirmation |-> confirmation, by |-> "none", copied |-> FALSE]

\* The answer is kept for a human to decide on (apply_pending_confirmation_metadata).
\* What the run has become during the await is not looked at.
ChiefProposes(c) ==
    /\ Free /\ co[c].pc = "chief" /\ made < MaxRecords
    /\ TRUE \in ConfirmationModes
    /\ sdd' = TRUE
    /\ record' = NewRecord("pending") /\ made' = made + 1
    /\ pending' = TRUE
    /\ preview' = Empty
    /\ requirement' = "confirmed"
    /\ Return(c)
    /\ UNCHANGED <<schedulerVars, resultVars, restarts, seen>>

\* Without confirmation the pipeline is built at once; if the run has items by now
\* the call fails and leaves nothing but the SDD artifacts.
ChiefDecides(c) ==
    /\ Free /\ co[c].pc = "chief" /\ made < MaxRecords
    /\ FALSE \in ConfirmationModes
    /\ IF HasItems
       THEN /\ sdd' = TRUE
            /\ Resume(c, <<>>)
            /\ UNCHANGED <<schedulerVars, record, made, pending, preview, requirement, built>>
       ELSE /\ Build(made + 1)
            /\ record' = NewRecord("auto-approved") /\ made' = made + 1
            /\ pending' = FALSE
            /\ preview' = Empty
            /\ Return(c)
    /\ UNCHANGED <<restarts, seen, evidence, accepted>>

-----------------------------------------------------------------------------
(* Confirmation                                                            *)

\* GET pending: a human reads the decomposition and its token.
ReadPending ==
    /\ Free /\ pending
    /\ seen' = record.id
    /\ UNCHANGED <<schedulerVars, requirement, sdd, record, pending, preview, made, restarts,
                   resultVars, loop, co>>

\* Mutant: the token is not compared.
MayDecideAnyToken(by) == AwaitsDecision

\* The checks of confirm_decompose_bootstrap_workflow_run: the token is compared only if
\* the request bears one ("token"), the advance loop and careless clients send none.
MayDecide(by) ==
    /\ AwaitsDecision
    /\ by = "token" => seen = record.id

\* Mutant: the decision is recorded whether or not the pipeline could be built.
ApproveFirst(by) ==
    /\ record' = [record EXCEPT !.by = by, !.confirmation = "approved"]
    /\ pending' = FALSE
    /\ IF HasItems THEN UNCHANGED <<schedulerVars, built, requirement, sdd>> ELSE Build(record.id)

\* Approval: who decided is noted first, then the pipeline is built, and only then is
\* the decision recorded.  If the run has items already, 422 and still pending.
ApproveDecomposition(by) ==
    IF HasItems
    THEN /\ record' = [record EXCEPT !.by = by]
         /\ UNCHANGED <<schedulerVars, built, requirement, sdd, pending>>
    ELSE /\ Build(record.id)
         /\ record' = [record EXCEPT !.by = by, !.confirmation = "approved"]
         /\ pending' = FALSE

\* Rejection: the record stays where it is, marked.
RejectDecomposition(by) ==
    /\ record' = [record EXCEPT !.by = by, !.confirmation = "rejected"]
    /\ requirement' = "blocked"
    /\ UNCHANGED <<schedulerVars, built, sdd, pending>>

Confirm(by, approved) ==
    /\ Free /\ MayDecide(by)
    /\ IF approved THEN ApproveDecomposition(by) ELSE RejectDecomposition(by)
    /\ UNCHANGED <<preview, made, restarts, seen, evidence, accepted, loop, co>>

-----------------------------------------------------------------------------
(* Advance loop                                                            *)

PreviewReady == preview = record

\* GET preview, which is made anew if the fingerprint of the record has changed.
PreviewRoute ==
    /\ Free /\ record # Empty
    /\ preview' = record
    /\ UNCHANGED <<schedulerVars, requirement, sdd, record, pending, made, restarts, seen,
                   resultVars, loop, co>>

\* _build_decompose_next_action
NextAction ==
    IF HasItems
    THEN IF Ready # {} THEN "execute_workflow_run"
         ELSE IF Unfinished # {} THEN "wait_or_unblock_workitems"
         ELSE "review_results"     \* accepted, or evidence to complete
    ELSE IF record = Empty THEN "trigger_decompose_bootstrap"
    ELSE IF AwaitsDecision THEN "confirm_or_reject_decomposition"
    ELSE IF ~PreviewReady THEN "generate_preview"   \* or refresh_preview
    ELSE "bootstrap_pipeline"

Advance(c, auto) ==
    /\ Free /\ co[c].pc = "idle"
    /\ "advance" \in Kinds
    /\ co' = [co EXCEPT ![c] = [Idle EXCEPT !.pc = "advance", !.auto = auto]]
    /\ loop' = c
    /\ UNCHANGED <<schedulerVars, decisionVars, resultVars>>

\* One step of the loop that needs no await; the next action is computed and executed
\* without giving up the event loop.
Step(c, action) ==
    /\ At(c, "advance") /\ NextAction = action
    /\ UNCHANGED <<loop, co, made, restarts, seen, evidence, accepted>>

StepPreview(c) ==
    /\ Step(c, "generate_preview")
    /\ preview' = record
    /\ UNCHANGED <<schedulerVars, requirement, sdd, record, pending, built>>

\* With confirmed_by, and with or without a token.
StepConfirm(c, by) ==
    /\ Step(c, "confirm_or_reject_decomposition")
    /\ co[c].auto /\ MayDecide(by)
    /\ ApproveDecomposition(by)
    /\ UNCHANGED preview

\* bootstrap_pipeline: the decision on the record is not looked at.
StepBootstrap(c) ==
    /\ Step(c, "bootstrap_pipeline")
    /\ Build(record.id)
    /\ UNCHANGED <<record, pending, preview>>

StepTick(c) ==
    /\ Step(c, "wait_or_unblock_workitems")
    /\ Scheduler!Tick(Run)
    /\ UNCHANGED <<requirement, sdd, record, pending, preview, built>>

\* The engine is called straight away, without the checks of the execute handler.
StepExecute(c) ==
    /\ At(c, "advance") /\ NextAction = "execute_workflow_run"
    /\ co' = [co EXCEPT ![c].pc = "engine", ![c].todo = <<"advance">> \o @]
    /\ UNCHANGED <<schedulerVars, decisionVars, resultVars, loop>>

\* The loop ends: nothing to do, a step that is blocked (no payload to decompose, no
\* confirmed_by or another token, a canceled run), or the max_steps of the request,
\* any number, are over.
AdvanceEnds(c) ==
    /\ At(c, "advance")
    /\ Return(c)
    /\ UNCHANGED <<schedulerVars, decisionVars, resultVars>>

-----------------------------------------------------------------------------
(* Execution                                                               *)

\* POST execute, by itself or after an advance loop of its own.
Execute(c) ==
    /\ Free /\ co[c].pc = "idle"
    /\ "execute" \in Kinds
    /\ Resume(c, <<"execute">>)
    /\ UNCHANGED <<schedulerVars, decisionVars, resultVars>>

ExecuteAuto(c, auto) ==
    /\ Free /\ co[c].pc = "idle"
    /\ "execute" \in Kinds
    /\ co' = [co EXCEPT ![c] = [Idle EXCEPT !.pc = "advance", !.todo = <<"execute">>,
                                            !.auto = auto]]
    /\ loop' = c
    /\ UNCHANGED <<schedulerVars, decisionVars, resultVars>>

\* orchestrate_workflow_run: decomposes if it is forced to or if there is nothing yet,
\* and goes on to execute; it refuses to decompose a run that has items.
Orchestrate(c, force, auto, ambiguous) ==
    /\ Free /\ co[c].pc = "idle"
    /\ "orchestrate" \in Kinds
    /\ ~Canceled
    /\ ~(force /\ HasItems)
    /\ IF force \/ (record = Empty /\ ~HasItems)
       THEN StartDecompose(c, <<"advance", "execute">>, auto, ambiguous)
       ELSE /\ co' = [co EXCEPT ![c] = [Idle EXCEPT !.pc = "advance", !.todo = <<"execute">>,
                                                    !.auto = auto]]
            /\ loop' = c
            /\ UNCHANGED <<schedulerVars, decisionVars, resultVars>>

\* The checks of execute_workflow_run: no open decision, a confirmed requirement, and
\* the SDD artifacts.
Executable == ~AwaitsDecision /\ requirement = "confirmed" /\ sdd

ExecuteStarts(c) ==
    /\ At(c, "execute") /\ Executable
    /\ co' = [co EXCEPT ![c].pc = "engine", ![c].todo = <<"accept">>]
    /\ UNCHANGED <<schedulerVars, decisionVars, resultVars, loop>>

ExecuteRefused(c) ==
    /\ At(c, "execute") /\ ~Executable
    /\ requirement' = IF ~AwaitsDecision /\ requirement = "confirmed" THEN "blocked" ELSE requirement
    /\ Resume(c, <<>>)
    /\ UNCHANGED <<schedulerVars, resultVars, sdd, record, pending, preview, made, restarts, seen>>

\* execute_until_blocked: starts a ready item and awaits the executor.
EngineStarts(c, i) ==
    /\ At(c, "engine") /\ ~Canceled
    /\ i \in Ready
    /\ Scheduler!StartWorkItem(i)
    /\ co' = [co EXCEPT ![c].pc = "await", ![c].item = i]
    /\ loop' = NoCaller
    /\ UNCHANGED <<decisionVars, resultVars>>

\* No item is ready: a tick, which may release one.
EngineTicks(c) ==
    /\ At(c, "engine") /\ ~Canceled
    /\ Ready = {}
    /\ Scheduler!Tick(Run)
    /\ IF Ready' = {} THEN Return(c) ELSE UNCHANGED <<co, loop>>
    /\ UNCHANGED <<decisionVars, resultVars>>

\* The run is canceled, or max_loops of the request are over.
EngineEnds(c) ==
    /\ At(c, "engine")
    /\ Return(c)
    /\ UNCHANGED <<schedulerVars, decisionVars, resultVars>>

\* The result of an item that is no longer running is dropped.
AnswerDropped(c) ==
    /\ Free /\ co[c].pc = "await"
    /\ status[co[c].item] # "running"
    /\ co' = [co EXCEPT ![c].pc = "engine"]
    /\ loop' = c
    /\ UNCHANGED <<schedulerVars, decisionVars, resultVars>>

\* complete_workitem refuses a canceled run.
AnswerRaises(c) ==
    /\ Free /\ co[c].pc = "await"
    /\ status[co[c].item] = "running" /\ Canceled
    /\ Raise(c)
    /\ UNCHANGED <<schedulerVars, decisionVars, resultVars>>

\* The item ends; the release emits the evidence in the same segment.
Answer(c, success) ==
    /\ Free /\ co[c].pc = "await"
    /\ status[co[c].item] = "running"
    /\ Scheduler!CompleteWorkItem(co[c].item, success)
    /\ evidence' = (evidence \/ (success /\ co[c].item = "release"))
    /\ co' = [co EXCEPT ![c].pc = "engine"]
    /\ loop' = c
    /\ UNCHANGED <<decisionVars, built, accepted>>

\* Mutant: a run that lacks evidence is blocked, whatever its status.
AcceptAnyStatus(c) ==
    /\ At(c, "accept")
    /\ IF runStatus[Run] = "succeeded" /\ evidence
       THEN accepted' = TRUE /\ requirement' = "confirmed" /\ UNCHANGED runStatus
       ELSE /\ accepted' = FALSE
            /\ runStatus' = [runStatus EXCEPT ![Run] = "blocked"]
            /\ requirement' = "blocked"
    /\ Return(c)
    /\ UNCHANGED <<runOf, status, dependsOn, requiresApproval, discussionUsed, fingerprints,
                   sessions, sdd, record, pending, preview, made, restarts, seen, built, evidence>>

\* Mutant: a run that succeeded is accepted without a look at the evidence.
AcceptWithoutEvidence(c) ==
    /\ At(c, "accept")
    /\ accepted' = (runStatus[Run] = "succeeded")
    /\ Return(c)
    /\ UNCHANGED <<schedulerVars, decisionVars, built, evidence>>

\* _update_stage_and_acceptance_after_execute, on the run as it is now.
Accept(c) ==
    LET succeeded == runStatus[Run] = "succeeded" IN
    /\ At(c, "accept")
    /\ accepted' = (succeeded /\ evidence)
    /\ runStatus' = [runStatus EXCEPT ![Run] = IF succeeded /\ ~evidence THEN "blocked" ELSE @]
    /\ requirement' = IF ~succeeded THEN requirement
                      ELSE IF evidence THEN "confirmed" ELSE "blocked"
    /\ Return(c)
    /\ UNCHANGED <<runOf, status, dependsOn, requiresApproval, discussionUsed, fingerprints,
                   sessions, sdd, record, pending, preview, made, restarts, seen, built, evidence>>

-----------------------------------------------------------------------------
(* Other clients                                                           *)

Elsewhere(act) == Free /\ act /\ UNCHANGED <<decisionVars, resultVars, loop, co>>

Interrupt == \E skip \in BOOLEAN : Elsewhere(Scheduler!InterruptRun(Run, skip))
ManualTick == Elsewhere(Scheduler!Tick(Run))
\* complete_workitem by a client emits no evidence.
ManualComplete == \E i \in Items, success \in BOOLEAN :
                        Elsewhere(Scheduler!CompleteWorkItem(i, success))

\* restart_run: a new run, with a copy of the decomposition and of the decision on it,
\* but without a pending decision.  From here on the model is about the new run (bound:
\* no request on the old one is under way).
Restart(copy) ==
    /\ Free /\ restarts < MaxRestarts
    /\ runStatus[Run] \in Scheduler!TerminalRun
    /\ \A c \in Callers : co[c] = Idle
    /\ runStatus' = [r \in {Run} |-> "running"]
    /\ runOf' = [i \in Items |-> NoRun]
    /\ status' = [i \in Items |-> "pending"]
    /\ dependsOn' = [i \in Items |-> {}]
    /\ requirement' = "draft"
    /\ sdd' = FALSE
    /\ record' = IF copy /\ record # Empty THEN [record EXCEPT !.copied = TRUE] ELSE Empty
    /\ pending' = FALSE
    /\ preview' = Empty
    /\ built' = NoRecord
    /\ evidence' = FALSE /\ accepted' = FALSE
    /\ seen' = NoRecord
    /\ restarts' = restarts + 1
    /\ UNCHANGED <<requiresApproval, discussionUsed, fingerprints, sessions, made, loop, co>>

Init ==
    /\ runStatus = [r \in {Run} |-> "running"]
    /\ runOf = [i \in Items |-> NoRun]
    /\ status = [i \in Items |-> "pending"]
    /\ dependsOn = [i \in Items |-> {}]
    /\ requiresApproval = [i \in Items |-> FALSE]
    /\ discussionUsed = [i \in Items |-> 0]
    /\ fingerprints = [i \in Items |-> {}]
    /\ sessions = [i \in Items |-> [n \in Scheduler!Rounds |-> "none"]]
    /\ requirement = "draft"
    /\ sdd = FALSE /\ pending = FALSE /\ evidence = FALSE /\ accepted = FALSE
    /\ record = Empty /\ preview = Empty
    /\ built = NoRecord /\ seen = NoRecord
    /\ made = 0 /\ restarts = 0
    /\ loop = NoCaller
    /\ co = [c \in Callers |-> Idle]

Running(c) ==
    \/ StepPreview(c) \/ StepBootstrap(c) \/ StepTick(c) \/ StepExecute(c)
    \/ \E by \in {"token", "blind"} : StepConfirm(c, by)
    \/ AdvanceEnds(c)
    \/ ExecuteStarts(c) \/ ExecuteRefused(c)
    \/ \E i \in Items : EngineStarts(c, i)
    \/ EngineTicks(c) \/ EngineEnds(c)
    \/ Accept(c)

Answered(c) ==
    \/ ChiefFails(c) \/ ChiefProposes(c) \/ ChiefDecides(c)
    \/ AnswerDropped(c) \/ AnswerRaises(c)
    \/ \E success \in BOOLEAN : Answer(c, success)

Request(c) ==
    \/ \E ambiguous \in BOOLEAN : Decompose(c, ambiguous)
    \/ \E auto \in BOOLEAN : Advance(c, auto) \/ ExecuteAuto(c, auto)
    \/ Execute(c)
    \/ \E force, auto, ambiguous \in BOOLEAN : Orchestrate(c, force, auto, ambiguous)

Next ==
    \/ \E c \in Callers : Request(c) \/ Running(c) \/ Answered(c)
    \/ BootstrapRoute \/ ReadPending \/ PreviewRoute
    \/ \E by \in {"token", "blind"}, approved \in BOOLEAN : Confirm(by, approved)
    \/ Interrupt \/ ManualTick \/ ManualComplete
    \/ \E copy \in BOOLEAN : Restart(copy)

Spec == Init /\ [][Next]_vars

\* As in WorkflowEngine: a coroutine that can run runs, an awaited answer arrives.
FairSpec == Spec /\ \A c \in Callers : WF_vars(Running(c)) /\ SF_vars(Answered(c))

-----------------------------------------------------------------------------
(* Properties                                                              *)

Record == [id : 0 .. MaxRecords, confirmation : {"none", "pending", "approved", "rejected",
           "auto-approved"}, by : {"none", "token", "blind"}, copied : BOOLEAN]

Coroutine == [pc : {"idle", "chief", "advance", "execute", "engine", "await", "accept"},
              todo : Seq({"advance", "execute", "accept"}), auto : BOOLEAN, item : Items]

\* Every variable stays within its type, and who holds the event loop is at work.
TypeOK ==
    /\ Scheduler!TypeOK
    /\ requirement \in {"draft", "clarifying", "confirmed", "blocked"}
    /\ record \in Record /\ preview \in Record
    /\ pending => record # Empty
    /\ {sdd, pending, evidence, accepted} \subseteq BOOLEAN
    /\ built \in 0 .. ByRequest
    /\ made \in 0 .. MaxRecords /\ restarts \in 0 .. MaxRestarts /\ seen \in 0 .. MaxRecords
    /\ co \in [Callers -> Coroutine]
    /\ loop \in Callers \cup {NoCaller}
    /\ \A c \in Callers : (loop = c) = (co[c].pc \notin {"idle", "chief", "await"})

Decided == {"approved", "rejected", "auto-approved"}

\* A decomposition that says it was approved is the one whose items the run has:
\* whatever arrived between the question and the answer, approval and pipeline agree.
\* (The copy a restarted run starts with carries the decision of its source.)
ApprovedIsBuilt ==
    record.confirmation \in {"approved", "auto-approved"} /\ ~record.copied => built = record.id

\* Rejected or not yet decided decompositions are not built.
BuiltIsConfirmed ==
    built = record.id /\ HasItems => record.confirmation \in {"approved", "auto-approved"}

\* `accepted' is reachable only with the evidence, for a run whose pipeline is done, and
\* no later execution, tick or request leaves it standing without them.
AcceptedSound ==
    accepted => evidence /\ \A i \in Items : status[i] \in Scheduler!Done

\* A decision is taken once: approved stays approved, rejected stays rejected.  And one
\* that bears a token is about the decomposition its sender has read, even if another
\* one took its place meanwhile.
DecisionIsSound ==
    [][/\ record'.id = record.id /\ record.confirmation \in Decided
             => record'.confirmation = record.confirmation
       /\ record'.by = "token" /\ record.by # "token" /\ restarts' = restarts
             => seen = record.id]_vars

\* A canceled run stays canceled, also for the executions that were under way.
CanceledStays ==
    [][Canceled /\ restarts' = restarts => Canceled']_vars

\* An ambiguous requirement blocks implementation: nothing is started until it is clear.
ClarifyingBlocksWork ==
    [][requirement = "clarifying" =>
        \A i \in Items : status'[i] = "running" => status[i] = "running"]_vars
=============================================================================

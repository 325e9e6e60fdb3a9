--------------------------- MODULE WorkflowEngine ---------------------------
(***************************************************************************)
(* control_center/services/workflow_engine.py on top of WorkflowScheduler: *)
(* the standard pipeline of one run, executed by concurrent calls of       *)
(* execute_until_blocked that interleave where they await the executor,    *)
(* with gates, module reflow, and the API calls that arrive meanwhile.     *)
(*                                                                         *)
(* `loop' says who holds the event loop.  A coroutine holds it from one    *)
(* await to the next and takes several steps, each with at most one call   *)
(* of a scheduler method (the granularity at which state is persisted, so  *)
(* also where a crash of the process cuts); everyone else waits for NoCaller.  *)
(***************************************************************************)
EXTENDS Naturals, Sequences, FiniteSets, SequencesExt

CONSTANTS
    Run, NoRun,
    Callers,        \* concurrent execute / bootstrap requests
    NoCaller,           \* nobody holds the event loop
    ModuleList,     \* the requested modules, in order
    Global,         \* module_key of the global stages ("global")
    Package,        \* module -> its task package: sequence of [role, after, approval]
    DocReflowOnce, DocFail, TestFail, SecurityFail,  \* modules whose key bears the marker
    MaxModuleReflows,         \* max_module_reflows
    ReleaseRequiresApproval,  \* release_requires_approval
    MaxLoops,                 \* max_loops
    Fingerprints, NoFingerprint,
    DiscussionBudget,         \* default of add_workitem
    Talkative,      \* bound: roles whose executor may ask for a discussion
    MayInterrupt,   \* the two values of skip_non_terminal_workitems a client may send
    ManualApi       \* whether clients also call tick, start and complete

ModuleStages == <<"module-dev", "doc-manager", "qa-test", "security-review">>
GlobalStages == <<"integration-test", "acceptance", "release-manager">>
Modules == Range(ModuleList)

\* A work item is named by what it is created for: position pos of the package of its
\* module (gen = 0), of its gen-th reflow chain, or of the global stages.
Item(m, g, k) == [module |-> m, gen |-> g, pos |-> k]
GlobalItem(k) == Item(Global, 0, k)
Items ==
    (UNION {{Item(m, 0, k) : k \in DOMAIN Package[m]} : m \in Modules})
    \cup {Item(m, g, k) : m \in Modules, g \in 1 .. MaxModuleReflows, k \in 1 .. Len(ModuleStages)}
    \cup {GlobalItem(k) : k \in DOMAIN GlobalStages}

Role(i) == IF i.module = Global THEN GlobalStages[i.pos]
           ELSE IF i.gen = 0 THEN Package[i.module][i.pos].role
           ELSE ModuleStages[i.pos]

\* A task package names roles of the module stages only and is never empty
\* (validate_module_task_packages).
Packages == Seq([role : Range(ModuleStages), after : SUBSET Range(ModuleStages),
                 approval : BOOLEAN]) \ {<<>>}

ASSUME EngineAssumption ==
    /\ NoRun # Run
    /\ NoCaller \notin Callers
    /\ NoFingerprint \notin Fingerprints
    /\ ModuleList \in Seq(Modules)
    /\ Global \notin Modules
    /\ Package \in [Modules -> Packages]
    /\ MaxModuleReflows \in Nat /\ MaxLoops \in Nat /\ DiscussionBudget \in Nat
    /\ ReleaseRequiresApproval \in BOOLEAN
    /\ MayInterrupt \subseteq BOOLEAN

VARIABLES
    runStatus, runOf, status, dependsOn, requiresApproval,
    discussionUsed, fingerprints, sessions,    \* the scheduler
    confirmed,  \* run.requirement_status = confirmed
    attempts,   \* run.metadata["reflow_attempts"]
    terminal,   \* run.metadata["module_terminal_workitems"]
    gate,       \* latest gate check of the item: "none", "passed" or "failed"
    artifacts,  \* types of the artifacts emitted for the run
    loop,       \* who holds the event loop
    co          \* the coroutine of each caller: program counter and locals

Scheduler == INSTANCE WorkflowScheduler WITH
    Runs <- {Run}, Budget <- [i \in Items |-> DiscussionBudget], MaxBudget <- DiscussionBudget

talkVars == <<discussionUsed, fingerprints, sessions>>
schedulerVars == <<runStatus, runOf, status, dependsOn, requiresApproval,
                   discussionUsed, fingerprints, sessions>>
recordVars == <<confirmed, attempts, terminal, gate, artifacts>>
vars == <<schedulerVars, recordVars, loop, co>>

NoItem == [module |-> Global, gen |-> 0, pos |-> 0]
Idle == [pc |-> "idle", batch |-> {}, item |-> NoItem, outcome |-> "none",
         rounds |-> 0, todo |-> {}, old |-> NoItem]

Canceled == runStatus[Run] = "canceled"
Created == {i \in Items : runOf[i] = Run}
With(s) == {i \in Created : status[i] = s}
At(c, p) == loop = c /\ co[c].pc = p

\* The coroutine goes on to `p', holding the loop.
GoTo(c, p) == co' = [co EXCEPT ![c].pc = p] /\ UNCHANGED loop

\* It returns to its caller, with a result or with an exception.
Leave(c) == co' = [co EXCEPT ![c] = Idle] /\ loop' = NoCaller

-----------------------------------------------------------------------------
(* Bootstrap                                                               *)

\* The positions a package item depends on: the latest earlier item of each role it
\* names, or else the item before it.
PackageAfter(m, k) ==
    LET before(role) == {j \in 1 .. (k - 1) : Package[m][j].role = role}
        named == {Max(before(role)) : role \in {x \in Package[m][k].after : before(x) # {}}}
    IN  IF named = {} /\ k > 1 THEN {k - 1} ELSE named

\* derive_terminal_ids: the package items no other item of the package depends on.
PackageTerminals(m) ==
    {k \in DOMAIN Package[m] : \A j \in DOMAIN Package[m] : k \notin PackageAfter(m, j)}

\* The pipeline is created module by module in the order of the request, each package
\* from its first position to its last, and then the global stages.
Pipeline == {i \in Items : i.gen = 0}
Place(m) == CHOOSE n \in DOMAIN ModuleList : ModuleList[n] = m
CreatedBefore(i) ==
    {j \in Pipeline :
        \/ j.module = i.module /\ j.pos < i.pos
        \/ j.module # Global /\ i.module = Global
        \/ j.module # Global /\ i.module # Global /\ Place(j.module) < Place(i.module)}

\* What add_workitem is called with: the dependencies, and whether it asks for approval.
StartsAfter(i) ==
    IF i.module # Global THEN {Item(i.module, 0, j) : j \in PackageAfter(i.module, i.pos)}
    ELSE IF i.pos > 1 THEN {GlobalItem(i.pos - 1)}
    ELSE {j \in Pipeline : j.module # Global /\ j.pos \in PackageTerminals(j.module)}
AsksApproval(i) ==
    IF i.module # Global THEN Package[i.module][i.pos].approval
    ELSE Role(i) = "release-manager" /\ ReleaseRequiresApproval

\* bootstrap_standard_pipeline: refused once the run has any item; the status of
\* the run is not tested.
Bootstrap(c) ==
    /\ loop = NoCaller /\ co[c].pc = "idle"
    /\ runStatus[Run] # "absent"
    /\ Created = {}
    /\ loop' = c
    /\ co' = [co EXCEPT ![c].pc = "bootstrap"]
    /\ UNCHANGED <<schedulerVars, recordVars>>

BootstrapItem(c) ==
    /\ At(c, "bootstrap")
    /\ \E i \in Pipeline :
        /\ CreatedBefore(i) \subseteq Created
        /\ Scheduler!AddWorkItem(i, Run, StartsAfter(i), AsksApproval(i))
    /\ GoTo(c, "bootstrap")
    /\ UNCHANGED recordVars

BootstrapEnd(c) ==
    /\ At(c, "bootstrap")
    /\ Pipeline \subseteq Created
    /\ confirmed' = TRUE
    /\ terminal' = [m \in Modules |-> Item(m, 0, Max(PackageTerminals(m)))]
    /\ attempts' = [m \in Modules |-> 0]
    /\ Leave(c)
    /\ UNCHANGED <<schedulerVars, gate, artifacts>>

-----------------------------------------------------------------------------
(* execute_until_blocked                                                   *)

\* The execute handler refuses a run whose requirement is not confirmed.
Execute(c) ==
    /\ loop = NoCaller /\ co[c].pc = "idle"
    /\ confirmed
    /\ loop' = c
    /\ co' = [co EXCEPT ![c] = [Idle EXCEPT !.pc = "pull", !.rounds = MaxLoops]]
    /\ UNCHANGED <<schedulerVars, recordVars>>

\* One round: the items that are ready, or else those a tick makes ready.
PullReady(c) ==
    /\ At(c, "pull") /\ ~Canceled /\ co[c].rounds > 0
    /\ With("ready") # {}
    /\ co' = [co EXCEPT ![c].pc = "next", ![c].batch = With("ready"), ![c].rounds = @ - 1]
    /\ UNCHANGED <<schedulerVars, recordVars, loop>>

\* Mutant: a round that finds nothing ready ends the call without a tick.
PullWithoutTick(c) ==
    /\ At(c, "pull") /\ ~Canceled /\ co[c].rounds > 0
    /\ With("ready") = {}
    /\ Leave(c)
    /\ UNCHANGED <<schedulerVars, recordVars>>

PullTick(c) ==
    /\ At(c, "pull") /\ ~Canceled /\ co[c].rounds > 0
    /\ With("ready") = {}
    /\ Scheduler!Tick(Run)
    /\ IF With("ready")' = {} THEN Leave(c)
       ELSE /\ co' = [co EXCEPT ![c].pc = "next", ![c].batch = With("ready")',
                               ![c].rounds = @ - 1]
            /\ UNCHANGED loop
    /\ UNCHANGED recordVars

PullEnd(c) ==
    /\ At(c, "pull")
    /\ Canceled \/ co[c].rounds = 0
    /\ Leave(c)
    /\ UNCHANGED <<schedulerVars, recordVars>>

\* The end of the batch, or of the run while the batch was worked on.
NextRoundOfBatch(c) ==
    /\ At(c, "next")
    /\ Canceled \/ co[c].batch = {}
    /\ GoTo(c, "pull")
    /\ UNCHANGED <<schedulerVars, recordVars>>

\* Mutant: an item of the batch is started whatever has happened to it since.
StartNextUnchecked(c, i) ==
    /\ At(c, "next") /\ ~Canceled
    /\ i \in co[c].batch
    /\ Scheduler!Move(i, "running") /\ UNCHANGED talkVars
    /\ co' = [co EXCEPT ![c].pc = "await", ![c].item = i, ![c].batch = @ \ {i}]
    /\ loop' = NoCaller
    /\ UNCHANGED recordVars

\* Mutant: the executor is called without giving up the event loop.
StartNextBlocking(c, i) ==
    /\ At(c, "next") /\ ~Canceled
    /\ i \in co[c].batch
    /\ Scheduler!StartWorkItem(i)
    /\ co' = [co EXCEPT ![c].pc = "await", ![c].item = i, ![c].batch = @ \ {i}]
    /\ UNCHANGED <<recordVars, loop>>

\* start_workitem, then the await.  Task packages give any priority, so any order.
StartNext(c, i) ==
    /\ At(c, "next") /\ ~Canceled
    /\ i \in co[c].batch
    /\ Scheduler!StartWorkItem(i)
    /\ co' = [co EXCEPT ![c].pc = "await", ![c].item = i, ![c].batch = @ \ {i}]
    /\ loop' = NoCaller
    /\ UNCHANGED recordVars

\* Mutant: the refused item is tried again.
StartRefusedRetries(c, i) ==
    /\ At(c, "next") /\ ~Canceled
    /\ i \in co[c].batch
    /\ status[i] # "ready"
    /\ GoTo(c, "next")
    /\ UNCHANGED <<schedulerVars, recordVars>>

\* start_workitem raises: another caller has taken the item since the batch was
\* drawn.  The call ends with the rest of its batch untouched.
StartRefused(c, i) ==
    /\ At(c, "next") /\ ~Canceled
    /\ i \in co[c].batch
    /\ status[i] # "ready"
    /\ Leave(c)
    /\ UNCHANGED <<schedulerVars, recordVars>>

\* The executor answers success or failure (or raised).
Answer(c, outcome) ==
    /\ loop = NoCaller /\ co[c].pc = "await"
    /\ loop' = c
    /\ co' = [co EXCEPT ![c].pc = "judge", ![c].outcome = outcome]
    /\ UNCHANGED <<schedulerVars, recordVars>>

\* The executor asks for a discussion, at once passed on to mark_needs_discussion;
\* what that leaves of the item is seen by Judge.
AnswerDiscuss(c, fp) ==
    /\ loop = NoCaller /\ co[c].pc = "await"
    /\ Role(co[c].item) \in Talkative
    /\ loop' = c
    /\ Scheduler!MarkNeedsDiscussion(co[c].item, fp)
    /\ co' = [co EXCEPT ![c].pc = "judge", ![c].outcome = "needs_discussion"]
    /\ UNCHANGED recordVars

\* mark_needs_discussion raises: the item was finished or skipped during the await.
AnswerDiscussRefused(c) ==
    /\ loop = NoCaller /\ co[c].pc = "await"
    /\ Role(co[c].item) \in Talkative
    /\ status[co[c].item] \notin {"running", "ready"}
    /\ Leave(c)
    /\ UNCHANGED <<schedulerVars, recordVars>>

\* The item is no longer running: the result is dropped.
JudgeDrop(c) ==
    /\ At(c, "judge")
    /\ status[co[c].item] # "running"
    /\ GoTo(c, "next")
    /\ UNCHANGED <<schedulerVars, recordVars>>

\* Gatekeeper.evaluate: the gate of the role, by the marker in the module key.
GatePasses(i) ==
    CASE Role(i) = "doc-manager" ->
            /\ ~(i.module \in DocReflowOnce /\ i.gen = 0)
            /\ i.module \notin DocFail \ DocReflowOnce
      [] Role(i) \in {"qa-test", "integration-test"} -> i.module \notin TestFail
      [] Role(i) = "security-review" -> i.module \notin SecurityFail
      [] OTHER -> TRUE
Gated(i) == Role(i) \in {"doc-manager", "qa-test", "integration-test", "security-review"}

\* Mutant: a failed gate is recorded and then ignored.
JudgeSuccessUngated(c) ==
    LET i == co[c].item IN
    /\ At(c, "judge")
    /\ status[i] = "running" /\ co[c].outcome = "success"
    /\ gate' = [gate EXCEPT ![i] = IF ~Gated(i) THEN @
                                   ELSE IF GatePasses(i) THEN "passed" ELSE "failed"]
    /\ GoTo(c, "complete")
    /\ UNCHANGED <<schedulerVars, confirmed, attempts, terminal, artifacts>>

JudgeSuccess(c) ==
    LET i == co[c].item IN
    /\ At(c, "judge")
    /\ status[i] = "running" /\ co[c].outcome = "success"
    /\ gate' = [gate EXCEPT ![i] = IF ~Gated(i) THEN @
                                   ELSE IF GatePasses(i) THEN "passed" ELSE "failed"]
    /\ GoTo(c, IF GatePasses(i) THEN "complete" ELSE "reflow")
    /\ UNCHANGED <<schedulerVars, confirmed, attempts, terminal, artifacts>>

JudgeFailure(c) ==
    /\ At(c, "judge")
    /\ status[co[c].item] = "running" /\ co[c].outcome = "failed"
    /\ GoTo(c, "fail")
    /\ UNCHANGED <<schedulerVars, recordVars>>

-----------------------------------------------------------------------------
(* The end of an item                                                      *)

\* A scheduler call that refuses a canceled run raises: the call of execute ends.
RaiseIfCanceled(c, p) ==
    /\ At(c, p) /\ Canceled
    /\ Leave(c)
    /\ UNCHANGED <<schedulerVars, recordVars>>

Evidence(i) ==
    CASE Role(i) = "acceptance" -> <<"acceptance_report">>
      [] Role(i) = "release-manager" -> <<"release_note", "rollback_plan">>
      [] OTHER -> <<>>

\* Mutant: a stage is completed without its evidence.
CompleteWithoutEvidence(c) ==
    /\ At(c, "complete") /\ ~Canceled
    /\ Scheduler!CompleteWorkItem(co[c].item, TRUE)
    /\ GoTo(c, "next")
    /\ UNCHANGED recordVars

Complete(c) ==
    /\ At(c, "complete") /\ ~Canceled
    /\ Scheduler!CompleteWorkItem(co[c].item, TRUE)
    /\ GoTo(c, IF Evidence(co[c].item) = <<>> THEN "next" ELSE "emit")
    /\ UNCHANGED recordVars

\* _emit_artifacts_for_workitem, one create_artifact after the other.
Emit(c) ==
    LET evidence == Evidence(co[c].item)
        missing == {n \in DOMAIN evidence : evidence[n] \notin artifacts}
    IN  /\ At(c, "emit")
        /\ artifacts' = artifacts \cup {evidence[Min(missing)]}
        /\ GoTo(c, IF missing = {Min(missing)} THEN "next" ELSE "emit")
        /\ UNCHANGED <<schedulerVars, confirmed, attempts, terminal, gate>>

\* Mutant: a failure is recorded in a canceled run as well.
FailUnguarded(c) ==
    /\ At(c, "fail")
    /\ Scheduler!Move(co[c].item, "failed")
    /\ UNCHANGED talkVars
    /\ GoTo(c, "next")
    /\ UNCHANGED recordVars

Fail(c) ==
    /\ At(c, "fail") /\ ~Canceled
    /\ Scheduler!CompleteWorkItem(co[c].item, FALSE)
    /\ GoTo(c, "next")
    /\ UNCHANGED recordVars

-----------------------------------------------------------------------------
(* Module reflow                                                           *)

\* The items of its module a reflow may retire: not finished, not waiting for approval.
Retirable(i) ==
    {j \in Created : /\ j.module = i.module
                     /\ status[j] \in {"pending", "ready", "needs_discussion", "running"}}

\* _find_module_descendants: what is reached from i through retirable items, that is,
\* the least set of them that has every one that depends on i or on a member.  The
\* dependencies have no cycles, so that i is never reached from itself.
Obsolete(i) ==
    LET complete(S) == \A j \in Retirable(i) : dependsOn[j] \cap (S \cup {i}) # {} => j \in S
    IN  {j \in Retirable(i) : \A S \in SUBSET Retirable(i) : complete(S) => j \in S} \ {i}

\* The attempt is counted and persisted before anything else is done.
BeginReflow(c) ==
    LET i == co[c].item
        m == i.module
    IN  /\ At(c, "reflow")
        /\ attempts' = IF m = Global THEN attempts ELSE [attempts EXCEPT ![m] = @ + 1]
        /\ IF m = Global \/ attempts[m] >= MaxModuleReflows THEN GoTo(c, "fail")
           ELSE /\ co' = [co EXCEPT ![c].pc = "obsolete", ![c].todo = Obsolete(i)]
                /\ UNCHANGED loop
        /\ UNCHANGED <<schedulerVars, confirmed, terminal, gate, artifacts>>

SkipObsolete(c) ==
    /\ At(c, "obsolete")
    /\ \E i \in co[c].todo :
        \* any order: none of these calls can fail
        /\ i = CHOOSE j \in co[c].todo : TRUE
        /\ Scheduler!SkipWorkItem(i)
        /\ co' = [co EXCEPT ![c].todo = @ \ {i}]
    /\ UNCHANGED <<recordVars, loop>>

\* The next item of the new chain, which starts where the failed item did.
Grow(c) ==
    LET i == co[c].item
        chain(k) == Item(i.module, attempts[i.module], k)
    IN  /\ At(c, "obsolete") /\ co[c].todo = {}
        /\ \E k \in DOMAIN ModuleStages :
            /\ \A j \in 1 .. (k - 1) : chain(j) \in Created
            /\ Scheduler!AddWorkItem(chain(k), Run,
                    IF k = 1 THEN dependsOn[i] ELSE {chain(k - 1)}, FALSE)
            /\ GoTo(c, IF k = Len(ModuleStages) THEN "terminal" ELSE "obsolete")
        /\ UNCHANGED recordVars

IntegrationItems == {i \in Created : Role(i) = "integration-test"}

\* Mutant: the integration test is not told of the new terminal item.
SetTerminalOnly(c) ==
    LET m == co[c].item.module IN
    /\ At(c, "terminal")
    /\ terminal' = [terminal EXCEPT ![m] = Item(m, attempts[m], Len(ModuleStages))]
    /\ GoTo(c, "replace")
    /\ UNCHANGED <<schedulerVars, confirmed, attempts, gate, artifacts>>

SetTerminal(c) ==
    LET m == co[c].item.module IN
    /\ At(c, "terminal")
    /\ terminal' = [terminal EXCEPT ![m] = Item(m, attempts[m], Len(ModuleStages))]
    /\ co' = [co EXCEPT ![c].pc = "rewire", ![c].old = terminal[m],
                ![c].todo = {i \in IntegrationItems : terminal[m] \in dependsOn[i]}]
    /\ UNCHANGED <<schedulerVars, confirmed, attempts, gate, artifacts, loop>>

\* _rewire_integration_dependencies: of all modules, only the entries that name the
\* old terminal item; the status of the integration test is not looked at.
Rewire(c) ==
    /\ At(c, "rewire") /\ (Canceled => co[c].todo = {})
    /\ IF co[c].todo = {}
       THEN GoTo(c, "replace") /\ UNCHANGED schedulerVars
       ELSE LET i == CHOOSE j \in co[c].todo : TRUE IN
            /\ Scheduler!UpdateWorkItemDependencies(i,
                    (dependsOn[i] \ {co[c].old}) \cup {terminal[co[c].item.module]})
            /\ co' = [co EXCEPT ![c].todo = @ \ {i}]
            /\ UNCHANGED loop
    /\ UNCHANGED recordVars

RewireRefused(c) == co[c].todo # {} /\ RaiseIfCanceled(c, "rewire")

\* Mutant: the item that failed its gate is left as it is.
ReplaceForgets(c) ==
    /\ At(c, "replace")
    /\ GoTo(c, "next")
    /\ UNCHANGED <<schedulerVars, recordVars>>

\* The failed item itself is skipped, its replacement stands in for it.
Replace(c) ==
    /\ At(c, "replace")
    /\ Scheduler!SkipWorkItem(co[c].item)
    /\ GoTo(c, "next")
    /\ UNCHANGED recordVars

-----------------------------------------------------------------------------
(* Clients, and the process                                                *)

Elsewhere(act) == loop = NoCaller /\ act /\ UNCHANGED <<recordVars, loop, co>>

Create == Elsewhere(Scheduler!CreateRun(Run))
Interrupt == \E skip \in MayInterrupt : Elsewhere(Scheduler!InterruptRun(Run, skip))
Approve == \E i \in Items : Elsewhere(Scheduler!ApproveWorkItem(i))
Resolve == \E i \in Items, n \in Scheduler!Rounds, late \in BOOLEAN :
                Elsewhere(Scheduler!ResolveDiscussion(i, n, late))
ManualTick == ManualApi /\ Elsewhere(Scheduler!Tick(Run))
ManualStart == ManualApi /\ \E i \in Items : Elsewhere(Scheduler!StartWorkItem(i))
ManualComplete == ManualApi /\ \E i \in Items, success \in BOOLEAN :
                        Elsewhere(Scheduler!CompleteWorkItem(i, success))

\* The process dies and comes back with what was persisted; nothing resumes the calls.
\* No action of Next: Spec is about a process that lives, MCLive about one that may die.
Crash ==
    /\ \E c \in Callers : co[c] # Idle
    /\ co' = [c \in Callers |-> Idle]
    /\ loop' = NoCaller
    /\ UNCHANGED <<schedulerVars, recordVars>>

Init ==
    /\ runStatus = [r \in {Run} |-> "absent"]
    /\ runOf = [i \in Items |-> NoRun]
    /\ status = [i \in Items |-> "pending"]
    /\ dependsOn = [i \in Items |-> {}]
    /\ requiresApproval = [i \in Items |-> FALSE]
    /\ discussionUsed = [i \in Items |-> 0]
    /\ fingerprints = [i \in Items |-> {}]
    /\ sessions = [i \in Items |-> [n \in Scheduler!Rounds |-> "none"]]
    /\ confirmed = FALSE
    /\ attempts = [m \in Modules |-> 0]
    /\ terminal = [m \in Modules |-> NoItem]
    /\ gate = [i \in Items |-> "none"]
    /\ artifacts = {}
    /\ loop = NoCaller
    /\ co = [c \in Callers |-> Idle]

\* What a coroutine that holds the event loop does next.
Running(c) ==
    \/ BootstrapItem(c) \/ BootstrapEnd(c)
    \/ PullReady(c) \/ PullTick(c) \/ PullEnd(c)
    \/ NextRoundOfBatch(c)
    \/ \E i \in Items : StartNext(c, i) \/ StartRefused(c, i)
    \/ JudgeDrop(c) \/ JudgeSuccess(c) \/ JudgeFailure(c)
    \/ Complete(c) \/ Emit(c) \/ Fail(c)
    \/ BeginReflow(c) \/ SkipObsolete(c) \/ Grow(c) \/ SetTerminal(c)
    \/ Rewire(c) \/ RewireRefused(c) \/ Replace(c)
    \/ RaiseIfCanceled(c, "complete") \/ RaiseIfCanceled(c, "fail")

Answered(c) ==
    \/ \E outcome \in {"success", "failed"} : Answer(c, outcome)
    \/ \E fp \in Fingerprints \cup {NoFingerprint} : AnswerDiscuss(c, fp)
    \/ AnswerDiscussRefused(c)

Next ==
    \/ \E c \in Callers : Bootstrap(c) \/ Execute(c) \/ Answered(c) \/ Running(c)
    \/ Create \/ Interrupt \/ Approve \/ Resolve
    \/ ManualTick \/ ManualStart \/ ManualComplete

Spec == Init /\ [][Next]_vars

\* asyncio serves its callbacks in turn and the HTTP client of the action layer has a
\* timeout: a coroutine that can run runs, an awaited answer (or its error) is delivered.
\* Nothing is assumed of clients, of humans or of crashes.
EngineFairness == \A c \in Callers : WF_vars(Running(c)) /\ SF_vars(Answered(c))

-----------------------------------------------------------------------------
(* Properties                                                              *)

PC == {"idle", "bootstrap", "pull", "next", "await", "judge", "complete", "emit", "fail",
       "reflow", "obsolete", "terminal", "rewire", "replace"}

\* Program counters of a coroutine that executes an item.
Working == PC \ {"idle", "bootstrap", "pull", "next"}

Coroutine == [pc : PC, batch : SUBSET Items, item : Items \cup {NoItem},
              outcome : {"none", "success", "failed", "needs_discussion"},
              rounds : 0 .. MaxLoops, todo : SUBSET Items, old : Items \cup {NoItem}]

\* The variables the engine adds stay within their types, the loop is held by exactly
\* the coroutine that is neither idle nor awaiting, and what is executed exists.
TypeOK ==
    /\ Scheduler!TypeOK
    /\ confirmed \in BOOLEAN
    /\ attempts \in [Modules -> Nat]
    /\ terminal \in [Modules -> Items \cup {NoItem}]
    /\ gate \in [Items -> {"none", "passed", "failed"}]
    /\ artifacts \subseteq {"acceptance_report", "release_note", "rollback_plan"}
    /\ loop \in Callers \cup {NoCaller}
    /\ co \in [Callers -> Coroutine]
    /\ \A c \in Callers :
        /\ (loop = c) = (co[c].pc \notin {"idle", "await"})
        /\ co[c].pc \in Working => co[c].item \in Created

\* The engine uses the scheduler as WorkflowScheduler specifies it: every step of the
\* engine and of its clients is a scheduler operation or leaves the scheduler alone.
\* Where the packages that are reflowed are chains, it is one that rewires pending items
\* only; with branches a reflow may come when the integration test has been released.
ImplementsScheduler == Scheduler!Spec

Settled(m) == \A i \in Created : i.module = m => status[i] \in {"succeeded", "skipped"}

\* Between two steps of the coroutines of a run, no integration test has been released
\* while an item of some module is unfinished, or while the terminal item of some module
\* was skipped instead of done: reflow replaces what the test waits for before it skips it.
IntegrationAfterModules ==
    loop = NoCaller /\ ~Canceled =>
        \A i \in IntegrationItems : status[i] # "pending" =>
            \A m \in Modules : Settled(m) /\ status[terminal[m]] = "succeeded"

\* The stages of a run come in order, verification after implementation: the integration
\* test is not released while an item of some module is still to be done.
StagesInOrder ==
    loop = NoCaller /\ ~Canceled =>
        \A i \in IntegrationItems : status[i] # "pending" => \A m \in Modules : Settled(m)

\* A running item has a caller that awaits its result: an item that nobody executes is
\* never left `running', so that the run cannot hang on it.
RunningItemsAreOwned ==
    loop = NoCaller /\ ~Canceled =>
        \A i \in With("running") : \E c \in Callers : co[c].pc = "await" /\ co[c].item = i

\* Two callers never execute the same item at the same time.
OneExecution ==
    \A c, d \in Callers : c # d /\ co[c].pc = "await" /\ co[d].pc = "await"
                            => co[c].item # co[d].item

\* What a run that says succeeded has been through: every module ends in an item that
\* succeeded, every item that has a gate and succeeded has passed it, and so have
\* the global stages.  It holds through reflows, and through crashes at any step.
SucceededMeansVerified ==
    confirmed /\ runStatus[Run] = "succeeded" =>
        /\ \A m \in Modules : status[terminal[m]] = "succeeded"
        /\ \A k \in DOMAIN GlobalStages : status[GlobalItem(k)] = "succeeded"
        /\ \A i \in Created : Gated(i) /\ status[i] = "succeeded" => gate[i] = "passed"

\* Once the event loop is free, the evidence of a finished stage exists.
EvidenceComplete ==
    loop = NoCaller => \A i \in Created : status[i] = "succeeded" => Range(Evidence(i)) \subseteq artifacts

\* execute_until_blocked returns because the run is blocked.  A call that ends because
\* there is nothing left to start leaves a run that has finished, failed, waits
\* for a human, or is still being worked on by another caller.
ReturnsOnlyWhenBlocked ==
    [][\A c \in Callers :
        At(c, "pull") /\ co[c].rounds > 0 /\ loop' = NoCaller /\ co'[c] = Idle
        => \/ runStatus'[Run] # "running"
           \/ \E d \in Callers : co'[d].pc = "await"]_vars

\* Every call of bootstrap or execute returns, whatever is interrupted, skipped,
\* discussed or done by the other callers meanwhile.
CallsReturn == \A c \in Callers : (co[c].pc # "idle") ~> (co[c].pc = "idle")
=============================================================================

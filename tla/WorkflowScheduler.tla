------------------------- MODULE WorkflowScheduler -------------------------
(***************************************************************************)
(* control_center/services/workflow_scheduler.py: the in-memory scheduler  *)
(* of workflow runs.  A run is a DAG of work items; every public method is *)
(* called from an `async def' handler and contains no await, so one method *)
(* call is one atomic step on the event loop.                              *)
(*                                                                         *)
(* An unborn run has status "absent"; an unborn item belongs to NoRun and  *)
(* already shows the values add_workitem creates it with.  The sessions of *)
(* an item are indexed by their `round' field, which the code makes equal  *)
(* to their position in _workitem_discussions; "none": no such session.    *)
(***************************************************************************)
EXTENDS Naturals, FiniteSets

CONSTANTS
    Runs,          \* identifiers create_run may hand out
    NoRun,         \* the run of an item that is not created yet
    Items,         \* identifiers add_workitem may hand out
    Fingerprints,  \* non-empty discussion fingerprints
    NoFingerprint, \* a prompt without fingerprint (None or "")
    Budget,        \* discussion_budget of each item
    MaxBudget      \* the largest of them

ASSUME SchedulerAssumption ==
    /\ NoRun \notin Runs
    /\ NoFingerprint \notin Fingerprints
    /\ MaxBudget \in Nat
    /\ Budget \in [Items -> 0 .. MaxBudget]

VARIABLES
    runStatus,        \* run.status
    runOf,            \* _workitem_run (and its inverse _run_workitems)
    status,           \* item.status
    dependsOn,        \* item.depends_on
    requiresApproval, \* item.requires_approval
    discussionUsed,   \* item.discussion_used
    fingerprints,     \* item.metadata["discussion_fingerprints"]
    sessions          \* _discussions of the item: round -> session.status

itemVars == <<runOf, dependsOn, requiresApproval>>
talkVars == <<discussionUsed, fingerprints, sessions>>
vars == <<runStatus, runOf, status, dependsOn, requiresApproval,
          discussionUsed, fingerprints, sessions>>

RunStatus == {"planning", "running", "waiting_approval", "blocked",
              "failed", "succeeded", "canceled"}
ItemStatus == {"pending", "ready", "running", "needs_discussion",
               "waiting_approval", "failed", "succeeded", "skipped"}
SessionStatus == {"open", "resolved", "exhausted", "timeout"}

Done == {"succeeded", "skipped"}                       \* satisfies a dependency
TerminalItem == {"succeeded", "failed", "skipped"}
TerminalRun == {"failed", "succeeded", "canceled"}

ItemsOf(r) == {i \in Items : runOf[i] = r}
Created == {i \in Items : runOf[i] # NoRun}
Rounds == 1 .. (MaxBudget + 1)
Open(i) == {n \in Rounds : sessions[i][n] = "open"}

-----------------------------------------------------------------------------
(* Run status                                                              *)

\* Mutant: a pending discussion hides a failed item (order of the two tests swapped).
DerivedStatusBlockedFirst(members, st) ==
    LET seen == {st[i] : i \in members} IN
    IF members = {} THEN "planning"
    ELSE IF "needs_discussion" \in seen THEN "blocked"
    ELSE IF "failed" \in seen THEN "failed"
    ELSE IF "waiting_approval" \in seen THEN "waiting_approval"
    ELSE IF seen \subseteq Done THEN "succeeded"
    ELSE "running"

\* derive_run_status, over the items `members' with statuses `st'.
DerivedStatus(members, st) ==
    LET seen == {st[i] : i \in members} IN
    IF members = {} THEN "planning"
    ELSE IF "failed" \in seen THEN "failed"
    ELSE IF "needs_discussion" \in seen THEN "blocked"
    ELSE IF "waiting_approval" \in seen THEN "waiting_approval"
    ELSE IF seen \subseteq Done THEN "succeeded"
    ELSE "running"

\* Mutant: the run is refreshed before the item is written.
RefreshTooEarly(r) ==
    runStatus' = [runStatus EXCEPT ![r] =
                    IF @ = "canceled" THEN @ ELSE DerivedStatus(ItemsOf(r), status)]

\* _refresh_run_status: the last call of every operation on an item; it reads
\* the items the operation has just written.
Refresh(r) ==
    runStatus' = [runStatus EXCEPT ![r] =
                    IF @ = "canceled" THEN @ ELSE DerivedStatus(ItemsOf(r), status')]

-----------------------------------------------------------------------------
(* Runs                                                                    *)

\* create_run
CreateRun(r) ==
    /\ runStatus[r] = "absent"
    /\ runStatus' = [runStatus EXCEPT ![r] = "running"]
    /\ UNCHANGED <<status, itemVars, talkVars>>

\* interrupt_run: a no-op on a terminal run; the sessions of a skipped item stay open.
InterruptRun(r, skip) ==
    /\ runStatus[r] \notin {"absent"} \cup TerminalRun
    /\ status' = [i \in Items |->
                    IF skip /\ runOf[i] = r /\ status[i] \notin TerminalItem
                    THEN "skipped" ELSE status[i]]
    /\ runStatus' = [runStatus EXCEPT ![r] = "canceled"]
    /\ UNCHANGED <<itemVars, talkVars>>

\* restart_run: a terminal run is left as it is, a fresh one takes its place.
RestartRun(source, r) ==
    /\ runStatus[source] \in TerminalRun
    /\ CreateRun(r)

\* Mutant: a dependency on a work item of another run is accepted.
AddWorkItemAnyRun(i, r, ds, approval) ==
    /\ runStatus[r] # "absent"
    /\ runOf[i] = NoRun
    /\ ds \subseteq Created
    /\ runOf' = [runOf EXCEPT ![i] = r]
    /\ dependsOn' = [dependsOn EXCEPT ![i] = ds]
    /\ requiresApproval' = [requiresApproval EXCEPT ![i] = approval]
    /\ UNCHANGED <<runStatus, status, talkVars>>

\* add_workitem: the dependencies must exist in the same run; neither the
\* status of the run is tested nor is it refreshed.
AddWorkItem(i, r, ds, approval) ==
    /\ runStatus[r] # "absent"
    /\ runOf[i] = NoRun
    /\ ds \subseteq ItemsOf(r)
    /\ runOf' = [runOf EXCEPT ![i] = r]
    /\ dependsOn' = [dependsOn EXCEPT ![i] = ds]
    /\ requiresApproval' = [requiresApproval EXCEPT ![i] = approval]
    /\ UNCHANGED <<runStatus, status, talkVars>>

-----------------------------------------------------------------------------
(* Items                                                                   *)

\* Mutant: one finished dependency is enough.
SomeDependencyDone(i) ==
    dependsOn[i] = {} \/ \E d \in dependsOn[i] : status[d] \in Done

\* Mutant: a failed dependency counts as finished.
DependenciesFinished(i) == \A d \in dependsOn[i] : status[d] \in TerminalItem

\* dependencies_satisfied
DependenciesSatisfied(i) == \A d \in dependsOn[i] : status[d] \in Done

\* select_pending_ready_for_transition: chosen before any of them moves.
Releasable(r) ==
    {i \in ItemsOf(r) : status[i] = "pending" /\ DependenciesSatisfied(i)}

\* tick
Tick(r) ==
    /\ runStatus[r] \notin {"absent", "canceled"}
    /\ status' = [i \in Items |->
                    IF i \notin Releasable(r) THEN status[i]
                    ELSE IF requiresApproval[i] THEN "waiting_approval" ELSE "ready"]
    /\ Refresh(r)
    /\ UNCHANGED <<itemVars, talkVars>>

\* One item moves to `s' and its run is refreshed.
Move(i, s) ==
    /\ status' = [status EXCEPT ![i] = s]
    /\ Refresh(runOf[i])
    /\ UNCHANGED itemVars

\* Mutant: start_workitem does not look at the run.
StartWorkItemUnguarded(i) ==
    /\ i \in Created
    /\ status[i] = "ready"
    /\ Move(i, "running")
    /\ UNCHANGED talkVars

\* start_workitem
StartWorkItem(i) ==
    /\ i \in Created
    /\ runStatus[runOf[i]] # "canceled"
    /\ status[i] = "ready"
    /\ Move(i, "running")
    /\ UNCHANGED talkVars

\* complete_workitem: an item that was never started may be completed too.
CompleteWorkItem(i, success) ==
    /\ i \in Created
    /\ runStatus[runOf[i]] # "canceled"
    /\ status[i] \in {"running", "ready"}
    /\ Move(i, IF success THEN "succeeded" ELSE "failed")
    /\ UNCHANGED talkVars

\* approve_workitem
ApproveWorkItem(i) ==
    /\ i \in Created
    /\ runStatus[runOf[i]] # "canceled"
    /\ requiresApproval[i]
    /\ status[i] = "waiting_approval"
    /\ Move(i, "ready")
    /\ UNCHANGED talkVars

\* mark_workitem_skipped (called by the engine only); a terminal item stays.
SkipWorkItem(i) ==
    /\ i \in Created
    /\ status[i] \notin TerminalItem
    /\ Move(i, "skipped")
    /\ UNCHANGED talkVars

\* update_workitem_dependencies (called by the engine only).  The status of
\* the item is not tested: see Next for what the engine passes.
UpdateWorkItemDependencies(i, ds) ==
    /\ i \in Created
    /\ runStatus[runOf[i]] # "canceled"
    /\ ds \subseteq ItemsOf(runOf[i]) \ {i}
    /\ dependsOn' = [dependsOn EXCEPT ![i] = ds]
    /\ UNCHANGED status
    /\ Refresh(runOf[i])
    /\ UNCHANGED <<runOf, requiresApproval, talkVars>>

-----------------------------------------------------------------------------
(* Discussions                                                             *)

NextRound(i) == discussionUsed[i] + 1

\* The prompt is refused: the item fails, an exhausted session records why.
ExhaustDiscussion(i) ==
    /\ Move(i, "failed")
    /\ sessions' = [sessions EXCEPT ![i][NextRound(i)] = "exhausted"]
    /\ UNCHANGED <<discussionUsed, fingerprints>>

\* The question is put to a human: one more round of the budget is used.
OpenDiscussion(i, fp) ==
    /\ Move(i, "needs_discussion")
    /\ discussionUsed' = [discussionUsed EXCEPT ![i] = NextRound(i)]
    /\ fingerprints' = [fingerprints EXCEPT ![i] = @ \cup ({fp} \ {NoFingerprint})]
    /\ sessions' = [sessions EXCEPT ![i][NextRound(i)] = "open"]

\* Mutant: only a repeated fingerprint ends the discussion.
MarkNeedsDiscussionUnbounded(i, fp) ==
    /\ i \in Created
    /\ status[i] \in {"running", "ready"}
    /\ IF fp \in fingerprints[i] THEN ExhaustDiscussion(i) ELSE OpenDiscussion(i, fp)

\* mark_needs_discussion: the run is not looked at, only the item is.
MarkNeedsDiscussion(i, fp) ==
    /\ i \in Created
    /\ status[i] \in {"running", "ready"}
    /\ IF NextRound(i) > Budget[i] \/ fp \in fingerprints[i]
       THEN ExhaustDiscussion(i)
       ELSE OpenDiscussion(i, fp)

\* Mutant: an answer after the timeout fails the item but leaves the session open.
ResolveDiscussionLeavesOpen(i, n, late) ==
    /\ i \in Created
    /\ status[i] = "needs_discussion"
    /\ n \in Open(i)
    /\ sessions' = IF late THEN sessions ELSE [sessions EXCEPT ![i][n] = "resolved"]
    /\ Move(i, IF late THEN "failed" ELSE "ready")
    /\ UNCHANGED <<discussionUsed, fingerprints>>

\* resolve_discussion of the open session of round n (with no discussion_id
\* the code takes the newest open one); `late' when its timeout has passed.
ResolveDiscussion(i, n, late) ==
    /\ i \in Created
    /\ status[i] = "needs_discussion"
    /\ n \in Open(i)
    /\ sessions' = [sessions EXCEPT ![i][n] = IF late THEN "timeout" ELSE "resolved"]
    /\ Move(i, IF late THEN "failed" ELSE "ready")
    /\ UNCHANGED <<discussionUsed, fingerprints>>

-----------------------------------------------------------------------------
(* The scheduler                                                           *)

Init ==
    /\ runStatus = [r \in Runs |-> "absent"]
    /\ runOf = [i \in Items |-> NoRun]
    /\ status = [i \in Items |-> "pending"]
    /\ dependsOn = [i \in Items |-> {}]
    /\ requiresApproval = [i \in Items |-> FALSE]
    /\ discussionUsed = [i \in Items |-> 0]
    /\ fingerprints = [i \in Items |-> {}]
    /\ sessions = [i \in Items |-> [n \in Rounds |-> "none"]]

Next ==
    \/ \E r \in Runs : CreateRun(r) \/ Tick(r)
    \/ \E r \in Runs, skip \in BOOLEAN : InterruptRun(r, skip)
    \/ \E source, r \in Runs : RestartRun(source, r)
    \/ \E i \in Items, r \in Runs, ds \in SUBSET Items, approval \in BOOLEAN :
            AddWorkItem(i, r, ds, approval)
    \/ \E i \in Items : StartWorkItem(i) \/ ApproveWorkItem(i) \/ SkipWorkItem(i)
    \/ \E i \in Items, success \in BOOLEAN : CompleteWorkItem(i, success)
    \/ \E i \in Items, fp \in Fingerprints \cup {NoFingerprint} :
            MarkNeedsDiscussion(i, fp)
    \/ \E i \in Items, n \in Rounds, late \in BOOLEAN : ResolveDiscussion(i, n, late)
    \/ \E i \in Items, ds \in SUBSET Items :
            \* The engine rewires integration-test items that wait for their module.
            status[i] = "pending" /\ UpdateWorkItemDependencies(i, ds)

Spec == Init /\ [][Next]_vars

-----------------------------------------------------------------------------
(* Properties                                                              *)

\* Every variable stays within the enumerations of models/v3_workflow.py.
TypeOK ==
    /\ runStatus \in [Runs -> RunStatus \cup {"absent"}]
    /\ runOf \in [Items -> Runs \cup {NoRun}]
    /\ status \in [Items -> ItemStatus]
    /\ dependsOn \in [Items -> SUBSET Items]
    /\ requiresApproval \in [Items -> BOOLEAN]
    /\ discussionUsed \in [Items -> 0 .. MaxBudget]
    /\ fingerprints \in [Items -> SUBSET Fingerprints]
    /\ sessions \in [Items -> [Rounds -> SessionStatus \cup {"none"}]]

\* Every item that exists belongs to a run that exists, and depends on
\* items of the same run only: no operation on one run can release, or be
\* held up by, the work of another one.
RunsAreIsolated ==
    \A i \in Items :
        /\ i \in Created => runStatus[runOf[i]] # "absent"
        /\ i \notin Created => status[i] = "pending" /\ dependsOn[i] = {}
        /\ \A d \in dependsOn[i] : runOf[d] = runOf[i]

\* The status a caller reads off a run that was not canceled.  It tells the
\* truth about every item that has left `pending'; the one thing it may not know
\* yet is an item add_workitem has appended since the last refresh, which can
\* only make it say succeeded or planning where running would be derived (or
\* running, on a run that has no item).  In particular failed means that some
\* item failed, and a failed item always shows.
RunStatusSound ==
    \A r \in Runs : runStatus[r] \notin {"absent", "canceled"} =>
        \/ runStatus[r] = DerivedStatus(ItemsOf(r), status)
        \/ ItemsOf(r) = {} /\ runStatus[r] = "running"
        \/ /\ runStatus[r] \in {"succeeded", "planning"}
           /\ DerivedStatus(ItemsOf(r), status) = "running"
           /\ \A i \in ItemsOf(r) : status[i] \in Done \cup {"pending"}

DiscussionSoundAt(i) ==
    LET used == discussionUsed[i] IN
    /\ used <= Budget[i]
    /\ \A n \in Rounds :
        /\ n < used => sessions[i][n] = "resolved"
        /\ n = used => sessions[i][n] \in {"open", "resolved", "timeout"}
        /\ n = used + 1 => sessions[i][n] \in {"none", "exhausted"}
        /\ n > used + 1 => sessions[i][n] = "none"
        /\ sessions[i][n] \in {"exhausted", "timeout"} => status[i] = "failed"
        /\ sessions[i][n] = "open" => status[i] \in {"needs_discussion", "skipped"}
    /\ status[i] = "needs_discussion" => used \in Open(i)

\* Discussions and items agree.  An item waits for an answer exactly when its
\* newest round is open, so that resolve_discussion can always be served; older
\* rounds are all resolved, an item that ran out of rounds or of time is failed, and
\* only skipping an item leaves a question open that nobody can answer any more.
\* The budget bounds the questions ever opened, not only the counter.
DiscussionSound == \A i \in Items : DiscussionSoundAt(i)

\* No item has left `pending' (other than by being skipped) before every item it
\* depends on has succeeded or was skipped, whatever approvals, discussions,
\* rewirings and interrupts happened since.
DependenciesBeforeWork ==
    \A i \in Items : status[i] \notin {"pending", "skipped"}
                        => \A d \in dependsOn[i] : status[d] \in Done

\* A finished item is never revived: a late result, answer or approval cannot
\* change what dependants and the run status have been told.
FinishedIsFinal ==
    [][\A i \in Items : status[i] \in TerminalItem => status'[i] = status[i]]_vars

\* A failed run stays failed whatever else its items do (its failed item cannot be
\* undone, and interrupt_run refuses it), and a canceled run stays canceled.
FailureIsFinal ==
    [][\A r \in Runs :
        runStatus[r] \in {"failed", "canceled"} => runStatus'[r] = runStatus[r]]_vars

\* In a canceled run no item starts or succeeds and none is released or approved,
\* even those an interrupt without skip left pending, ready, running or waiting.
CanceledRunIsInert ==
    [][\A i \in Created :
        /\ runStatus[runOf[i]] = "canceled"
        /\ status'[i] # status[i]
        => /\ status'[i] \notin {"running", "succeeded", "waiting_approval"}
           /\ status[i] \in {"pending", "waiting_approval"} => status'[i] = "skipped"]_vars

-----------------------------------------------------------------------------
(* What the scheduler promises: the execution of a task graph              *)

phase == [i \in Items |->
            IF runOf[i] = NoRun THEN "unborn"
            ELSE IF status[i] = "pending" THEN "waiting"
            ELSE IF status[i] \in Done THEN "done"
            ELSE IF status[i] = "failed" THEN "failed" ELSE "open"]

Graph == INSTANCE TaskGraph WITH Nodes <- Items, after <- dependsOn

\* The scheduler executes task graphs: seen through `phase', each of its operations
\* is one step of TaskGraph or none.
ImplementsTaskGraph == Graph!Spec
=============================================================================

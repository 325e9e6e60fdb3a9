---------------------- MODULE WorkflowSchedulerProofs ----------------------
(***************************************************************************)
(* Invariants of WorkflowScheduler for any runs, items, fingerprints and   *)
(* budgets.  Each operation is dealt with once per invariant; what they    *)
(* share (Move, Refresh, DerivedStatus) has its own lemmas.                *)
(***************************************************************************)
EXTENDS WorkflowScheduler, TLAPS

\* Any call of a method of the scheduler: what Next allows, and a rewiring of an item
\* whatever its status.
Operation ==
    \/ Next
    \/ \E i \in Items, ds \in SUBSET Items : UpdateWorkItemDependencies(i, ds)

\* derive_run_status returns one of the six statuses it can name.
LEMMA DerivedStatusType ==
    ASSUME NEW members, NEW st
    PROVE  DerivedStatus(members, st) \in RunStatus
  BY DEF DerivedStatus, RunStatus

\* Refreshing a run keeps the type of runStatus.
LEMMA RefreshType ==
    ASSUME NEW r \in Runs, Refresh(r), TypeOK
    PROVE  runStatus' \in [Runs -> RunStatus \cup {"absent"}]
  BY DerivedStatusType DEF Refresh, TypeOK

\* Moving an item that exists keeps the types of all that Move writes.
LEMMA MoveType ==
    ASSUME NEW i \in Created, NEW s \in ItemStatus, Move(i, s), TypeOK
    PROVE  /\ runStatus' \in [Runs -> RunStatus \cup {"absent"}]
           /\ status' \in [Items -> ItemStatus]
           /\ UNCHANGED itemVars
  <1>1. i \in Items /\ runOf[i] \in Runs
    BY DEF Created, TypeOK
  <1>2. runStatus' \in [Runs -> RunStatus \cup {"absent"}]
    BY <1>1, RefreshType DEF Move
  <1>3. QED
    BY <1>1, <1>2 DEF Move, TypeOK

\* The initial values are of their types.
LEMMA InitTypeOK ==
    ASSUME Init PROVE TypeOK
  BY SchedulerAssumption DEF Init, TypeOK, ItemStatus, Rounds

\* Every operation keeps every variable in its type; a round is only written
\* within the budget, so Rounds is large enough for every session.
LEMMA OperationTypeOK ==
    ASSUME TypeOK, [Operation]_vars
    PROVE  TypeOK'
  <1> USE SchedulerAssumption
  <1>1. ASSUME NEW r \in Runs, CreateRun(r) PROVE TypeOK'
    BY <1>1 DEF CreateRun, TypeOK, RunStatus, itemVars, talkVars
  <1>2. ASSUME NEW r \in Runs, Tick(r) PROVE TypeOK'
    <2>1. runStatus' \in [Runs -> RunStatus \cup {"absent"}]
      BY <1>2, RefreshType DEF Tick
    <2>2. status' \in [Items -> ItemStatus]
      BY <1>2 DEF Tick, TypeOK, ItemStatus
    <2>3. QED
      BY <1>2, <2>1, <2>2 DEF Tick, TypeOK, itemVars, talkVars
  <1>3. ASSUME NEW r \in Runs, NEW skip \in BOOLEAN, InterruptRun(r, skip) PROVE TypeOK'
    <2>1. status' \in [Items -> ItemStatus]
      BY <1>3 DEF InterruptRun, TypeOK, ItemStatus
    <2>2. QED
      BY <1>3, <2>1 DEF InterruptRun, TypeOK, RunStatus, itemVars, talkVars
  <1>4. ASSUME NEW i \in Items, NEW r \in Runs, NEW ds \in SUBSET Items,
               NEW approval \in BOOLEAN, AddWorkItem(i, r, ds, approval)
        PROVE  TypeOK'
    BY <1>4 DEF AddWorkItem, TypeOK, talkVars
  <1>5. ASSUME NEW i \in Items, NEW s \in ItemStatus, i \in Created, Move(i, s),
               UNCHANGED talkVars
        PROVE  TypeOK'
    BY <1>5, MoveType DEF TypeOK, itemVars, talkVars
  <1>6. ASSUME NEW i \in Items, NEW fp \in Fingerprints \cup {NoFingerprint},
               MarkNeedsDiscussion(i, fp)
        PROVE  TypeOK'
    <2>1. NextRound(i) \in Rounds
      BY <1>6 DEF NextRound, Rounds, TypeOK
    <2>2. CASE ExhaustDiscussion(i)
      BY <1>6, <2>1, <2>2, MoveType
      DEF MarkNeedsDiscussion, ExhaustDiscussion, TypeOK, itemVars, ItemStatus, SessionStatus
    <2>3. CASE OpenDiscussion(i, fp) /\ NextRound(i) <= Budget[i]
      <3>1. NextRound(i) \in 0 .. MaxBudget
        BY <2>3 DEF NextRound, TypeOK
      <3>2. discussionUsed' \in [Items -> 0 .. MaxBudget]
        BY <2>3, <3>1 DEF OpenDiscussion, TypeOK
      <3>3. fingerprints' \in [Items -> SUBSET Fingerprints]
        BY <2>3 DEF OpenDiscussion, TypeOK
      <3>4. sessions' \in [Items -> [Rounds -> SessionStatus \cup {"none"}]]
        BY <2>1, <2>3 DEF OpenDiscussion, TypeOK, SessionStatus
      <3>5. runStatus' \in [Runs -> RunStatus \cup {"absent"}]
            /\ status' \in [Items -> ItemStatus] /\ UNCHANGED itemVars
        BY <1>6, <2>3, MoveType DEF MarkNeedsDiscussion, OpenDiscussion, ItemStatus
      <3>6. QED
        BY <3>2, <3>3, <3>4, <3>5 DEF TypeOK, itemVars
    <2>4. NextRound(i) > Budget[i] \/ NextRound(i) <= Budget[i]
      BY DEF NextRound, TypeOK
    <2>5. QED
      BY <1>6, <2>2, <2>3, <2>4 DEF MarkNeedsDiscussion
  <1>7. ASSUME NEW i \in Items, NEW n \in Rounds, NEW late \in BOOLEAN,
               ResolveDiscussion(i, n, late)
        PROVE  TypeOK'
    <2>1. sessions' \in [Items -> [Rounds -> SessionStatus \cup {"none"}]]
      BY <1>7 DEF ResolveDiscussion, TypeOK, SessionStatus
    <2>2. QED
      BY <1>7, <2>1, MoveType DEF ResolveDiscussion, TypeOK, itemVars, ItemStatus
  <1>8. ASSUME NEW i \in Items, NEW ds \in SUBSET Items, UpdateWorkItemDependencies(i, ds)
        PROVE  TypeOK'
    <2>1. runOf[i] \in Runs
      BY <1>8 DEF UpdateWorkItemDependencies, Created, TypeOK
    <2>2. runStatus' \in [Runs -> RunStatus \cup {"absent"}]
      BY <1>8, <2>1, RefreshType DEF UpdateWorkItemDependencies
    <2>3. QED
      BY <1>8, <2>2 DEF UpdateWorkItemDependencies, TypeOK, talkVars
  <1>9. CASE UNCHANGED vars
    BY <1>9 DEF vars, TypeOK
  <1>10. QED
    BY <1>1, <1>2, <1>3, <1>4, <1>5, <1>6, <1>7, <1>8, <1>9
    DEF Operation, Next, RestartRun, StartWorkItem, ApproveWorkItem, SkipWorkItem,
        CompleteWorkItem, ItemStatus

-----------------------------------------------------------------------------
(* Runs are isolated                                                       *)

\* Moving an item that exists leaves the isolation of runs alone.
LEMMA MoveIsolated ==
    ASSUME TypeOK, RunsAreIsolated, NEW i \in Created, NEW s \in ItemStatus, Move(i, s)
    PROVE  RunsAreIsolated'
  <1>1. i \in Items /\ runOf[i] \in Runs /\ runOf[i] # NoRun
    BY DEF Created, TypeOK
  <1>2. runStatus[runOf[i]] # "absent"
    BY <1>1 DEF RunsAreIsolated
  <1>3. \A r \in Runs : runStatus'[r] = "absent" => runStatus[r] = "absent"
    BY <1>1, <1>2, DerivedStatusType DEF Move, Refresh, RunStatus, TypeOK
  <1>4. \A j \in Items : j # i => status'[j] = status[j]
    BY DEF Move, TypeOK
  <1>5. Created' = Created /\ runOf' = runOf /\ dependsOn' = dependsOn
    BY DEF Move, itemVars, Created
  <1>6. QED
    BY <1>1, <1>3, <1>4, <1>5, SchedulerAssumption DEF RunsAreIsolated, Created, TypeOK

\* Every operation, on any items, keeps the runs apart.
LEMMA OperationIsolated ==
    ASSUME TypeOK, RunsAreIsolated, [Operation]_vars
    PROVE  RunsAreIsolated'
  <1> USE SchedulerAssumption
  <1>1. ASSUME NEW r \in Runs, CreateRun(r) PROVE RunsAreIsolated'
    BY <1>1 DEF CreateRun, RunsAreIsolated, Created, TypeOK, itemVars
  <1>2. ASSUME NEW r \in Runs, Tick(r) PROVE RunsAreIsolated'
    <2>1. \A q \in Runs : runStatus'[q] = "absent" => runStatus[q] = "absent"
      BY <1>2, DerivedStatusType DEF Tick, Refresh, RunStatus, TypeOK
    <2>2. \A i \in Items : runOf[i] = NoRun => status'[i] = status[i]
      BY <1>2 DEF Tick, Releasable, ItemsOf, TypeOK
    <2>3. QED
      BY <1>2, <2>1, <2>2 DEF Tick, RunsAreIsolated, Created, TypeOK, itemVars
  <1>3. ASSUME NEW r \in Runs, NEW skip \in BOOLEAN, InterruptRun(r, skip)
        PROVE  RunsAreIsolated'
    <2>1. \A i \in Items : runOf[i] = NoRun => status'[i] = status[i]
      BY <1>3 DEF InterruptRun, TypeOK
    <2>2. \A q \in Runs : runStatus'[q] = "absent" => runStatus[q] = "absent"
      BY <1>3 DEF InterruptRun, TypeOK
    <2>3. QED
      BY <1>3, <2>1, <2>2 DEF InterruptRun, RunsAreIsolated, Created, TypeOK, itemVars
  <1>4. ASSUME NEW i \in Items, NEW r \in Runs, NEW ds \in SUBSET Items,
               NEW approval \in BOOLEAN, AddWorkItem(i, r, ds, approval)
        PROVE  RunsAreIsolated'
    <2>1. \A j \in Items : i \notin dependsOn[j]
      BY <1>4 DEF AddWorkItem, RunsAreIsolated, Created, TypeOK
    <2>2. i \notin ds
      BY <1>4 DEF AddWorkItem, ItemsOf
    <2>3. QED
      BY <1>4, <2>1, <2>2 DEF AddWorkItem, RunsAreIsolated, Created, ItemsOf, TypeOK
  <1>5. ASSUME NEW i \in Items, NEW s \in ItemStatus, i \in Created, Move(i, s)
        PROVE  RunsAreIsolated'
    BY <1>5, MoveIsolated
  <1>6. ASSUME NEW i \in Items, NEW ds \in SUBSET Items, UpdateWorkItemDependencies(i, ds)
        PROVE  RunsAreIsolated'
    <2>1. runOf[i] \in Runs /\ runStatus[runOf[i]] # "absent"
      BY <1>6 DEF UpdateWorkItemDependencies, RunsAreIsolated, Created, TypeOK
    <2>2. \A q \in Runs : runStatus'[q] = "absent" => runStatus[q] = "absent"
      BY <1>6, <2>1, DerivedStatusType
      DEF UpdateWorkItemDependencies, Refresh, RunStatus, TypeOK
    <2>3. QED
      BY <1>6, <2>1, <2>2
      DEF UpdateWorkItemDependencies, RunsAreIsolated, Created, ItemsOf, TypeOK
  <1>7. CASE UNCHANGED vars
    BY <1>7 DEF vars, RunsAreIsolated, Created
  <1>8. QED
    BY <1>1, <1>2, <1>3, <1>4, <1>5, <1>6, <1>7
    DEF Operation, Next, RestartRun, StartWorkItem, ApproveWorkItem, SkipWorkItem,
        CompleteWorkItem, MarkNeedsDiscussion, ExhaustDiscussion, OpenDiscussion,
        ResolveDiscussion, ItemStatus

-----------------------------------------------------------------------------
(* The run status is sound                                                 *)

\* The derived status depends on the statuses of the members only.
LEMMA DerivedStatusAgree ==
    ASSUME NEW members, NEW st1, NEW st2, \A i \in members : st1[i] = st2[i]
    PROVE  DerivedStatus(members, st1) = DerivedStatus(members, st2)
  <1>1. {st1[i] : i \in members} = {st2[i] : i \in members}
    OBVIOUS
  <1>2. QED
    BY <1>1 DEF DerivedStatus

\* Appending a pending item changes the derived status of a run only when
\* everything in it was done.
LEMMA DerivedStatusAppend ==
    ASSUME NEW members, NEW st, NEW i, st[i] = "pending"
    PROVE  DerivedStatus(members \cup {i}, st) =
             IF DerivedStatus(members, st) \in {"planning", "succeeded"}
             THEN "running" ELSE DerivedStatus(members, st)
  <1> DEFINE seen == {st[j] : j \in members}
  <1>1. {st[j] : j \in members \cup {i}} = seen \cup {"pending"}
    OBVIOUS
  <1>2. QED
    BY <1>1 DEF DerivedStatus, Done

\* A refresh after a change confined to one run leaves every run status sound.
LEMMA RefreshSound ==
    ASSUME TypeOK, RunStatusSound, NEW r \in Runs, Refresh(r), runOf' = runOf,
           \A i \in Items : runOf[i] # r => status'[i] = status[i]
    PROVE  RunStatusSound'
  <1> SUFFICES ASSUME NEW q \in Runs, runStatus'[q] \notin {"absent", "canceled"}
               PROVE  \/ runStatus'[q] = DerivedStatus(ItemsOf(q), status')
                      \/ ItemsOf(q) = {} /\ runStatus'[q] = "running"
                      \/ /\ runStatus'[q] \in {"succeeded", "planning"}
                         /\ DerivedStatus(ItemsOf(q), status') = "running"
                         /\ \A i \in ItemsOf(q) : status'[i] \in Done \cup {"pending"}
    BY DEF RunStatusSound, ItemsOf
  <1>1. CASE q = r
    BY <1>1 DEF Refresh, TypeOK
  <1>2. CASE q # r
    <2>1. \A i \in ItemsOf(q) : status'[i] = status[i]
      BY <1>2 DEF ItemsOf
    <2>2. DerivedStatus(ItemsOf(q), status') = DerivedStatus(ItemsOf(q), status)
      BY <2>1, DerivedStatusAgree
    <2>3. runStatus'[q] = runStatus[q]
      BY <1>2 DEF Refresh, TypeOK
    <2>4. QED
      BY <2>1, <2>2, <2>3 DEF RunStatusSound
  <1>3. QED
    BY <1>1, <1>2

\* Every operation, on any items, leaves the run with a truthful status.
LEMMA OperationStatusSound ==
    ASSUME TypeOK, RunsAreIsolated, RunStatusSound, [Operation]_vars
    PROVE  RunStatusSound'
  <1> USE SchedulerAssumption
  <1>1. ASSUME NEW r \in Runs, CreateRun(r) PROVE RunStatusSound'
    <2>1. ItemsOf(r) = {}
      BY <1>1 DEF CreateRun, RunsAreIsolated, ItemsOf, Created, TypeOK
    <2>2. status' = status /\ runOf' = runOf
          /\ runStatus' = [runStatus EXCEPT ![r] = "running"]
      BY <1>1 DEF CreateRun, itemVars
    <2>3. QED
      BY <2>1, <2>2 DEF RunStatusSound, ItemsOf, TypeOK
  <1>2. ASSUME NEW r \in Runs, Tick(r) PROVE RunStatusSound'
    <2>1. \A i \in Items : runOf[i] # r => status'[i] = status[i]
      BY <1>2 DEF Tick, Releasable, ItemsOf, TypeOK
    <2>2. QED
      BY <1>2, <2>1, RefreshSound DEF Tick, itemVars
  <1>3. ASSUME NEW r \in Runs, NEW skip \in BOOLEAN, InterruptRun(r, skip)
        PROVE  RunStatusSound'
    <2>1. \A q \in Runs \ {r} : \A i \in ItemsOf(q) : status'[i] = status[i]
      BY <1>3 DEF InterruptRun, ItemsOf, TypeOK
    <2>2. \A q \in Runs \ {r} :
            DerivedStatus(ItemsOf(q), status') = DerivedStatus(ItemsOf(q), status)
      BY <2>1, DerivedStatusAgree
    <2>3. runStatus' = [runStatus EXCEPT ![r] = "canceled"] /\ runOf' = runOf
      BY <1>3 DEF InterruptRun, itemVars
    <2>4. QED
      BY <2>1, <2>2, <2>3 DEF RunStatusSound, ItemsOf, TypeOK
  <1>4. ASSUME NEW i \in Items, NEW r \in Runs, NEW ds \in SUBSET Items,
               NEW approval \in BOOLEAN, AddWorkItem(i, r, ds, approval)
        PROVE  RunStatusSound'
    <2>1. runStatus' = runStatus /\ status' = status /\ runOf' = [runOf EXCEPT ![i] = r]
      BY <1>4 DEF AddWorkItem
    <2>2. status[i] = "pending" /\ runOf[i] = NoRun
      BY <1>4 DEF AddWorkItem, RunsAreIsolated, Created
    <2>3. \A q \in Runs : ItemsOf(q)' = IF q = r THEN ItemsOf(q) \cup {i} ELSE ItemsOf(q)
      BY <2>1, <2>2 DEF ItemsOf, TypeOK
    <2>4. DerivedStatus(ItemsOf(r) \cup {i}, status) =
            IF DerivedStatus(ItemsOf(r), status) \in {"planning", "succeeded"}
            THEN "running" ELSE DerivedStatus(ItemsOf(r), status)
      BY <2>2, DerivedStatusAppend
    <2>5. DerivedStatus(ItemsOf(r), status) \in {"planning", "succeeded"}
            => \A j \in ItemsOf(r) : status[j] \in Done \cup {"pending"}
      BY DEF DerivedStatus
    <2>6. ItemsOf(r) = {} => DerivedStatus(ItemsOf(r), status) = "planning"
      BY DEF DerivedStatus
    <2>7. SUFFICES ASSUME NEW q \in Runs, runStatus[q] \notin {"absent", "canceled"}
                   PROVE  \/ runStatus[q] = DerivedStatus(ItemsOf(q)', status)
                          \/ ItemsOf(q)' = {} /\ runStatus[q] = "running"
                          \/ /\ runStatus[q] \in {"succeeded", "planning"}
                             /\ DerivedStatus(ItemsOf(q)', status) = "running"
                             /\ \A j \in ItemsOf(q)' : status[j] \in Done \cup {"pending"}
      BY <2>1 DEF RunStatusSound
    <2>8. CASE q # r
      BY <2>3, <2>8, <2>7 DEF RunStatusSound
    <2>9. CASE q = r
      BY <2>2, <2>3, <2>4, <2>5, <2>6, <2>7, <2>9 DEF RunStatusSound
    <2>10. QED
      BY <2>8, <2>9
  <1>5. ASSUME NEW i \in Items, NEW s \in ItemStatus, i \in Created, Move(i, s)
        PROVE  RunStatusSound'
    <2>1. runOf[i] \in Runs /\ runOf' = runOf
      BY <1>5 DEF Created, Move, itemVars, TypeOK
    <2>2. \A j \in Items : runOf[j] # runOf[i] => status'[j] = status[j]
      BY <1>5 DEF Move, TypeOK
    <2>3. QED
      BY <1>5, <2>1, <2>2, RefreshSound DEF Move
  <1>6. ASSUME NEW i \in Items, NEW ds \in SUBSET Items, UpdateWorkItemDependencies(i, ds)
        PROVE  RunStatusSound'
    <2>1. runOf[i] \in Runs /\ runOf' = runOf /\ status' = status /\ Refresh(runOf[i])
      BY <1>6 DEF UpdateWorkItemDependencies, Created, TypeOK
    <2>2. QED
      BY <2>1, RefreshSound
  <1>7. CASE UNCHANGED vars
    BY <1>7 DEF vars, RunStatusSound, ItemsOf
  <1>8. QED
    BY <1>1, <1>2, <1>3, <1>4, <1>5, <1>6, <1>7
    DEF Operation, Next, RestartRun, StartWorkItem, ApproveWorkItem, SkipWorkItem,
        CompleteWorkItem, MarkNeedsDiscussion, ExhaustDiscussion, OpenDiscussion,
        ResolveDiscussion, ItemStatus

-----------------------------------------------------------------------------
(* Discussions and items agree                                             *)

\* An operation that opens and answers nothing may release, start, finish or skip
\* items, as long as only skipping takes one out of a discussion.
LEMMA QuietSound ==
    ASSUME TypeOK, DiscussionSound, UNCHANGED talkVars, status' \in [Items -> ItemStatus],
           \A i \in Items : status'[i] # status[i] =>
                /\ status[i] \notin TerminalItem
                /\ status'[i] # "needs_discussion"
                /\ status[i] = "needs_discussion" => status'[i] = "skipped"
    PROVE  DiscussionSound'
  <1> SUFFICES ASSUME NEW i \in Items PROVE DiscussionSoundAt(i)'
    BY DEF DiscussionSound
  <1>1. DiscussionSoundAt(i)
    BY DEF DiscussionSound
  <1>2. QED
    BY <1>1 DEF DiscussionSoundAt, Open, talkVars, TypeOK, TerminalItem

\* An operation on one item leaves the discussions of the others alone.
LEMMA OthersSound ==
    ASSUME TypeOK, DiscussionSound, NEW i \in Items, DiscussionSoundAt(i)',
           \A j \in Items \ {i} :
                /\ status'[j] = status[j]
                /\ discussionUsed'[j] = discussionUsed[j]
                /\ sessions'[j] = sessions[j]
    PROVE  DiscussionSound'
  BY DEF DiscussionSound, DiscussionSoundAt, Open

\* Every operation keeps discussion budgets, rounds and status in agreement.
LEMMA OperationDiscussionSound ==
    ASSUME TypeOK, RunsAreIsolated, DiscussionSound, [Operation]_vars
    PROVE  DiscussionSound'
  <1> USE SchedulerAssumption
  <1>1. ASSUME NEW r \in Runs, CreateRun(r) PROVE DiscussionSound'
    BY <1>1, QuietSound DEF CreateRun, TypeOK
  <1>2. ASSUME NEW r \in Runs, Tick(r) PROVE DiscussionSound'
    <2>1. status' \in [Items -> ItemStatus]
      BY <1>2 DEF Tick, TypeOK, ItemStatus
    <2>2. QED
      BY <1>2, <2>1, QuietSound DEF Tick, Releasable, TerminalItem
  <1>3. ASSUME NEW r \in Runs, NEW skip \in BOOLEAN, InterruptRun(r, skip)
        PROVE  DiscussionSound'
    <2>1. status' \in [Items -> ItemStatus]
      BY <1>3 DEF InterruptRun, TypeOK, ItemStatus
    <2>2. QED
      BY <1>3, <2>1, QuietSound DEF InterruptRun
  <1>4. ASSUME NEW i \in Items, NEW r \in Runs, NEW ds \in SUBSET Items,
               NEW approval \in BOOLEAN, AddWorkItem(i, r, ds, approval)
        PROVE  DiscussionSound'
    BY <1>4, QuietSound DEF AddWorkItem, TypeOK
  <1>5. ASSUME NEW i \in Items, NEW s \in ItemStatus, Move(i, s), UNCHANGED talkVars,
               status[i] \notin TerminalItem, s # "needs_discussion",
               status[i] = "needs_discussion" => s = "skipped"
        PROVE  DiscussionSound'
    BY <1>5, QuietSound DEF Move, TypeOK
  <1>6. ASSUME NEW i \in Items, NEW fp \in Fingerprints \cup {NoFingerprint},
               MarkNeedsDiscussion(i, fp)
        PROVE  DiscussionSound'
    <2>1. DiscussionSoundAt(i) /\ status[i] \in {"running", "ready"}
      BY <1>6 DEF DiscussionSound, MarkNeedsDiscussion
    <2>2. NextRound(i) \in Rounds /\ discussionUsed[i] \in Nat /\ Budget[i] \in Nat
      BY DEF NextRound, Rounds, TypeOK
    <2>3. CASE ExhaustDiscussion(i)
      <3>1. status' = [status EXCEPT ![i] = "failed"] /\ discussionUsed' = discussionUsed
            /\ sessions' = [sessions EXCEPT ![i][NextRound(i)] = "exhausted"]
        BY <2>3 DEF ExhaustDiscussion, Move
      <3>2. DiscussionSoundAt(i)'
        BY <2>1, <2>2, <3>1 DEF DiscussionSoundAt, Open, NextRound, TypeOK, Rounds
      <3>3. QED
        BY <3>1, <3>2, OthersSound DEF TypeOK
    <2>4. CASE OpenDiscussion(i, fp) /\ NextRound(i) <= Budget[i]
      <3>1. status' = [status EXCEPT ![i] = "needs_discussion"]
            /\ discussionUsed' = [discussionUsed EXCEPT ![i] = NextRound(i)]
            /\ sessions' = [sessions EXCEPT ![i][NextRound(i)] = "open"]
        BY <2>4 DEF OpenDiscussion, Move
      <3>2. DiscussionSoundAt(i)'
        BY <2>1, <2>2, <2>4, <3>1 DEF DiscussionSoundAt, Open, NextRound, TypeOK, Rounds
      <3>3. QED
        BY <3>1, <3>2, OthersSound DEF TypeOK
    <2>5. QED
      BY <1>6, <2>2, <2>3, <2>4 DEF MarkNeedsDiscussion, NextRound
  <1>7. ASSUME NEW i \in Items, NEW n \in Rounds, NEW late \in BOOLEAN,
               ResolveDiscussion(i, n, late)
        PROVE  DiscussionSound'
    <2>1. DiscussionSoundAt(i) /\ status[i] = "needs_discussion" /\ sessions[i][n] = "open"
      BY <1>7 DEF DiscussionSound, ResolveDiscussion, Open
    <2>2. n = discussionUsed[i]
      <3>1. n \in Nat /\ discussionUsed[i] \in Nat
        BY DEF TypeOK, Rounds
      <3>2. /\ ~(n < discussionUsed[i])
            /\ n # discussionUsed[i] + 1
            /\ ~(n > discussionUsed[i] + 1)
        BY <2>1 DEF DiscussionSoundAt
      <3>3. QED
        BY <3>1, <3>2
    <2>3. status' = [status EXCEPT ![i] = IF late THEN "failed" ELSE "ready"]
          /\ discussionUsed' = discussionUsed
          /\ sessions' = [sessions EXCEPT ![i][n] = IF late THEN "timeout" ELSE "resolved"]
      BY <1>7 DEF ResolveDiscussion, Move
    <2>4. DiscussionSoundAt(i)'
      BY <2>1, <2>2, <2>3 DEF DiscussionSoundAt, Open, TypeOK, Rounds
    <2>5. QED
      BY <2>3, <2>4, OthersSound DEF TypeOK
  <1>8. ASSUME NEW i \in Items, NEW ds \in SUBSET Items, UpdateWorkItemDependencies(i, ds)
        PROVE  DiscussionSound'
    BY <1>8, QuietSound DEF UpdateWorkItemDependencies, TypeOK
  <1>9. CASE UNCHANGED vars
    BY <1>9, QuietSound DEF vars, talkVars, TypeOK
  <1>10. QED
    BY <1>1, <1>2, <1>3, <1>4, <1>5, <1>6, <1>7, <1>8, <1>9
    DEF Operation, Next, RestartRun, StartWorkItem, ApproveWorkItem, SkipWorkItem,
        CompleteWorkItem, ItemStatus, TerminalItem

-----------------------------------------------------------------------------
(* Dependencies come before work                                           *)

\* If what is done stays done, and an item leaves `pending' only free of
\* dependencies or skipped, then nothing is ahead of its dependencies.
LEMMA OrderKept ==
    ASSUME TypeOK, DependenciesBeforeWork,
           \A i \in Items : status[i] \in Done => status'[i] \in Done,
           \A i \in Items : status[i] \in {"pending", "skipped"} =>
                \/ status'[i] \in {"pending", "skipped"}
                \/ DependenciesSatisfied(i),
           \A i \in Items : status'[i] \notin {"pending", "skipped"} =>
                dependsOn'[i] = dependsOn[i]
    PROVE  DependenciesBeforeWork'
  BY DEF DependenciesBeforeWork, DependenciesSatisfied, TypeOK

\* Every step that rewires pending items only keeps the dependencies before the work.
LEMMA NextOrder ==
    ASSUME TypeOK, RunsAreIsolated, DependenciesBeforeWork, [Next]_vars
    PROVE  DependenciesBeforeWork'
  <1> USE DEF Done
  <1>1. ASSUME NEW r \in Runs, CreateRun(r) PROVE DependenciesBeforeWork'
    BY <1>1, OrderKept DEF CreateRun, itemVars
  <1>2. ASSUME NEW r \in Runs, Tick(r) PROVE DependenciesBeforeWork'
    <2>1. \A i \in Items : status'[i] # status[i] =>
            status[i] = "pending" /\ DependenciesSatisfied(i)
      BY <1>2 DEF Tick, Releasable
    <2>2. QED
      BY <1>2, <2>1, OrderKept DEF Tick, itemVars
  <1>3. ASSUME NEW r \in Runs, NEW skip \in BOOLEAN, InterruptRun(r, skip)
        PROVE  DependenciesBeforeWork'
    <2>1. \A i \in Items : status'[i] # status[i] =>
            status'[i] = "skipped" /\ status[i] \notin TerminalItem
      BY <1>3 DEF InterruptRun
    <2>2. QED
      BY <1>3, <2>1, OrderKept DEF InterruptRun, itemVars, TerminalItem
  <1>4. ASSUME NEW i \in Items, NEW r \in Runs, NEW ds \in SUBSET Items,
               NEW approval \in BOOLEAN, AddWorkItem(i, r, ds, approval)
        PROVE  DependenciesBeforeWork'
    <2>1. status[i] = "pending"
      BY <1>4 DEF AddWorkItem, RunsAreIsolated, Created
    <2>2. QED
      BY <1>4, <2>1, OrderKept DEF AddWorkItem, TypeOK
  <1>5. ASSUME NEW i \in Items, NEW s \in ItemStatus, Move(i, s),
               \/ s = "skipped" /\ status[i] \notin TerminalItem
               \/ status[i] \notin {"pending"} \cup TerminalItem
        PROVE  DependenciesBeforeWork'
    BY <1>5, OrderKept DEF Move, itemVars, TypeOK, TerminalItem
  <1>6. ASSUME NEW i \in Items, NEW ds \in SUBSET Items, status[i] = "pending",
               UpdateWorkItemDependencies(i, ds)
        PROVE  DependenciesBeforeWork'
    BY <1>6, OrderKept DEF UpdateWorkItemDependencies, TypeOK
  <1>7. CASE UNCHANGED vars
    BY <1>7, OrderKept DEF vars
  <1>8. QED
    BY <1>1, <1>2, <1>3, <1>4, <1>5, <1>6, <1>7
    DEF Next, RestartRun, StartWorkItem, ApproveWorkItem, SkipWorkItem, CompleteWorkItem,
        MarkNeedsDiscussion, ExhaustDiscussion, OpenDiscussion, ResolveDiscussion,
        ItemStatus, TerminalItem

-----------------------------------------------------------------------------
(* The invariant and the theorems                                          *)

\* The inductive invariant: each part is preserved with the help of TypeOK and, where
\* an item is created, of RunsAreIsolated (an identifier not in use is pending).
Inv ==
    /\ TypeOK
    /\ RunsAreIsolated
    /\ RunStatusSound
    /\ DiscussionSound
    /\ DependenciesBeforeWork

\* The invariant holds at the start.
LEMMA InitInv ==
    ASSUME Init PROVE Inv
  <1>1. TypeOK
    BY InitTypeOK
  <1>2. RunsAreIsolated /\ RunStatusSound /\ DependenciesBeforeWork
    BY DEF Init, RunsAreIsolated, RunStatusSound, DependenciesBeforeWork, Created
  <1>3. DiscussionSound
    BY SchedulerAssumption DEF Init, DiscussionSound, DiscussionSoundAt, Open, Rounds
  <1>4. QED
    BY <1>1, <1>2, <1>3 DEF Inv

\* The invariant is inductive.
LEMMA NextInv ==
    ASSUME Inv, [Next]_vars PROVE Inv'
  BY OperationTypeOK, OperationIsolated, OperationStatusSound, OperationDiscussionSound, NextOrder
  DEF Inv, Operation

\* The strengthened invariant of the scheduler holds in every reachable state.
THEOREM Invariance == Spec => []Inv
  BY InitInv, NextInv, PTL DEF Spec

\* Every variable of the scheduler keeps its type.
THEOREM TypeCorrect == Spec => []TypeOK
  BY Invariance, PTL DEF Inv

\* Items depend only on items of their own run, which exists.
THEOREM Isolation == Spec => []RunsAreIsolated
  BY Invariance, PTL DEF Inv

\* The status of a run tells the truth about its items.
THEOREM StatusSoundness == Spec => []RunStatusSound
  BY Invariance, PTL DEF Inv

\* Discussions agree with items and the budget bounds the questions asked.
THEOREM DiscussionSoundness == Spec => []DiscussionSound
  BY Invariance, PTL DEF Inv

\* No item is worked on before all it depends on is done.
THEOREM OrderedExecution == Spec => []DependenciesBeforeWork
  BY Invariance, PTL DEF Inv

-----------------------------------------------------------------------------
(* What a step never does                                                  *)

\* What one step does to the status of one item, by its old status.
LEMMA OperationOnItem ==
    ASSUME TypeOK, [Operation]_vars, NEW i \in Items
    PROVE  /\ status[i] \in TerminalItem => status'[i] = status[i]
           /\ i \in Created /\ runStatus[runOf[i]] = "canceled" /\ status'[i] # status[i]
                => /\ status'[i] \notin {"running", "succeeded", "waiting_approval"}
                   /\ status[i] \in {"pending", "waiting_approval"}
                        => status'[i] = "skipped"
  <1> DEFINE Goal == /\ status[i] \in TerminalItem => status'[i] = status[i]
                     /\ i \in Created /\ runStatus[runOf[i]] = "canceled"
                            /\ status'[i] # status[i]
                          => /\ status'[i] \notin {"running", "succeeded", "waiting_approval"}
                             /\ status[i] \in {"pending", "waiting_approval"}
                                  => status'[i] = "skipped"
  <1>1. CASE status' = status
    BY <1>1
  <1>2. ASSUME NEW r \in Runs, Tick(r) PROVE Goal
    BY <1>2 DEF Tick, Releasable, ItemsOf, TerminalItem
  <1>3. ASSUME NEW r \in Runs, NEW skip \in BOOLEAN, InterruptRun(r, skip) PROVE Goal
    BY <1>3 DEF InterruptRun
  <1>4. ASSUME NEW j \in Items, StartWorkItem(j) \/ ApproveWorkItem(j) \/ SkipWorkItem(j)
        PROVE  Goal
    BY <1>4 DEF StartWorkItem, ApproveWorkItem, SkipWorkItem, Move, TerminalItem, TypeOK
  <1>5. ASSUME NEW j \in Items, NEW success \in BOOLEAN, CompleteWorkItem(j, success)
        PROVE  Goal
    BY <1>5 DEF CompleteWorkItem, Move, TerminalItem, TypeOK
  <1>6. ASSUME NEW j \in Items, NEW fp, MarkNeedsDiscussion(j, fp) PROVE Goal
    BY <1>6 DEF MarkNeedsDiscussion, ExhaustDiscussion, OpenDiscussion, Move, TerminalItem, TypeOK
  <1>7. ASSUME NEW j \in Items, NEW n, NEW late, ResolveDiscussion(j, n, late) PROVE Goal
    BY <1>7 DEF ResolveDiscussion, Move, TerminalItem, TypeOK
  <1>8. QED
    BY <1>1, <1>2, <1>3, <1>4, <1>5, <1>6, <1>7
    DEF Operation, Next, vars, CreateRun, RestartRun, AddWorkItem, UpdateWorkItemDependencies

\* A late result, answer or approval never revives a finished item.
THEOREM Finality == Spec => FinishedIsFinal
  <1>1. TypeOK /\ [Next]_vars => [\A i \in Items : status[i] \in TerminalItem
                                            => status'[i] = status[i]]_vars
    BY OperationOnItem DEF Operation
  <1>2. QED
    BY <1>1, TypeCorrect, PTL DEF Spec, FinishedIsFinal

\* A canceled run does no more work.
THEOREM CancelIsEffective == Spec => CanceledRunIsInert
  <1> DEFINE Inert == \A i \in Created :
        /\ runStatus[runOf[i]] = "canceled"
        /\ status'[i] # status[i]
        => /\ status'[i] \notin {"running", "succeeded", "waiting_approval"}
           /\ status[i] \in {"pending", "waiting_approval"} => status'[i] = "skipped"
  <1>1. TypeOK /\ [Next]_vars => [Inert]_vars
    BY OperationOnItem DEF Operation, Created
  <1>2. Spec => [][Inert]_vars
    BY <1>1, TypeCorrect, PTL DEF Spec
  <1>3. QED
    BY <1>2 DEF CanceledRunIsInert

\* What one step does to a run that is failed or canceled, before its items are
\* looked at: it stays canceled, and it is neither canceled nor forgotten.
LEMMA OperationOnRun ==
    ASSUME TypeOK, RunsAreIsolated, [Operation]_vars, NEW r \in Runs
    PROVE  /\ runStatus[r] = "canceled" => runStatus'[r] = "canceled"
           /\ runStatus[r] = "failed" => runStatus'[r] \in RunStatus \ {"canceled"}
           /\ \A i \in ItemsOf(r) : runOf'[i] = r
  <1> DEFINE Goal == /\ runStatus[r] = "canceled" => runStatus'[r] = "canceled"
                     /\ runStatus[r] = "failed" => runStatus'[r] \in RunStatus \ {"canceled"}
  <1>1. ASSUME NEW M, NEW st PROVE DerivedStatus(M, st) \in RunStatus \ {"canceled"}
    BY DEF DerivedStatus, RunStatus
  <1>2. \A q : Refresh(q) => Goal
    BY <1>1 DEF Refresh, RunStatus, TypeOK
  <1>3. runStatus' = runStatus => Goal
    BY DEF RunStatus
  <1>4. \A q : CreateRun(q) => Goal
    BY DEF CreateRun, RunStatus, TypeOK
  <1>5. \A q, skip : InterruptRun(q, skip) => Goal
    BY DEF InterruptRun, TerminalRun, RunStatus, TypeOK
  <1>6. Goal
    BY <1>2, <1>3, <1>4, <1>5
    DEF Operation, Next, vars, Tick, RestartRun, AddWorkItem, StartWorkItem, ApproveWorkItem,
        SkipWorkItem, CompleteWorkItem, MarkNeedsDiscussion, ExhaustDiscussion,
        OpenDiscussion, ResolveDiscussion, UpdateWorkItemDependencies, Move
  <1>7. \A i \in ItemsOf(r) : runOf'[i] = r
    <2>1. \A j, q, ds, approval : AddWorkItem(j, q, ds, approval)
            => \A i \in ItemsOf(r) : runOf'[i] = r
      BY SchedulerAssumption DEF AddWorkItem, ItemsOf, TypeOK
    <2>2. QED
      BY <2>1
      DEF Operation, Next, vars, itemVars, ItemsOf, CreateRun, InterruptRun, Tick, RestartRun,
          StartWorkItem, ApproveWorkItem, SkipWorkItem, CompleteWorkItem,
          MarkNeedsDiscussion, ExhaustDiscussion, OpenDiscussion, ResolveDiscussion,
          UpdateWorkItemDependencies, Move
  <1>8. QED
    BY <1>6, <1>7

\* A failed run has a failed item, which no step revives; so the status that the
\* step leaves behind, being sound, is failed again.
LEMMA FailureStep ==
    ASSUME Inv, [Next]_vars, NEW r \in Runs, runStatus[r] \in {"failed", "canceled"}
    PROVE  runStatus'[r] = runStatus[r]
  <1>1. CASE runStatus[r] = "canceled"
    BY <1>1, OperationOnRun DEF Inv, Operation
  <1>2. CASE runStatus[r] = "failed"
    <2>1. PICK i \in ItemsOf(r) : status[i] = "failed"
      <3>1. DerivedStatus(ItemsOf(r), status) = "failed"
        BY <1>2 DEF Inv, RunStatusSound
      <3>2. QED
        BY <3>1 DEF DerivedStatus
    <2>2. i \in Items /\ status'[i] = "failed" /\ runOf'[i] = r
      BY <2>1, OperationOnItem, OperationOnRun DEF Inv, Operation, ItemsOf, TerminalItem
    <2>3. i \in ItemsOf(r)' /\ ItemsOf(r)' # {}
      BY <2>2 DEF ItemsOf
    <2>4. DerivedStatus(ItemsOf(r), status)' = "failed"
      BY <2>2, <2>3 DEF DerivedStatus
    <2>5. runStatus'[r] \in RunStatus \ {"canceled"}
      BY <1>2, OperationOnRun DEF Inv, Operation
    <2>6. RunStatusSound'
      BY NextInv DEF Inv
    <2>7. QED
      BY <1>2, <2>2, <2>3, <2>4, <2>5, <2>6 DEF RunStatusSound, RunStatus, Done
  <1>3. QED
    BY <1>1, <1>2

\* Failed and canceled are for good.
THEOREM FailurePermanence == Spec => FailureIsFinal
  <1>1. Inv /\ [Next]_vars => [\A r \in Runs : runStatus[r] \in {"failed", "canceled"}
                                         => runStatus'[r] = runStatus[r]]_vars
    BY FailureStep
  <1>2. QED
    BY <1>1, Invariance, PTL DEF Spec, FailureIsFinal

-----------------------------------------------------------------------------
(* The scheduler implements TaskGraph                                      *)

LEMMA InitGraph ==
    ASSUME Init PROVE Graph!Init
  BY DEF Init, Graph!Init, phase

\* Moving one open item settles it, or leaves the graph as it was.
LEMMA MoveGraph ==
    ASSUME TypeOK, NEW i \in Items, NEW s \in ItemStatus \ {"pending"}, i \in Created,
           Move(i, s), status[i] \notin {"pending"} \cup TerminalItem
    PROVE  [Graph!Next]_(Graph!vars)
  <1>1. phase[i] = "open"
    BY DEF phase, Created, TypeOK, TerminalItem, Done
  <1>2. dependsOn' = dependsOn
    BY DEF Move, itemVars
  <1> DEFINE p == IF s \in Done THEN "done" ELSE IF s = "failed" THEN "failed" ELSE "open"
  <1>3. phase' = [phase EXCEPT ![i] = p]
    BY DEF Move, itemVars, phase, Created, TypeOK
  <1>4. CASE p = "open"
    <2>1. phase' = phase
      BY <1>1, <1>3, <1>4 DEF phase
    <2>2. QED
      BY <1>2, <2>1 DEF Graph!vars
  <1>5. CASE p \in {"done", "failed"}
    <2>1. Graph!Settle(i, p)
      BY <1>2, <1>3 DEF Graph!Settle
    <2>2. QED
      BY <1>1, <1>5, <2>1 DEF Graph!Next, Graph!NodesIn
  <1>6. QED
    BY <1>4, <1>5

\* Every step of the scheduler is a step of the task graph or leaves it alone.
LEMMA NextGraph ==
    ASSUME TypeOK, RunsAreIsolated, [Next]_vars
    PROVE  [Graph!Next]_(Graph!vars)
  <1> DEFINE Goal == [Graph!Next]_(Graph!vars)
  <1> USE SchedulerAssumption
  <1>1. ASSUME NEW r \in Runs, CreateRun(r) PROVE Goal
    BY <1>1 DEF CreateRun, itemVars, Graph!vars, phase
  <1>2. ASSUME NEW r \in Runs, Tick(r) PROVE Goal
    <2>1. Releasable(r) \in SUBSET Graph!NodesIn("waiting")
      BY <1>2 DEF Releasable, ItemsOf, Graph!NodesIn, phase
    <2>2. \A i \in Releasable(r) : Graph!Free(i)
      <3>1. SUFFICES ASSUME NEW i \in Releasable(r), NEW d \in dependsOn[i]
                     PROVE  phase[d] = "done"
        BY DEF Graph!Free
      <3>2. i \in Items /\ runOf[i] = r /\ status[d] \in Done
        BY DEF Releasable, ItemsOf, DependenciesSatisfied
      <3>3. d \in Items /\ runOf[d] = r
        BY <3>2 DEF RunsAreIsolated, TypeOK
      <3>4. QED
        BY <3>2, <3>3 DEF phase, Done
    <2>3. Graph!Enter(Releasable(r), "open")
      BY <1>2 DEF Tick, itemVars, Graph!Enter, phase, Releasable, ItemsOf, Done
    <2>4. Graph!Release(Releasable(r))
      BY <1>2, <2>2, <2>3 DEF Tick, itemVars, Graph!Release
    <2>5. QED
      BY <2>1, <2>4 DEF Graph!Next
  <1>3. ASSUME NEW r \in Runs, NEW skip \in BOOLEAN, InterruptRun(r, skip) PROVE Goal
    <2>1. CASE skip
      <3> DEFINE S == {i \in ItemsOf(r) : status[i] \notin TerminalItem}
      <3>1. S \in SUBSET {i \in Items : phase[i] \in Graph!Unsettled}
        BY DEF ItemsOf, TerminalItem, phase, Done, Graph!Unsettled
      <3>2. Graph!Enter(S, "done")
        BY <1>3, <2>1 DEF InterruptRun, itemVars, ItemsOf, Graph!Enter, phase, Done
      <3>3. Graph!Drop(S)
        BY <1>3, <3>2 DEF InterruptRun, itemVars, Graph!Drop
      <3>4. QED
        BY <3>1, <3>3 DEF Graph!Next
    <2>2. CASE ~skip
      <3>1. phase' = phase /\ dependsOn' = dependsOn
        BY <1>3, <2>2 DEF InterruptRun, itemVars, phase
      <3>2. QED
        BY <3>1 DEF Graph!vars
    <2>3. QED
      BY <2>1, <2>2
  <1>4. ASSUME NEW i \in Items, NEW r \in Runs, NEW ds \in SUBSET Items,
               NEW approval \in BOOLEAN, AddWorkItem(i, r, ds, approval)
        PROVE  Goal
    <2>1. phase[i] = "unborn" /\ \A d \in ds : phase[d] # "unborn"
      BY <1>4 DEF AddWorkItem, ItemsOf, phase, Done
    <2>2. status[i] = "pending"
      BY <1>4 DEF AddWorkItem, RunsAreIsolated, Created
    <2>3. phase' = [phase EXCEPT ![i] = "waiting"]
      <3>1. runOf' = [runOf EXCEPT ![i] = r] /\ status' = status /\ r # NoRun
        BY <1>4 DEF AddWorkItem
      <3>2. \A j \in Items : phase'[j] = IF j = i THEN "waiting" ELSE phase[j]
        BY <2>2, <3>1 DEF phase, TypeOK
      <3>3. QED
        BY <3>2 DEF phase
    <2>4. Graph!Declare(i, ds)
      BY <1>4, <2>1, <2>3 DEF AddWorkItem, Graph!Declare
    <2>5. QED
      BY <2>1, <2>4 DEF Graph!Next, Graph!NodesIn
  <1>5. ASSUME NEW i \in Items, NEW s \in ItemStatus \ {"pending"}, i \in Created,
               Move(i, s), status[i] \notin {"pending"} \cup TerminalItem
        PROVE  Goal
    BY <1>5, MoveGraph
  <1>6. ASSUME NEW i \in Items, SkipWorkItem(i) PROVE Goal
    <2>1. phase[i] \in Graph!Unsettled
      BY <1>6 DEF SkipWorkItem, Created, TerminalItem, phase, Done, Graph!Unsettled
    <2>2. Graph!Enter({i}, "done")
      BY <1>6
      DEF SkipWorkItem, Move, itemVars, Created, Graph!Enter, phase, Done, TypeOK
    <2>3. Graph!Drop({i})
      BY <1>6, <2>2 DEF SkipWorkItem, Move, itemVars, Graph!Drop
    <2>4. QED
      BY <2>1, <2>3 DEF Graph!Next
  <1>7. ASSUME NEW i \in Items, NEW ds \in SUBSET Items, status[i] = "pending",
               UpdateWorkItemDependencies(i, ds)
        PROVE  Goal
    <2>1. phase[i] = "waiting" /\ i \notin ds /\ \A d \in ds : phase[d] # "unborn"
      BY <1>7 DEF UpdateWorkItemDependencies, Created, ItemsOf, phase, Done
    <2>2. phase' = phase
      BY <1>7 DEF UpdateWorkItemDependencies, phase
    <2>3. Graph!Rewire(i, ds)
      BY <1>7, <2>1, <2>2 DEF UpdateWorkItemDependencies, Graph!Rewire
    <2>4. QED
      BY <2>1, <2>3 DEF Graph!Next, Graph!NodesIn
  <1>8. CASE UNCHANGED vars
    BY <1>8 DEF vars, Graph!vars, phase
  <1>9. QED
    BY <1>1, <1>2, <1>3, <1>4, <1>5, <1>6, <1>7, <1>8
    DEF Next, RestartRun, StartWorkItem, ApproveWorkItem, CompleteWorkItem,
        MarkNeedsDiscussion, ExhaustDiscussion, OpenDiscussion, ResolveDiscussion,
        ItemStatus, TerminalItem

\* Seen as a task graph, the scheduler opens a node only behind nodes that are done
\* and never reopens one.
THEOREM Refinement == Spec => ImplementsTaskGraph
  <1>1. Init => Graph!Init
    BY InitGraph
  <1>2. Inv /\ [Next]_vars => [Graph!Next]_(Graph!vars)
    BY NextGraph DEF Inv
  <1>3. QED
    BY <1>1, <1>2, Invariance, PTL DEF Spec, ImplementsTaskGraph, Graph!Spec
=============================================================================

---------------------- MODULE WorkflowLifecycleProofs ----------------------
(***************************************************************************)
(* The life of a run for any number of clients, decompositions and         *)
(* restarts, and the advice that orchestrate leaves on the way.            *)
(***************************************************************************)
EXTENDS OrchestrationRecovery, SequenceTheorems, TLAPS

\* The theorems of the scheduler, for the scheduler of this module.
Sched == INSTANCE WorkflowSchedulerProofs WITH
    Runs <- {Run}, Fingerprints <- {}, NoFingerprint <- NoRun,
    Budget <- [i \in Items |-> 0], MaxBudget <- 0

\* What the scheduler assumes of its constants holds of those it is given here.
LEMMA SchedulerMeets == Sched!SchedulerAssumption
  BY LifecycleAssumption DEF Sched!SchedulerAssumption

-----------------------------------------------------------------------------
(* What a step does                                                        *)

\* The calls of the scheduler that requests, advance loops and executions make.
Called ==
    \/ Scheduler!Tick(Run)
    \/ \E i \in Items : Scheduler!StartWorkItem(i)
    \/ \E i \in Items, success \in BOOLEAN : Scheduler!CompleteWorkItem(i, success)
    \/ \E skip \in BOOLEAN : Scheduler!InterruptRun(Run, skip)

\* The decomposition is kept, and the pipeline too, unless it is built now.
Kept ==
    /\ UNCHANGED <<record, made>>
    /\ \/ UNCHANGED built /\ (UNCHANGED schedulerVars \/ Called \/ \E c \in Callers : Accept(c))
       \/ ~HasItems /\ \E from \in 0 .. ByRequest : Build(from)

\* The open decision on the decomposition is taken.
Decision ==
    \E by \in {"token", "blind"} :
        /\ MayDecide(by)
        /\ ApproveDecomposition(by) \/ RejectDecomposition(by)
        /\ UNCHANGED made

\* Every step keeps the decomposition, decides on it, proposes another one, or is a restart.
LEMMA Effects ==
    ASSUME TypeOK, Next
    PROVE  \/ Kept /\ UNCHANGED restarts
           \/ Decision /\ UNCHANGED restarts
           \/ (\E c \in Callers : ChiefProposes(c) \/ (ChiefDecides(c) /\ ~HasItems)) /\ UNCHANGED restarts
           \/ \E copy \in BOOLEAN : Restart(copy)
  <1> DEFINE Goal ==
           \/ Kept /\ UNCHANGED restarts
           \/ Decision /\ UNCHANGED restarts
           \/ (\E c \in Callers : ChiefProposes(c) \/ (ChiefDecides(c) /\ ~HasItems)) /\ UNCHANGED restarts
           \/ \E copy \in BOOLEAN : Restart(copy)
  <1>1. ASSUME UNCHANGED <<record, made, restarts, built>>,
               UNCHANGED schedulerVars \/ Called \/ \E c \in Callers : Accept(c)
        PROVE  Goal
    BY <1>1 DEF Kept
  <1>2. ASSUME UNCHANGED <<record, made, restarts>>, ~HasItems, NEW from \in 0 .. ByRequest, Build(from)
        PROVE  Goal
    BY <1>2 DEF Kept
  <1>3. ASSUME NEW by \in {"token", "blind"}, MayDecide(by), UNCHANGED <<made, restarts>>,
               ApproveDecomposition(by) \/ RejectDecomposition(by)
        PROVE  Goal
    BY <1>3 DEF Decision
  <1>4. /\ record.id \in 0 .. ByRequest /\ ByRequest \in 0 .. ByRequest
        /\ \A c \in Callers : co[c].item \in Items
    BY LifecycleAssumption DEF TypeOK, Record, Coroutine, ByRequest
  <1>5. ASSUME NEW c \in Callers, Request(c) PROVE Goal
    BY <1>1, <1>5 DEF Request, Decompose, StartDecompose, Advance, ExecuteAuto, Execute, Orchestrate,
       decisionVars, resultVars
  <1>6. ASSUME NEW c \in Callers, Running(c) PROVE Goal
    <2>1. CASE StepBootstrap(c)
      <3>1. ~HasItems
        BY <2>1 DEF StepBootstrap, Step, NextAction
      <3>2. QED
        BY <1>2, <1>4, <2>1, <3>1 DEF StepBootstrap, Step
    <2>2. ASSUME NEW by \in {"token", "blind"}, StepConfirm(c, by) PROVE Goal
      BY <1>3, <2>2 DEF StepConfirm, Step
    <2>3. CASE StepTick(c) \/ EngineTicks(c) \/ \E i \in Items : EngineStarts(c, i)
      BY <1>1, <2>3 DEF StepTick, Step, EngineTicks, EngineStarts, Called, decisionVars, resultVars
    <2>4. CASE Accept(c)
      BY <1>1, <2>4 DEF Accept
    <2>5. QED
      BY <1>1, <1>6, <2>1, <2>2, <2>3, <2>4
      DEF Running, StepPreview, Step, StepExecute, AdvanceEnds, ExecuteStarts, ExecuteRefused,
          EngineEnds, decisionVars, resultVars
  <1>7. ASSUME NEW c \in Callers, Answered(c) PROVE Goal
    <2>1. CASE ChiefDecides(c)
      BY <1>1, <2>1 DEF ChiefDecides
    <2>2. CASE ChiefProposes(c)
      BY <2>2 DEF ChiefProposes
    <2>3. ASSUME NEW success \in BOOLEAN, Answer(c, success) PROVE Goal
      BY <1>1, <1>4, <2>3 DEF Answer, Called, decisionVars
    <2>4. QED
      BY <1>1, <1>7, <2>1, <2>2, <2>3
      DEF Answered, ChiefFails, AnswerDropped, AnswerRaises, decisionVars, resultVars
  <1>8. ASSUME BootstrapRoute PROVE Goal
    BY <1>2, <1>4, <1>8 DEF BootstrapRoute
  <1>9. ASSUME NEW by \in {"token", "blind"}, NEW approved \in BOOLEAN, Confirm(by, approved) PROVE Goal
    BY <1>3, <1>9 DEF Confirm
  <1>10. ASSUME Interrupt \/ ManualTick \/ ManualComplete PROVE Goal
    BY <1>1, <1>10 DEF Interrupt, ManualTick, ManualComplete, Elsewhere, Called, decisionVars, resultVars
  <1>11. ASSUME ReadPending \/ PreviewRoute PROVE Goal
    BY <1>1, <1>11 DEF ReadPending, PreviewRoute, resultVars
  <1>12. ASSUME NEW copy \in BOOLEAN, Restart(copy) PROVE Goal
    BY <1>12
  <1> HIDE DEF Goal
  <1>13. Goal
    BY <1>5, <1>6, <1>7, <1>8, <1>9, <1>10, <1>11, <1>12 DEF Next
  <1>14. QED
    BY <1>13 DEF Goal

-----------------------------------------------------------------------------
(* The invariant                                                           *)

\* The pipeline exists as a whole or not at all.
Whole == HasItems => \A i \in Items : runOf[i] = Run

\* Decompositions are numbered as they are made.
Numbered == record.id <= made /\ (record.id = NoRecord => record = Empty)

\* One that says it was approved is the one that was built, and there is a pipeline.
ApprovedStands ==
    record.confirmation \in {"approved", "auto-approved"} /\ ~record.copied
        => built = record.id /\ HasItems

\* A run that says succeeded has a pipeline, and all of it is done.
SucceededIsDone ==
    runStatus[Run] = "succeeded" =>
        \A i \in Items : runOf[i] = Run /\ status[i] \in Scheduler!Done

LifecycleInv ==
    TypeOK /\ Whole /\ Numbered /\ ApprovedStands /\ SucceededIsDone /\ AcceptedSound

\* What a call of the scheduler leaves as it is.
LEMMA CallEffects ==
    ASSUME Scheduler!TypeOK, Whole, Called
    PROVE  /\ Scheduler!TypeOK' /\ UNCHANGED runOf
           /\ Canceled => Canceled'
           /\ \A i \in Items : status[i] \in Scheduler!Done => status'[i] = status[i]
           /\ SucceededIsDone'
  <1> DEFINE members == Scheduler!ItemsOf(Run)
  <1>1. /\ runStatus \in [{Run} -> Scheduler!RunStatus \cup {"absent"}]
        /\ runOf \in [Items -> {Run, NoRun}] /\ status \in [Items -> Scheduler!ItemStatus]
    BY DEF Scheduler!TypeOK
  <1>2. \A i \in Items : i \in Scheduler!Created => runOf[i] = Run
    BY <1>1, LifecycleAssumption DEF Scheduler!Created
  <1>3. /\ UNCHANGED <<runOf, dependsOn, requiresApproval, discussionUsed, fingerprints, sessions>>
        /\ Scheduler!Refresh(Run) \/ \E skip \in BOOLEAN : Scheduler!InterruptRun(Run, skip)
    BY <1>2 DEF Called, Scheduler!Tick, Scheduler!StartWorkItem, Scheduler!CompleteWorkItem,
       Scheduler!InterruptRun, Scheduler!Move, Scheduler!itemVars, Scheduler!talkVars
  <1>4. /\ status' \in [Items -> Scheduler!ItemStatus]
        /\ \A i \in Items : status[i] \in Scheduler!Done => status'[i] = status[i]
    <2>1. CASE Scheduler!Tick(Run)
      BY <1>1, <2>1 DEF Scheduler!Tick, Scheduler!Releasable, Scheduler!Done, Scheduler!ItemStatus
    <2>2. ASSUME NEW i \in Items, Scheduler!StartWorkItem(i)
          PROVE  status[i] = "ready" /\ status' = [status EXCEPT ![i] = "running"]
      BY <2>2 DEF Scheduler!StartWorkItem, Scheduler!Move
    <2>3. ASSUME NEW i \in Items, NEW success \in BOOLEAN, Scheduler!CompleteWorkItem(i, success)
          PROVE  /\ status[i] \in {"running", "ready"}
                 /\ status' = [status EXCEPT ![i] = IF success THEN "succeeded" ELSE "failed"]
      BY <2>3 DEF Scheduler!CompleteWorkItem, Scheduler!Move
    <2>4. ASSUME NEW skip \in BOOLEAN, Scheduler!InterruptRun(Run, skip)
          PROVE  /\ status' \in [Items -> Scheduler!ItemStatus]
                 /\ \A i \in Items : status[i] \in Scheduler!Done => status'[i] = status[i]
      BY <1>1, <2>4 DEF Scheduler!InterruptRun, Scheduler!TerminalItem, Scheduler!Done, Scheduler!ItemStatus
    <2>5. QED
      BY <1>1, <2>1, <2>2, <2>3, <2>4 DEF Called, Scheduler!Done, Scheduler!ItemStatus
  <1>5. ASSUME NEW skip \in BOOLEAN, Scheduler!InterruptRun(Run, skip)
        PROVE  runStatus' \in [{Run} -> Scheduler!RunStatus \cup {"absent"}] /\ runStatus'[Run] = "canceled"
    BY <1>1, <1>5 DEF Scheduler!InterruptRun, Scheduler!RunStatus
  <1>6. ASSUME Scheduler!Refresh(Run)
        PROVE  /\ runStatus' \in [{Run} -> Scheduler!RunStatus \cup {"absent"}]
               /\ runStatus'[Run] = IF runStatus[Run] = "canceled" THEN "canceled"
                                    ELSE Scheduler!DerivedStatus(members, status')
    BY <1>1, <1>6 DEF Scheduler!Refresh, Scheduler!DerivedStatus, Scheduler!RunStatus
  <1>7. ASSUME Scheduler!DerivedStatus(members, status') = "succeeded"
        PROVE  \A i \in Items : runOf[i] = Run /\ status'[i] \in Scheduler!Done
    <2>1. members # {} /\ \A i \in members : status'[i] \in Scheduler!Done
      BY <1>7 DEF Scheduler!DerivedStatus
    <2>2. \A i \in Items : runOf[i] = Run
      BY <2>1 DEF Scheduler!ItemsOf, Whole, HasItems
    <2>3. QED
      BY <2>1, <2>2 DEF Scheduler!ItemsOf
  <1>8. SucceededIsDone'
    BY <1>3, <1>5, <1>6, <1>7 DEF SucceededIsDone
  <1>9. Scheduler!TypeOK'
    BY <1>3, <1>4, <1>5, <1>6 DEF Scheduler!TypeOK
  <1>10. QED
    BY <1>3, <1>4, <1>5, <1>6, <1>8, <1>9 DEF Canceled

\* What building the pipeline, and starting all over, leave.
LEMMA BuildTypes ==
    ASSUME TypeOK, NEW from, Build(from)
    PROVE  /\ Scheduler!TypeOK' /\ built' = from /\ HasItems' /\ UNCHANGED <<runStatus, status>>
           /\ \A i \in Items : runOf'[i] = Run
  BY DEF Build, TypeOK, Scheduler!TypeOK, HasItems, Items

\* A restart leaves a new run with a pipeline still to be built.
LEMMA RestartTypes ==
    ASSUME TypeOK, NEW copy \in BOOLEAN, Restart(copy)
    PROVE  /\ Scheduler!TypeOK' /\ built' = NoRecord /\ ~accepted'
           /\ \A i \in Items : runOf'[i] = NoRun
           /\ runStatus'[Run] = "running" /\ status'["work"] = "pending"
  BY DEF Restart, TypeOK, Scheduler!TypeOK, Items, Scheduler!ItemStatus, Scheduler!RunStatus

\* The variables of the scheduler keep their types, also where they are written directly.
LEMMA StepScheduler ==
    ASSUME TypeOK, Whole, Next
    PROVE  Scheduler!TypeOK'
  <1>0. Scheduler!TypeOK
    BY DEF TypeOK
  <1>1. ASSUME UNCHANGED schedulerVars PROVE Scheduler!TypeOK'
    BY <1>0, <1>1 DEF schedulerVars, Scheduler!TypeOK
  <1>2. ASSUME NEW c \in Callers, Accept(c) PROVE Scheduler!TypeOK'
    BY <1>0, <1>2 DEF Accept, Scheduler!TypeOK, Scheduler!RunStatus
  <1>3. CASE Kept
    BY <1>0, <1>1, <1>2, <1>3, CallEffects, BuildTypes DEF Kept
  <1>4. CASE Decision
    BY <1>1, <1>4, BuildTypes DEF Decision, ApproveDecomposition, RejectDecomposition, schedulerVars
  <1>5. ASSUME NEW c \in Callers, ChiefProposes(c) \/ (ChiefDecides(c) /\ ~HasItems) PROVE Scheduler!TypeOK'
    BY <1>1, <1>5, BuildTypes DEF ChiefProposes, ChiefDecides, schedulerVars
  <1>6. QED
    BY <1>3, <1>4, <1>5, Effects, RestartTypes

\* What TypeOK says of the records of the run.
RecordTypes ==
    /\ requirement \in {"draft", "clarifying", "confirmed", "blocked"}
    /\ record \in Record /\ preview \in Record
    /\ pending => record # Empty
    /\ sdd \in BOOLEAN /\ pending \in BOOLEAN /\ evidence \in BOOLEAN /\ accepted \in BOOLEAN
    /\ built \in 0 .. ByRequest
    /\ made \in 0 .. MaxRecords /\ restarts \in 0 .. MaxRestarts /\ seen \in 0 .. MaxRecords

\* What TypeOK says of the coroutines.
CallerTypes ==
    /\ co \in [Callers -> Coroutine]
    /\ loop \in Callers \cup {NoCaller}
    /\ \A c \in Callers : (loop = c) = (co[c].pc \notin {"idle", "chief", "await"})

\* Every step keeps the types of the decomposition, the decisions and the results.
LEMMA StepRecords ==
    ASSUME TypeOK, Next
    PROVE  RecordTypes'
  <1> USE LifecycleAssumption
  <1>0. /\ RecordTypes /\ Empty \in Record /\ Empty.confirmation = "none"
        /\ MaxRecords \in Nat /\ ByRequest = MaxRecords + 1
        /\ \A confirmation \in {"pending", "auto-approved"} :
              made < MaxRecords => NewRecord(confirmation) \in Record /\ NewRecord(confirmation) # Empty
    BY DEF TypeOK, RecordTypes, Record, Empty, NewRecord, NoRecord, ByRequest
  <1>1. ASSUME UNCHANGED <<decisionVars, resultVars>> PROVE RecordTypes'
    BY <1>0, <1>1 DEF RecordTypes, decisionVars, resultVars
  <1>2. ASSUME NEW c \in Callers, Request(c) PROVE RecordTypes'
    <2>1. /\ requirement' \in {requirement, "clarifying"}
          /\ UNCHANGED <<sdd, record, pending, preview, made, restarts, seen, built, evidence, accepted>>
      <3>1. ASSUME NEW rest, NEW auto, NEW ambiguous, StartDecompose(c, rest, auto, ambiguous)
            PROVE  /\ requirement' \in {requirement, "clarifying"}
                   /\ UNCHANGED <<sdd, record, pending, preview, made, restarts, seen, resultVars>>
        BY <3>1 DEF StartDecompose
      <3>2. QED
        BY <1>2, <3>1 DEF Request, Decompose, Advance, ExecuteAuto, Execute, Orchestrate, decisionVars, resultVars
    <2>2. QED
      BY <1>0, <2>1 DEF RecordTypes
  <1>3. ASSUME NEW by \in {"token", "blind"}, MayDecide(by),
               ApproveDecomposition(by) \/ RejectDecomposition(by),
               UNCHANGED <<preview, made, restarts, seen, evidence, accepted>>
        PROVE  RecordTypes'
    <2>1. record' \in Record /\ record' # Empty
      BY <1>0, <1>3 DEF ApproveDecomposition, RejectDecomposition, RecordTypes, Record, MayDecide,
         AwaitsDecision, Empty
    <2>2. built' \in 0 .. ByRequest
      BY <1>0, <1>3 DEF ApproveDecomposition, RejectDecomposition, RecordTypes, Record, Build
    <2>3. QED
      BY <1>0, <1>3, <2>1, <2>2 DEF ApproveDecomposition, RejectDecomposition, RecordTypes, Build
  <1>4. ASSUME NEW from \in 0 .. ByRequest, Build(from),
               UNCHANGED <<record, pending, made, restarts, seen, evidence, accepted, preview>>
        PROVE  RecordTypes'
    BY <1>0, <1>4 DEF RecordTypes, Build
  <1>5. record.id \in 0 .. ByRequest /\ ByRequest \in 0 .. ByRequest
    BY <1>0 DEF RecordTypes, Record
  <1>6. ASSUME NEW c \in Callers, Running(c) PROVE RecordTypes'
    <2>1. CASE StepPreview(c)
      BY <1>0, <2>1 DEF StepPreview, Step, RecordTypes
    <2>2. CASE StepBootstrap(c)
      BY <1>4, <1>5, <2>2 DEF StepBootstrap, Step
    <2>3. CASE StepTick(c)
      BY <1>1, <2>3 DEF StepTick, Step, decisionVars, resultVars
    <2>4. ASSUME NEW by \in {"token", "blind"}, StepConfirm(c, by) PROVE RecordTypes'
      BY <1>3, <2>4 DEF StepConfirm, Step
    <2>5. CASE ExecuteRefused(c)
      BY <1>0, <2>5 DEF ExecuteRefused, RecordTypes, resultVars
    <2>6. CASE Accept(c)
      BY <1>0, <2>6 DEF Accept, RecordTypes
    <2>7. QED
      BY <1>1, <1>6, <2>1, <2>2, <2>3, <2>4, <2>5, <2>6
      DEF Running, StepExecute, AdvanceEnds, ExecuteStarts, EngineStarts, EngineTicks, EngineEnds
  <1>7. ASSUME NEW c \in Callers, Answered(c) PROVE RecordTypes'
    <2>1. CASE ChiefProposes(c)
      BY <1>0, <2>1 DEF ChiefProposes, RecordTypes, resultVars
    <2>2. CASE ChiefDecides(c) /\ HasItems
      BY <1>0, <2>2 DEF ChiefDecides, RecordTypes
    <2>3. CASE ChiefDecides(c) /\ ~HasItems
      <3>1. /\ made < MaxRecords /\ Build(made + 1) /\ made' = made + 1 /\ ~pending'
            /\ pending' = FALSE /\ preview' = Empty /\ record' = NewRecord("auto-approved")
            /\ UNCHANGED <<restarts, seen, evidence, accepted>>
        BY <2>3 DEF ChiefDecides
      <3>2. made' \in 0 .. MaxRecords /\ built' \in 0 .. ByRequest
        BY <1>0, <3>1 DEF RecordTypes, Build
      <3>3. QED
        BY <1>0, <3>1, <3>2 DEF RecordTypes, Build
    <2>4. ASSUME NEW success \in BOOLEAN, Answer(c, success) PROVE RecordTypes'
      BY <1>0, <2>4 DEF Answer, RecordTypes, decisionVars
    <2>5. QED
      BY <1>1, <1>7, <2>1, <2>2, <2>3, <2>4
      DEF Answered, ChiefFails, AnswerDropped, AnswerRaises
  <1>8. CASE BootstrapRoute
    BY <1>4, <1>5, <1>8 DEF BootstrapRoute
  <1>9. CASE ReadPending
    BY <1>0, <1>9 DEF ReadPending, RecordTypes, resultVars, Record
  <1>10. CASE PreviewRoute
    BY <1>0, <1>10 DEF PreviewRoute, RecordTypes, resultVars
  <1>11. ASSUME NEW by \in {"token", "blind"}, NEW approved \in BOOLEAN, Confirm(by, approved)
         PROVE  RecordTypes'
    BY <1>3, <1>11 DEF Confirm
  <1>12. ASSUME NEW copy \in BOOLEAN, Restart(copy) PROVE RecordTypes'
    <2>1. record' \in Record
      BY <1>0, <1>12 DEF Restart, RecordTypes, Record
    <2>2. restarts' \in 0 .. MaxRestarts
      <3>1. restarts' = restarts + 1 /\ restarts < MaxRestarts
        BY <1>12 DEF Restart
      <3>2. QED
        BY <1>0, <3>1 DEF RecordTypes
    <2>3. /\ requirement' = "draft" /\ pending' = FALSE /\ preview' = Empty /\ sdd' = FALSE
          /\ evidence' = FALSE /\ accepted' = FALSE /\ built' = 0 /\ seen' = 0 /\ UNCHANGED made
      BY <1>12 DEF Restart, NoRecord
    <2>4. built' \in 0 .. ByRequest /\ seen' \in 0 .. MaxRecords /\ made' \in 0 .. MaxRecords
      BY <1>0, <2>3 DEF RecordTypes
    <2>5. QED
      BY <1>0, <2>1, <2>2, <2>3, <2>4 DEF RecordTypes
  <1>13. QED
    BY <1>1, <1>2, <1>6, <1>7, <1>8, <1>9, <1>10, <1>11, <1>12
    DEF Next, Interrupt, ManualTick, ManualComplete, Elsewhere

\* A coroutine that goes on holds the loop exactly when it does not await anything.
LEMMA CallerMoves ==
    ASSUME CallerTypes, NEW c \in Callers, loop \in {c, NoCaller}, NEW r \in Coroutine,
           co' = [co EXCEPT ![c] = r],
           loop' = IF r.pc \in {"idle", "chief", "await"} THEN NoCaller ELSE c
    PROVE  CallerTypes'
  BY LifecycleAssumption DEF CallerTypes

\* A handler that goes on with the rest of its stack keeps the types of all callers.
LEMMA ResumeTypes ==
    ASSUME CallerTypes, NEW c \in Callers, loop \in {c, NoCaller},
           NEW todo \in Seq({"advance", "execute", "accept"}), Resume(c, todo)
    PROVE  CallerTypes'
  <1>1. co \in [Callers -> Coroutine] /\ co[c] \in Coroutine
    BY DEF CallerTypes
  <1>2. CASE todo = <<>>
    <2>1. Idle \in Coroutine /\ Idle.pc = "idle"
      BY DEF Idle, Coroutine, Items
    <2>2. QED
      BY <1>2, <2>1, CallerMoves DEF Resume
  <1>3. CASE todo # <<>>
    <2> DEFINE r == [co[c] EXCEPT !.pc = Head(todo), !.todo = Tail(todo)]
    <2>1. Head(todo) \in {"advance", "execute", "accept"} /\ Tail(todo) \in Seq({"advance", "execute", "accept"})
      BY <1>3, HeadTailProperties
    <2>2. r \in Coroutine /\ r.pc = Head(todo)
      BY <1>1, <2>1 DEF Coroutine
    <2>3. co' = [co EXCEPT ![c] = r] /\ loop' = c
      BY <1>1, <1>3 DEF Resume
    <2> HIDE DEF r
    <2>4. QED
      BY <2>1, <2>2, <2>3, CallerMoves
  <1>4. QED
    BY <1>2, <1>3

\* The coroutines keep their types, and the loop is held by the one that runs.
LEMMA StepCallers ==
    ASSUME TypeOK, Next
    PROVE  CallerTypes'
  <1> DEFINE Segments == Seq({"advance", "execute", "accept"})
  <1>0. CallerTypes /\ \A c \in Callers : co[c] \in Coroutine
    BY DEF TypeOK, CallerTypes
  <1>1. /\ <<>> \in Segments /\ <<"execute">> \in Segments /\ <<"accept">> \in Segments
        /\ <<"advance">> \in Segments /\ <<"advance", "execute">> \in Segments
    OBVIOUS
  <1>2. \A c \in Callers : co[c].todo \in Segments
    BY <1>0 DEF Coroutine
  <1>3. ASSUME UNCHANGED <<co, loop>> PROVE CallerTypes'
    BY <1>0, <1>3 DEF CallerTypes
  <1>4. ASSUME NEW c \in Callers, loop \in {c, NoCaller}, NEW todo \in Segments, Resume(c, todo)
        PROVE  CallerTypes'
    BY <1>0, <1>4, ResumeTypes
  <1>5. ASSUME NEW c \in Callers, loop \in {c, NoCaller}, Return(c) PROVE CallerTypes'
    BY <1>2, <1>4, <1>5 DEF Return
  <1>6. ASSUME NEW c \in Callers, loop \in {c, NoCaller}, NEW pc \in {"chief", "advance"},
               NEW rest \in Segments, NEW auto \in BOOLEAN,
               co' = [co EXCEPT ![c] = [Idle EXCEPT !.pc = pc, !.todo = rest, !.auto = auto]],
               loop' = IF pc = "chief" THEN NoCaller ELSE c
        PROVE  CallerTypes'
    <2> DEFINE r == [Idle EXCEPT !.pc = pc, !.todo = rest, !.auto = auto]
    <2>1. r \in Coroutine /\ r.pc = pc
      BY DEF Coroutine, Idle, Items
    <2>2. co' = [co EXCEPT ![c] = r]
      BY <1>6
    <2> HIDE DEF r
    <2>3. QED
      BY <1>0, <1>6, <2>1, <2>2, CallerMoves
  <1>7. ASSUME NEW c \in Callers, loop \in {c, NoCaller}, NEW todo \in Segments,
               co' = [co EXCEPT ![c].pc = "engine", ![c].todo = todo], loop' = c
        PROVE  CallerTypes'
    <2> DEFINE r == [co[c] EXCEPT !.pc = "engine", !.todo = todo]
    <2>1. r \in Coroutine /\ r.pc = "engine"
      BY <1>0 DEF Coroutine
    <2>2. co' = [co EXCEPT ![c] = r]
      BY <1>0, <1>7 DEF CallerTypes
    <2> HIDE DEF r
    <2>3. QED
      BY <1>0, <1>7, <2>1, <2>2, CallerMoves
  <1>8. ASSUME NEW c \in Callers, Request(c) PROVE CallerTypes'
    <2>0. ASSUME Free PROVE loop = NoCaller
      BY <2>0 DEF Free
    <2>1. ASSUME NEW rest \in Segments, NEW auto \in BOOLEAN, NEW ambiguous \in BOOLEAN, Free,
                 StartDecompose(c, rest, auto, ambiguous)
          PROVE  CallerTypes'
      BY <1>3, <1>6, <2>0, <2>1 DEF StartDecompose
    <2>2. ASSUME NEW ambiguous \in BOOLEAN, Decompose(c, ambiguous) PROVE CallerTypes'
      BY <1>1, <2>1, <2>2 DEF Decompose
    <2>3. ASSUME NEW auto \in BOOLEAN, Advance(c, auto) PROVE CallerTypes'
      <3> DEFINE r == [Idle EXCEPT !.pc = "advance", !.auto = auto]
      <3>1. r \in Coroutine /\ r.pc = "advance"
        BY <1>1 DEF Coroutine, Idle, Items
      <3>2. co' = [co EXCEPT ![c] = r] /\ loop = NoCaller /\ loop' = c
        BY <2>3 DEF Advance, Free
      <3> HIDE DEF r
      <3>3. QED
        BY <1>0, <3>1, <3>2, CallerMoves
    <2>4. ASSUME NEW auto \in BOOLEAN, ExecuteAuto(c, auto) PROVE CallerTypes'
      BY <1>1, <1>6, <2>0, <2>4 DEF ExecuteAuto
    <2>5. CASE Execute(c)
      BY <1>1, <1>4, <2>0, <2>5 DEF Execute
    <2>6. ASSUME NEW force \in BOOLEAN, NEW auto \in BOOLEAN, NEW ambiguous \in BOOLEAN,
                 Orchestrate(c, force, auto, ambiguous)
          PROVE  CallerTypes'
      BY <1>1, <1>6, <2>0, <2>1, <2>6 DEF Orchestrate
    <2>7. QED
      BY <1>8, <2>2, <2>3, <2>4, <2>5, <2>6 DEF Request
  <1>9. ASSUME NEW c \in Callers, Running(c) PROVE CallerTypes'
    <2>0. ASSUME NEW p, At(c, p) PROVE loop = c
      BY <2>0 DEF At
    <2>1. CASE StepExecute(c)
      <3>1. <<"advance">> \o co[c].todo \in Segments
        BY <1>1, <1>2, ConcatProperties
      <3>2. co' = [co EXCEPT ![c].pc = "engine", ![c].todo = <<"advance">> \o co[c].todo]
        BY <1>0, <2>1 DEF StepExecute, CallerTypes, Coroutine
      <3>3. QED
        BY <1>7, <2>0, <2>1, <3>1, <3>2 DEF StepExecute
    <2>2. CASE ExecuteStarts(c)
      BY <1>1, <1>7, <2>0, <2>2 DEF ExecuteStarts
    <2>3. ASSUME NEW i \in Items, EngineStarts(c, i) PROVE CallerTypes'
      <3> DEFINE r == [co[c] EXCEPT !.pc = "await", !.item = i]
      <3>1. r \in Coroutine /\ r.pc = "await"
        BY <1>0 DEF Coroutine
      <3>2. co' = [co EXCEPT ![c] = r] /\ loop = c /\ loop' = NoCaller
        BY <1>0, <2>0, <2>3 DEF EngineStarts, CallerTypes
      <3> HIDE DEF r
      <3>3. QED
        BY <1>0, <3>1, <3>2, CallerMoves
    <2>4. CASE AdvanceEnds(c) \/ EngineEnds(c) \/ EngineTicks(c) \/ Accept(c)
      BY <1>3, <1>5, <2>0, <2>4 DEF AdvanceEnds, EngineEnds, EngineTicks, Accept
    <2>5. CASE ExecuteRefused(c)
      BY <1>1, <1>4, <2>0, <2>5 DEF ExecuteRefused
    <2>6. QED
      BY <1>3, <1>9, <2>1, <2>2, <2>3, <2>4, <2>5
      DEF Running, StepPreview, StepBootstrap, StepTick, StepConfirm, Step
  <1>10. ASSUME NEW c \in Callers, Answered(c) PROVE CallerTypes'
    <2>0. loop = NoCaller
      BY <1>10 DEF Answered, ChiefFails, ChiefProposes, ChiefDecides, AnswerDropped, AnswerRaises, Answer, Free
    <2>1. CASE ChiefFails(c) \/ ChiefProposes(c) \/ ChiefDecides(c)
      BY <1>1, <1>4, <1>5, <2>0, <2>1 DEF ChiefFails, ChiefProposes, ChiefDecides
    <2>2. CASE AnswerRaises(c)
      <3>1. co[c].todo # <<>> => Tail(co[c].todo) \in Segments
        BY <1>2, HeadTailProperties
      <3>2. QED
        BY <1>1, <1>4, <2>0, <2>2, <3>1 DEF AnswerRaises, Raise
    <2>3. ASSUME co' = [co EXCEPT ![c].pc = "engine"], loop' = c PROVE CallerTypes'
      <3>1. co' = [co EXCEPT ![c].pc = "engine", ![c].todo = co[c].todo]
        BY <1>0, <2>3 DEF CallerTypes, Coroutine
      <3>2. QED
        BY <1>2, <1>7, <2>0, <2>3, <3>1
    <2>4. QED
      BY <1>10, <2>1, <2>2, <2>3 DEF Answered, AnswerDropped, Answer
  <1>11. ASSUME BootstrapRoute \/ ReadPending \/ PreviewRoute \/ Interrupt \/ ManualTick \/ ManualComplete
         PROVE  CallerTypes'
    BY <1>3, <1>11 DEF BootstrapRoute, ReadPending, PreviewRoute, Interrupt, ManualTick, ManualComplete, Elsewhere
  <1>12. ASSUME NEW by \in {"token", "blind"}, NEW approved \in BOOLEAN, Confirm(by, approved)
         PROVE  CallerTypes'
    BY <1>3, <1>12 DEF Confirm
  <1>13. ASSUME NEW copy \in BOOLEAN, Restart(copy) PROVE CallerTypes'
    BY <1>3, <1>13 DEF Restart
  <1>14. QED
    BY <1>8, <1>9, <1>10, <1>11, <1>12, <1>13 DEF Next

\* Every step keeps every type.
LEMMA StepTypes ==
    ASSUME TypeOK, Whole, Next
    PROVE  TypeOK'
  <1>1. Scheduler!TypeOK' /\ RecordTypes' /\ CallerTypes'
    BY StepScheduler, StepRecords, StepCallers
  <1>2. ({sdd, pending, evidence, accepted} \subseteq BOOLEAN)'
    BY <1>1 DEF RecordTypes
  <1>3. QED
    BY <1>1, <1>2 DEF RecordTypes, CallerTypes, TypeOK

\* An acceptance changes no more than the status of the run, and calls it blocked only.
LEMMA AcceptEffects ==
    ASSUME TypeOK, NEW c \in Callers, Accept(c)
    PROVE  /\ UNCHANGED <<runOf, status, record, made, built, evidence>>
           /\ runStatus'[Run] \in {runStatus[Run], "blocked"}
           /\ Canceled => Canceled'
           /\ accepted' => evidence' /\ runStatus[Run] = "succeeded"
  BY DEF Accept, TypeOK, Scheduler!TypeOK, Canceled

\* The pipeline is built as a whole.
LEMMA StepWhole ==
    ASSUME TypeOK, Whole, Next
    PROVE  Whole'
  <1>1. ASSUME UNCHANGED runOf PROVE Whole'
    BY <1>1 DEF Whole, HasItems
  <1>2. ASSUME NEW from, Build(from) PROVE Whole'
    BY <1>2, BuildTypes DEF Whole
  <1>3. Scheduler!TypeOK
    BY DEF TypeOK
  <1>4. CASE Kept
    BY <1>1, <1>2, <1>3, <1>4, CallEffects, AcceptEffects DEF Kept, schedulerVars
  <1>5. CASE Decision
    BY <1>1, <1>2, <1>5 DEF Decision, ApproveDecomposition, RejectDecomposition, schedulerVars
  <1>6. ASSUME NEW c \in Callers, ChiefProposes(c) \/ (ChiefDecides(c) /\ ~HasItems) PROVE Whole'
    BY <1>1, <1>2, <1>6 DEF ChiefProposes, ChiefDecides, schedulerVars
  <1>7. ASSUME NEW copy \in BOOLEAN, Restart(copy) PROVE Whole'
    BY <1>7, RestartTypes, LifecycleAssumption DEF Whole, HasItems
  <1>8. QED
    BY <1>4, <1>5, <1>6, <1>7, Effects

\* What a new record is like.
LEMMA NewRecordFacts ==
    ASSUME TypeOK, NEW confirmation, NewRecord(confirmation) = record', made' = made + 1
    PROVE  /\ record'.id = made' /\ record'.id # NoRecord /\ record'.confirmation = confirmation
           /\ ~record'.copied /\ record'.by = "none" /\ (Numbered => record'.id > record.id)
  BY LifecycleAssumption DEF NewRecord, NoRecord, TypeOK, Record, Numbered

\* The record keeps its number and its origin while it is decided on.
LEMMA DecisionFacts ==
    ASSUME TypeOK, Decision
    PROVE  /\ record'.id = record.id /\ record'.copied = record.copied /\ UNCHANGED made
           /\ AwaitsDecision /\ record # Empty /\ record' # Empty
           /\ \/ UNCHANGED <<schedulerVars, built>> /\ record'.confirmation \in {"pending", "rejected"}
              \/ ~HasItems /\ Build(record.id) /\ record'.confirmation = "approved"
           /\ record'.by = "token" => seen = record.id
  <1>1. record \in Record
    BY DEF TypeOK
  <1>2. PICK by \in {"token", "blind"} :
            MayDecide(by) /\ (ApproveDecomposition(by) \/ RejectDecomposition(by)) /\ UNCHANGED made
    BY DEF Decision
  <1>3. record.confirmation = "pending" /\ AwaitsDecision /\ (by = "token" => seen = record.id)
    BY <1>2 DEF MayDecide, AwaitsDecision
  <1>4. /\ record' \in {[record EXCEPT !.by = by], [record EXCEPT !.by = by, !.confirmation = "approved"],
                        [record EXCEPT !.by = by, !.confirmation = "rejected"]}
        /\ \/ UNCHANGED <<schedulerVars, built>> /\ record' # [record EXCEPT !.by = by, !.confirmation = "approved"]
           \/ ~HasItems /\ Build(record.id) /\ record' = [record EXCEPT !.by = by, !.confirmation = "approved"]
    <2>1. [record EXCEPT !.by = by, !.confirmation = "approved"] # [record EXCEPT !.by = by]
      BY <1>1, <1>3 DEF Record
    <2>2. [record EXCEPT !.by = by, !.confirmation = "approved"]
             # [record EXCEPT !.by = by, !.confirmation = "rejected"]
      BY <1>1 DEF Record
    <2>3. QED
      BY <1>2, <2>1, <2>2 DEF ApproveDecomposition, RejectDecomposition
  <1>5. record'.by = by /\ record'.id = record.id /\ record'.copied = record.copied
    BY <1>1, <1>4 DEF Record
  <1>6. /\ record'.confirmation \in {"pending", "approved", "rejected"}
        /\ record'.confirmation = "approved" => record' = [record EXCEPT !.by = by, !.confirmation = "approved"]
        /\ record' = [record EXCEPT !.by = by, !.confirmation = "approved"] => record'.confirmation = "approved"
    BY <1>1, <1>3, <1>4 DEF Record
  <1>7. record # Empty /\ record' # Empty
    BY <1>3, <1>6 DEF Empty
  <1>8. QED
    BY <1>2, <1>3, <1>4, <1>5, <1>6, <1>7

\* Decompositions get greater numbers, a decision and a copy keep theirs.
LEMMA StepNumbered ==
    ASSUME TypeOK, Numbered, Next
    PROVE  Numbered'
  <1>1. record \in Record /\ made \in 0 .. MaxRecords /\ MaxRecords \in Nat /\ Empty.id = 0
    BY LifecycleAssumption DEF TypeOK, Empty, NoRecord
  <1>2. CASE Kept
    BY <1>2 DEF Kept, Numbered
  <1>3. CASE Decision
    BY <1>3, DecisionFacts DEF Numbered
  <1>4. ASSUME NEW confirmation, NewRecord(confirmation) = record', made' = made + 1 PROVE Numbered'
    BY <1>1, <1>4, NewRecordFacts DEF Numbered
  <1>5. ASSUME NEW c \in Callers, ChiefProposes(c) \/ (ChiefDecides(c) /\ ~HasItems) PROVE Numbered'
    BY <1>4, <1>5 DEF ChiefProposes, ChiefDecides
  <1>6. ASSUME NEW copy \in BOOLEAN, Restart(copy) PROVE Numbered'
    <2>1. CASE record' = Empty
      BY <1>1, <1>6, <2>1 DEF Restart, Numbered
    <2>2. CASE record # Empty /\ record' = [record EXCEPT !.copied = TRUE]
      <3>1. record'.id = record.id
        BY <1>1, <2>2 DEF Record
      <3>2. QED
        BY <1>6, <2>2, <3>1 DEF Restart, Numbered
    <2>3. QED
      BY <1>6, <2>1, <2>2 DEF Restart
  <1>7. QED
    BY <1>2, <1>3, <1>5, <1>6, Effects

\* Once there is a pipeline nothing is built any more, and each record that says approved
\* is written together with its pipeline.
LEMMA StepApproved ==
    ASSUME TypeOK, ApprovedStands, Next
    PROVE  ApprovedStands'
  <1>1. record \in Record
    BY DEF TypeOK
  <1>2. Scheduler!TypeOK
    BY DEF TypeOK
  <1>3. ASSUME UNCHANGED <<record, built, runOf>> PROVE ApprovedStands'
    BY <1>3 DEF ApprovedStands, HasItems
  <1>4. CASE Kept
    <2>1. ASSUME Called PROVE UNCHANGED runOf
      BY <1>2, <2>1, LifecycleAssumption DEF Called, Scheduler!Tick, Scheduler!StartWorkItem,
         Scheduler!CompleteWorkItem, Scheduler!InterruptRun, Scheduler!Move, Scheduler!itemVars
    <2>2. CASE ~HasItems
      BY <1>4, <1>3, <2>1, <2>2, AcceptEffects DEF Kept, ApprovedStands, schedulerVars
    <2>3. CASE HasItems
      BY <1>4, <1>3, <2>1, <2>3, AcceptEffects DEF Kept, schedulerVars
    <2>4. QED
      BY <2>2, <2>3
  <1>5. CASE Decision
    BY <1>5, DecisionFacts, BuildTypes DEF ApprovedStands
  <1>6. ASSUME NEW c \in Callers, ChiefProposes(c) PROVE ApprovedStands'
    <2>1. record'.confirmation = "pending"
      BY <1>6, NewRecordFacts DEF ChiefProposes
    <2>2. QED
      BY <2>1 DEF ApprovedStands
  <1>7. ASSUME NEW c \in Callers, ChiefDecides(c), ~HasItems PROVE ApprovedStands'
    <2>1. record' = NewRecord("auto-approved") /\ made' = made + 1 /\ Build(made + 1)
      BY <1>7 DEF ChiefDecides
    <2>2. QED
      BY <2>1, NewRecordFacts, BuildTypes DEF ApprovedStands
  <1>8. ASSUME NEW copy \in BOOLEAN, Restart(copy) PROVE ApprovedStands'
    <2>1. record'.copied \/ record'.confirmation = "none"
      BY <1>1, <1>8 DEF Restart, Record, Empty
    <2>2. QED
      BY <2>1 DEF ApprovedStands
  <1>9. QED
    BY <1>4, <1>5, <1>6, <1>7, <1>8, Effects

\* Only the rule of the run status says succeeded, and nothing is added to a run later.
LEMMA StepSucceeded ==
    ASSUME TypeOK, Whole, SucceededIsDone, Next
    PROVE  SucceededIsDone'
  <1>1. Scheduler!TypeOK /\ "work" \in Items
    BY DEF TypeOK, Items
  <1>2. ASSUME UNCHANGED schedulerVars PROVE SucceededIsDone'
    BY <1>2 DEF SucceededIsDone, schedulerVars
  <1>3. ASSUME ~HasItems, NEW from, Build(from) PROVE SucceededIsDone'
    BY <1>1, <1>3, BuildTypes DEF SucceededIsDone, HasItems
  <1>4. ASSUME NEW c \in Callers, Accept(c) PROVE SucceededIsDone'
    <2>1. UNCHANGED <<runOf, status>> /\ runStatus'[Run] \in {runStatus[Run], "blocked"}
      BY <1>4, AcceptEffects
    <2>2. QED
      BY <2>1 DEF SucceededIsDone
  <1>5. CASE Kept
    BY <1>1, <1>2, <1>3, <1>4, <1>5, CallEffects DEF Kept
  <1>6. CASE Decision
    BY <1>2, <1>3, <1>6, DecisionFacts
  <1>7. ASSUME NEW c \in Callers, ChiefProposes(c) \/ (ChiefDecides(c) /\ ~HasItems) PROVE SucceededIsDone'
    BY <1>2, <1>3, <1>7 DEF ChiefProposes, ChiefDecides
  <1>8. ASSUME NEW copy \in BOOLEAN, Restart(copy) PROVE SucceededIsDone'
    BY <1>8, RestartTypes DEF SucceededIsDone
  <1>9. QED
    BY <1>5, <1>6, <1>7, <1>8, Effects

\* Apart from a restart, the evidence and what is done stay, and only an acceptance accepts.
LEMMA EvidenceStays ==
    ASSUME TypeOK, Next
    PROVE  \/ UNCHANGED accepted /\ (evidence => evidence')
           \/ \E c \in Callers : Accept(c)
           \/ \E copy \in BOOLEAN : Restart(copy)
  <1>1. ASSUME NEW c \in Callers, Request(c) PROVE UNCHANGED resultVars
    BY <1>1 DEF Request, Decompose, StartDecompose, Advance, ExecuteAuto, Execute, Orchestrate
  <1>2. ASSUME NEW c \in Callers, Running(c) PROVE UNCHANGED <<evidence, accepted>> \/ Accept(c)
    BY <1>2 DEF Running, StepPreview, StepBootstrap, StepTick, StepConfirm, Step, StepExecute, AdvanceEnds,
       ExecuteStarts, ExecuteRefused, EngineStarts, EngineTicks, EngineEnds, resultVars
  <1>3. ASSUME NEW c \in Callers, Answered(c) PROVE UNCHANGED accepted /\ (evidence => evidence')
    <2>1. ASSUME NEW success \in BOOLEAN, Answer(c, success) PROVE UNCHANGED accepted /\ (evidence => evidence')
      <3>1. UNCHANGED accepted /\ evidence' = (evidence \/ (success /\ co[c].item = "release"))
        BY <2>1 DEF Answer
      <3>2. QED
        BY <3>1
    <2>2. CASE ChiefDecides(c)
      <3>1. UNCHANGED <<evidence, accepted>>
        BY <2>2 DEF ChiefDecides
      <3>2. QED
        BY <3>1
    <2>3. CASE ChiefFails(c) \/ ChiefProposes(c) \/ AnswerDropped(c) \/ AnswerRaises(c)
      <3>1. UNCHANGED <<evidence, accepted>>
        BY <2>3 DEF ChiefFails, ChiefProposes, AnswerDropped, AnswerRaises, resultVars
      <3>2. QED
        BY <3>1
    <2>4. QED
      BY <1>3, <2>1, <2>2, <2>3 DEF Answered
  <1>4. QED
    BY <1>1, <1>2, <1>3 DEF Next, BootstrapRoute, ReadPending, PreviewRoute, Confirm, Interrupt, ManualTick,
       ManualComplete, Elsewhere, resultVars

\* What is done stays done, until the restart.
LEMMA DoneStays ==
    ASSUME TypeOK, Whole, Next
    PROVE  \/ \A i \in Items : status[i] \in Scheduler!Done => status'[i] \in Scheduler!Done
           \/ \E copy \in BOOLEAN : Restart(copy)
  <1>1. Scheduler!TypeOK
    BY DEF TypeOK
  <1>2. CASE Kept
    BY <1>1, <1>2, CallEffects, BuildTypes, AcceptEffects DEF Kept, schedulerVars
  <1>3. CASE Decision
    BY <1>3, DecisionFacts, BuildTypes DEF schedulerVars
  <1>4. ASSUME NEW c \in Callers, ChiefProposes(c) \/ (ChiefDecides(c) /\ ~HasItems)
        PROVE  UNCHANGED status
    BY <1>4, BuildTypes DEF ChiefProposes, ChiefDecides, schedulerVars
  <1>5. QED
    BY <1>2, <1>3, <1>4, Effects

\* The acceptance looks at the run and at the evidence; neither is taken back.
LEMMA StepAccepted ==
    ASSUME TypeOK, Whole, SucceededIsDone, AcceptedSound, Next
    PROVE  AcceptedSound'
  <1>1. ASSUME NEW c \in Callers, Accept(c) PROVE AcceptedSound'
    BY <1>1, AcceptEffects DEF AcceptedSound, SucceededIsDone
  <1>2. ASSUME NEW copy \in BOOLEAN, Restart(copy) PROVE AcceptedSound'
    BY <1>2, RestartTypes DEF AcceptedSound
  <1>3. QED
    BY <1>1, <1>2, EvidenceStays, DoneStays DEF AcceptedSound

-----------------------------------------------------------------------------
(* The theorems                                                            *)

\* A run begins without a decomposition and without a pipeline.
LEMMA InitLifecycle ==
    ASSUME Init
    PROVE  LifecycleInv
  <1>1. Scheduler!TypeOK
    BY DEF Init, Scheduler!TypeOK, Scheduler!RunStatus, Scheduler!ItemStatus, Scheduler!Rounds
  <1>2. /\ Empty \in Record /\ Idle \in Coroutine /\ Empty.id = 0 /\ Empty.confirmation = "none"
        /\ MaxRecords \in Nat /\ MaxRestarts \in Nat /\ ByRequest = MaxRecords + 1
    BY LifecycleAssumption DEF Empty, Idle, Record, Coroutine, NoRecord, ByRequest, Items
  <1>3. RecordTypes
    <2>1. built \in 0 .. ByRequest /\ made \in 0 .. MaxRecords /\ restarts \in 0 .. MaxRestarts /\ seen \in 0 .. MaxRecords
      BY <1>2 DEF Init, NoRecord
    <2>2. /\ requirement = "draft" /\ record = Empty /\ preview = Empty /\ pending = FALSE
          /\ sdd = FALSE /\ evidence = FALSE /\ accepted = FALSE
      BY DEF Init
    <2>3. QED
      BY <1>2, <2>1, <2>2 DEF RecordTypes
  <1>4. CallerTypes
    BY <1>2, LifecycleAssumption DEF Init, CallerTypes, Idle
  <1>5. TypeOK
    <2>1. {sdd, pending, evidence, accepted} \subseteq BOOLEAN
      BY <1>3 DEF RecordTypes
    <2>2. QED
      BY <1>1, <1>3, <1>4, <2>1 DEF TypeOK, RecordTypes, CallerTypes
  <1>6. Whole /\ SucceededIsDone /\ AcceptedSound
    BY LifecycleAssumption DEF Init, Whole, HasItems, SucceededIsDone, AcceptedSound
  <1>7. Numbered /\ ApprovedStands
    BY <1>2 DEF Init, Numbered, ApprovedStands, NoRecord
  <1>8. QED
    BY <1>5, <1>6, <1>7 DEF LifecycleInv

\* Every step keeps the invariant.
LEMMA LifecycleStep ==
    ASSUME LifecycleInv, Next
    PROVE  LifecycleInv'
  BY StepTypes, StepWhole, StepNumbered, StepApproved, StepSucceeded, StepAccepted DEF LifecycleInv

\* And so does a step of somebody else.
LEMMA LifecycleStutter ==
    ASSUME LifecycleInv, UNCHANGED vars
    PROVE  LifecycleInv'
  <1>1. Scheduler!TypeOK'
    BY DEF LifecycleInv, TypeOK, vars, schedulerVars, Scheduler!TypeOK
  <1>2. TypeOK'
    BY <1>1 DEF LifecycleInv, TypeOK, vars, decisionVars, resultVars
  <1>3. QED
    BY <1>2 DEF LifecycleInv, Whole, HasItems, Numbered, ApprovedStands, SucceededIsDone,
       AcceptedSound, vars, schedulerVars, decisionVars, resultVars

\* The invariant is inductive.
LEMMA LifecycleInvariance == Spec => []LifecycleInv
  <1>1. Init => LifecycleInv
    BY InitLifecycle
  <1>2. LifecycleInv /\ [Next]_vars => LifecycleInv'
    BY LifecycleStep, LifecycleStutter
  <1>3. QED
    BY <1>1, <1>2, PTL DEF Spec

\* Whatever clients, chief architect and executors do, every variable keeps its type and
\* the event loop is held by the coroutine that runs, and by no other.
THEOREM LifecycleTypeCorrect == Spec => []TypeOK
  <1>1. LifecycleInv => TypeOK
    BY DEF LifecycleInv
  <1>2. QED
    BY <1>1, LifecycleInvariance, PTL

\* A decomposition that says it was approved is the one the items of the run were built
\* from, however many decompositions are made and confirmed at the same time
\* (confirm_decompose_bootstrap_workflow_run, bootstrap_standard_pipeline).
THEOREM ApprovalMeansBuilt == Spec => []ApprovedIsBuilt
  <1>1. LifecycleInv => ApprovedIsBuilt
    BY DEF LifecycleInv, ApprovedStands, ApprovedIsBuilt
  <1>2. QED
    BY <1>1, LifecycleInvariance, PTL

\* An accepted run has its evidence and a pipeline that is done, and keeps them
\* (_update_stage_and_acceptance_after_execute on the run as it is after the last await).
THEOREM AcceptanceSound == Spec => []AcceptedSound
  <1>1. LifecycleInv => AcceptedSound
    BY DEF LifecycleInv
  <1>2. QED
    BY <1>1, LifecycleInvariance, PTL

\* A decision is taken once, and one with a token is about the decomposition its sender
\* has read, although the record is replaced by every decomposition that arrives.
THEOREM DecisionsAreSound == Spec => DecisionIsSound
  <1> DEFINE Sound ==
         /\ record'.id = record.id /\ record.confirmation \in Decided
               => record'.confirmation = record.confirmation
         /\ record'.by = "token" /\ record.by # "token" /\ restarts' = restarts => seen = record.id
  <1>1. ASSUME LifecycleInv, [Next]_vars PROVE [Sound]_vars
    <2>0. TypeOK /\ Numbered /\ record \in Record
      BY <1>1 DEF LifecycleInv, TypeOK
    <2>1. CASE UNCHANGED vars
      BY <2>1
    <2>2. CASE UNCHANGED record
      BY <2>2
    <2>3. CASE Decision
      <3>1. record.confirmation \notin Decided
        BY <2>0, <2>3, DecisionFacts DEF AwaitsDecision, Decided
      <3>2. QED
        BY <2>0, <2>3, <3>1, DecisionFacts
    <2>4. ASSUME NEW confirmation, NewRecord(confirmation) = record', made' = made + 1 PROVE Sound
      <3>1. record'.id > record.id /\ record'.by = "none"
        BY <2>0, <2>4, NewRecordFacts
      <3>2. record'.id # record.id
        BY <2>0, <3>1, <2>4, NewRecordFacts DEF Record, TypeOK
      <3>3. QED
        BY <3>1, <3>2
    <2>5. ASSUME NEW c \in Callers, ChiefProposes(c) \/ (ChiefDecides(c) /\ ~HasItems) PROVE Sound
      BY <2>4, <2>5 DEF ChiefProposes, ChiefDecides
    <2>6. ASSUME NEW copy \in BOOLEAN, Restart(copy) PROVE Sound
      <3>1. restarts' # restarts
        BY <2>0, <2>6 DEF Restart, TypeOK
      <3>2. CASE record # Empty /\ record' = [record EXCEPT !.copied = TRUE]
        BY <2>0, <3>1, <3>2 DEF Record
      <3>3. CASE record' = Empty
        <4>1. record'.id = record.id => record.confirmation = "none"
          BY <2>0, <3>3 DEF Numbered, Empty
        <4>2. QED
          BY <3>1, <4>1 DEF Decided
      <3>4. QED
        BY <2>6, <3>2, <3>3 DEF Restart
    <2> HIDE DEF Sound
    <2>7. QED
      BY <1>1, <2>0, <2>1, <2>2, <2>3, <2>5, <2>6, Effects DEF Kept
  <1>2. QED
    BY <1>1, LifecycleInvariance, PTL DEF Spec, DecisionIsSound

\* A canceled run stays canceled, whatever was under way when it was canceled; the only
\* way on is a restart, which is a new run.
THEOREM CancellationStands == Spec => CanceledStays
  <1>1. ASSUME LifecycleInv, [Next]_vars
        PROVE  [Canceled /\ restarts' = restarts => Canceled']_vars
    <2>0. TypeOK /\ Whole /\ Scheduler!TypeOK
      BY <1>1 DEF LifecycleInv, TypeOK
    <2>1. ASSUME UNCHANGED runStatus, Canceled PROVE Canceled'
      BY <2>1 DEF Canceled
    <2>2. ASSUME Kept, Canceled PROVE Canceled'
      BY <2>0, <2>1, <2>2, CallEffects, AcceptEffects DEF Kept, schedulerVars, Build
    <2>3. ASSUME Decision PROVE UNCHANGED runStatus
      BY <2>0, <2>3, DecisionFacts DEF Build, schedulerVars
    <2>4. ASSUME NEW c \in Callers, ChiefProposes(c) \/ (ChiefDecides(c) /\ ~HasItems) PROVE UNCHANGED runStatus
      BY <2>4 DEF ChiefProposes, ChiefDecides, Build, schedulerVars
    <2>5. ASSUME NEW copy \in BOOLEAN, Restart(copy) PROVE restarts' # restarts
      BY <2>0, <2>5 DEF Restart, TypeOK
    <2>6. QED
      BY <1>1, <2>0, <2>1, <2>2, <2>3, <2>4, <2>5, Effects
  <1>2. QED
    BY <1>1, LifecycleInvariance, PTL DEF Spec, CanceledStays

-----------------------------------------------------------------------------
(* The advice                                                                  *)

\* What the decision table knows of.
AllStrategies == {"speed", "balanced", "safe"}

\* Priorities and confidences are numbers.
LEMMA ScoreTypes ==
    ASSUME NEW strategy \in AllStrategies, NEW a \in Actions
    PROVE  Score(strategy, a)[1] \in Int /\ Score(strategy, a)[2] \in Int
  BY DEF AllStrategies, Actions, Score, Base, Adjustment, Between

\* No strategy gives two actions the same priority and the same confidence.
LEMMA ScoresDiffer ==
    ASSUME NEW strategy \in AllStrategies, NEW a \in Actions, NEW b \in Actions, a # b
    PROVE  Score(strategy, a)[1] = Score(strategy, b)[1] => Score(strategy, a)[2] # Score(strategy, b)[2]
  <1>1. CASE strategy = "speed"
    BY <1>1 DEF Actions, Score, Base, Adjustment, Between
  <1>2. CASE strategy = "balanced"
    BY <1>2 DEF Actions, Score, Base, Adjustment, Between
  <1>3. CASE strategy = "safe"
    BY <1>3 DEF Actions, Score, Base, Adjustment, Between
  <1>4. QED
    BY <1>1, <1>2, <1>3 DEF AllStrategies

\* So the actions are strictly and totally ordered.
LEMMA BeforeOrders ==
    ASSUME NEW strategy \in AllStrategies, NEW a \in Actions, NEW b \in Actions
    PROVE  /\ a # b => Before(strategy, a, b) \/ Before(strategy, b, a)
           /\ Before(strategy, a, b) => ~Before(strategy, b, a)
           /\ \A c \in Actions : Before(strategy, a, b) /\ Before(strategy, b, c) => Before(strategy, a, c)
  <1> DEFINE p(x) == Score(strategy, x)[1]
             q(x) == Score(strategy, x)[2]
  <1>1. \A x \in Actions : p(x) \in Int /\ q(x) \in Int
    BY ScoreTypes
  <1>2. a # b => p(a) # p(b) \/ q(a) # q(b)
    BY ScoresDiffer
  <1>3. \A x \in Actions, y \in Actions :
           Before(strategy, x, y) <=> p(x) < p(y) \/ (p(x) = p(y) /\ q(x) > q(y))
    BY DEF Before
  <1> HIDE DEF p, q
  <1>4. a # b => Before(strategy, a, b) \/ Before(strategy, b, a)
    BY <1>1, <1>2, <1>3
  <1>5. Before(strategy, a, b) => ~Before(strategy, b, a)
    BY <1>1, <1>3
  <1>6. \A c \in Actions : Before(strategy, a, b) /\ Before(strategy, b, c) => Before(strategy, a, c)
    BY <1>1, <1>3
  <1>7. QED
    BY <1>4, <1>5, <1>6

\* The restart comes before everything, but for the token under strategy "safe".
LEMMA RestartFirst ==
    ASSUME NEW strategy \in AllStrategies, NEW b \in Actions, b # "restart_workflow_run"
    PROVE  \/ Before(strategy, "restart_workflow_run", b)
           \/ strategy = "safe" /\ b = "reconfirm_with_latest_token"
  <1>1. CASE strategy = "speed"
    BY <1>1 DEF Before, Actions, Score, Base, Adjustment, Between
  <1>2. CASE strategy = "balanced"
    BY <1>2 DEF Before, Actions, Score, Base, Adjustment, Between
  <1>3. CASE strategy = "safe"
    BY <1>3 DEF Before, Actions, Score, Base, Adjustment, Between
  <1>4. QED
    BY <1>1, <1>2, <1>3 DEF AllStrategies

\* What comes before all others.
Least(strategy, C, m) == m \in C /\ \A b \in C \ {m} : Before(strategy, m, b)

\* One proposal more does not leave a report without a primary one.
LEMMA LeastOfMore ==
    ASSUME NEW strategy \in AllStrategies, NEW C \in SUBSET Actions, \E m \in C : Least(strategy, C, m),
           NEW x \in Actions
    PROVE  \E m \in C \cup {x} : Least(strategy, C \cup {x}, m)
  <1>1. PICK m \in C : Least(strategy, C, m)
    OBVIOUS
  <1>2. CASE m = x \/ Before(strategy, m, x)
    BY <1>1, <1>2 DEF Least
  <1>3. CASE m # x /\ Before(strategy, x, m)
    <2>1. \A b \in C \ {m} : Before(strategy, x, b)
      BY <1>1, <1>3, BeforeOrders DEF Least
    <2>2. QED
      BY <1>3, <2>1 DEF Least
  <1>4. QED
    BY <1>2, <1>3, BeforeOrders

\* Every report has a primary action, and it comes before its other proposals.
LEMMA PrimaryIsLeast ==
    ASSUME NEW strategy \in AllStrategies, NEW reason, Hint \in Actions
    PROVE  Least(strategy, Candidates(reason), Primary(strategy, reason))
  <1> DEFINE C0 == {Hint}
             C1 == C0 \cup (IF reason = "requirements" THEN {"retry_with_decompose_payload"} ELSE {})
             C2 == C1 \cup (IF reason = "force" THEN {"disable_force_redecompose"} ELSE {})
             C3 == C2 \cup (IF reason = "token" THEN {"reconfirm_with_latest_token"} ELSE {})
             C4 == C3 \cup (IF Canceled THEN {"restart_workflow_run"} ELSE {})
             C5 == C4 \cup (IF AwaitsDecision THEN {"reconfirm_decomposition"} ELSE {})
             C6 == C5 \cup (IF Stale THEN {"refresh_preview"} ELSE {})
             Has(C) == C \in SUBSET Actions /\ \E m \in C : Least(strategy, C, m)
  <1>1. Has(C0)
    BY DEF Least
  <1>2. ASSUME NEW C, Has(C), NEW x \in Actions, NEW when PROVE Has(C \cup (IF when THEN {x} ELSE {}))
    <2>1. CASE when
      BY <1>2, <2>1, LeastOfMore
    <2>2. CASE ~when
      <3>1. C \cup {} = C
        OBVIOUS
      <3>2. QED
        BY <1>2, <2>2, <3>1
    <2>3. QED
      BY <2>1, <2>2
  <1>3. {"restart_workflow_run", "reconfirm_with_latest_token", "retry_with_decompose_payload",
         "reconfirm_decomposition", "disable_force_redecompose", "refresh_preview"} \subseteq Actions
    BY DEF Actions, Base
  <1> HIDE DEF C0, Has
  <1>4. Has(C1)
    BY <1>1, <1>2, <1>3
  <1> HIDE DEF C1
  <1>5. Has(C2)
    BY <1>4, <1>2, <1>3
  <1> HIDE DEF C2
  <1>6. Has(C3)
    BY <1>5, <1>2, <1>3
  <1> HIDE DEF C3
  <1>7. Has(C4)
    BY <1>6, <1>2, <1>3
  <1> HIDE DEF C4
  <1>8. Has(C5)
    BY <1>7, <1>2, <1>3
  <1> HIDE DEF C5
  <1>9. Has(C6)
    BY <1>8, <1>2, <1>3
  <1>10. C6 = Candidates(reason)
    BY DEF C0, C1, C2, C3, C4, C5, Candidates
  <1> HIDE DEF C6
  <1>11. \E m \in Candidates(reason) : \A b \in Candidates(reason) \ {m} : Before(strategy, m, b)
    BY <1>9, <1>10 DEF Has, Least
  <1>12. QED
    BY <1>11 DEF Primary, Least

\* The pipeline is built together with the SDD artifacts.
HasSdd == HasItems => sdd

\* Whatever is next for the run, there is an action for it.
LEMMA HintIsAction ==
    Hint \in Actions
  BY DEF Hint, NextAction, Actions, Base

\* When each of the actions can do something.
LEMMA ApplicableWhen ==
    ASSUME NEW a
    PROVE  /\ a \in {"generate_preview", "refresh_preview"} /\ record # Empty => Applicable(a)
           /\ a \in {"reconfirm_decomposition", "reconfirm_with_latest_token"} /\ AwaitsDecision /\ ~HasItems
                => Applicable(a)
           /\ a = "retry_bootstrap_pipeline" /\ record # Empty /\ ~HasItems => Applicable(a)
           /\ a \in {"retry_execute_workflow_run", "wait_or_unblock_workitems"} /\ Executable => Applicable(a)
           /\ a = "restart_workflow_run" /\ Canceled => Applicable(a)
           /\ a \in {"retry_with_decompose_payload", "disable_force_redecompose"} /\ ~Canceled => Applicable(a)
  BY DEF Applicable, AwaitsDecision, HasItems, Executable, Canceled, RetriesOrchestrate, Scheduler!TerminalRun

\* The primary action can do something, whichever of the proposals it is.
LEMMA PrimaryFits ==
    ASSUME HasSdd, NEW strategy \in Strategies, NEW reason,
           reason = "token" => AwaitsDecision
    PROVE  LET a == Primary(strategy, reason) IN
           /\ a \in Actions
           /\ Applicable(a) \/ Unadvisable
           /\ Canceled => \/ a = "restart_workflow_run"
                          \/ a = "reconfirm_with_latest_token" /\ "safe" \in Strategies
  <1> DEFINE a == Primary(strategy, reason)
             restart == "restart_workflow_run"
             latest == "reconfirm_with_latest_token"
  <1>1. strategy \in AllStrategies /\ Hint \in Actions
    BY RecoveryAssumption, HintIsAction DEF AllStrategies
  <1>2. Least(strategy, Candidates(reason), a)
    BY <1>1, PrimaryIsLeast
  <1> HIDE DEF a
  <1>3. /\ {"restart_workflow_run", "reconfirm_with_latest_token", "retry_with_decompose_payload",
            "reconfirm_decomposition", "disable_force_redecompose", "refresh_preview"} \subseteq Actions
        /\ Candidates(reason) \subseteq Actions
    BY <1>1 DEF Actions, Base, Candidates
  <1>4. a \in Candidates(reason) /\ a \in Actions /\ restart \in Actions
    BY <1>2, <1>3 DEF Least
  <1>5. Canceled => a = restart \/ (a = latest /\ "safe" \in Strategies)
    <2>1. CASE Canceled /\ a # restart
      <3>1. Before(strategy, a, restart)
        BY <1>2, <2>1 DEF Least, Candidates
      <3>2. ~Before(strategy, restart, a)
        BY <1>1, <1>4, <3>1, BeforeOrders
      <3>3. QED
        BY <1>1, <1>4, <2>1, <3>2, RestartFirst
    <2>2. QED
      BY <2>1
  <1>6. ASSUME AwaitsDecision, a \in {"reconfirm_decomposition", latest} PROVE Applicable(a) \/ Unadvisable
    BY <1>6, ApplicableWhen DEF Unadvisable
  <1>7. ASSUME a \in {"retry_with_decompose_payload", "disable_force_redecompose"} PROVE Applicable(a)
    BY <1>5, <1>7, ApplicableWhen
  <1>8. a = Hint => Applicable(a) \/ Unadvisable
    <2>1. CASE NextAction = "trigger_decompose_bootstrap"
      BY <1>7, <2>1 DEF Hint
    <2>2. CASE NextAction = "confirm_or_reject_decomposition"
      <3>1. AwaitsDecision
        BY <2>2 DEF NextAction
      <3>2. QED
        BY <1>6, <2>2, <3>1 DEF Hint
    <2>3. CASE NextAction \in {"generate_preview", "bootstrap_pipeline"}
      <3>1. record # Empty /\ ~HasItems
        BY <2>3 DEF NextAction
      <3>2. Hint \in {"generate_preview", "refresh_preview", "retry_bootstrap_pipeline"}
        BY <2>3 DEF Hint
      <3>3. QED
        BY <3>1, <3>2, ApplicableWhen
    <2>4. CASE NextAction \in {"execute_workflow_run", "wait_or_unblock_workitems"}
      <3>1. HasItems /\ sdd
        BY <2>4 DEF NextAction, HasSdd
      <3>2. Executable \/ Unadvisable
        BY <3>1 DEF Executable, Unadvisable
      <3>3. Hint \in {"retry_execute_workflow_run", "wait_or_unblock_workitems"}
        BY <2>4 DEF Hint
      <3>4. QED
        BY <3>2, <3>3, ApplicableWhen
    <2>5. CASE NextAction = "review_results"
      BY <2>5 DEF Unadvisable
    <2>6. QED
      BY <2>1, <2>2, <2>3, <2>4, <2>5 DEF NextAction
  <1>9. ASSUME Stale, a = "refresh_preview" PROVE Applicable(a)
    BY <1>9, ApplicableWhen DEF Stale
  <1>10. ASSUME Canceled, a = restart PROVE Applicable(a)
    BY <1>10, ApplicableWhen
  <1>11. Applicable(a) \/ Unadvisable
    BY <1>4, <1>6, <1>7, <1>8, <1>9, <1>10 DEF Candidates
  <1>12. QED
    BY <1>4, <1>5, <1>11 DEF a

\* The SDD artifacts stay, until a restart.
LEMMA SddStays ==
    ASSUME Next
    PROVE  \/ sdd => sdd'
           \/ \E copy \in BOOLEAN : Restart(copy)
  <1>1. ASSUME NEW from, Build(from) PROVE sdd'
    BY <1>1 DEF Build
  <1>2. ASSUME NEW by, ApproveDecomposition(by) \/ RejectDecomposition(by) PROVE sdd => sdd'
    BY <1>1, <1>2 DEF ApproveDecomposition, RejectDecomposition
  <1>3. ASSUME NEW c \in Callers, Request(c) PROVE sdd => sdd'
    BY <1>3 DEF Request, Decompose, StartDecompose, Advance, ExecuteAuto, Execute, Orchestrate, decisionVars
  <1>4. ASSUME NEW c \in Callers, Running(c) PROVE sdd => sdd'
    <2>1. CASE StepBootstrap(c) \/ \E by \in {"token", "blind"} : StepConfirm(c, by)
      BY <1>1, <1>2, <2>1 DEF StepBootstrap, StepConfirm
    <2>2. QED
      BY <1>4, <2>1 DEF Running, StepPreview, StepTick, StepExecute, AdvanceEnds, ExecuteStarts,
         ExecuteRefused, EngineStarts, EngineTicks, EngineEnds, Accept, decisionVars
  <1>5. ASSUME NEW c \in Callers, Answered(c) PROVE sdd => sdd'
    BY <1>1, <1>5 DEF Answered, ChiefFails, ChiefProposes, ChiefDecides, AnswerDropped, AnswerRaises,
       Answer, decisionVars
  <1>6. QED
    BY <1>1, <1>2, <1>3, <1>4, <1>5 DEF Next, BootstrapRoute, ReadPending, PreviewRoute, Confirm,
       Interrupt, ManualTick, ManualComplete, Elsewhere, decisionVars

\* A pipeline is never left without its SDD artifacts.
LEMMA StepSdd ==
    ASSUME TypeOK, Whole, HasSdd, Next
    PROVE  HasSdd'
  <1>0. Scheduler!TypeOK
    BY DEF TypeOK
  <1>1. ASSUME NEW from, Build(from) PROVE sdd'
    BY <1>1 DEF Build
  <1>2. ASSUME UNCHANGED runOf, sdd => sdd' PROVE HasSdd'
    BY <1>2 DEF HasSdd, HasItems
  <1>3. \/ UNCHANGED runOf
        \/ \E from : Build(from)
        \/ \E copy \in BOOLEAN : Restart(copy)
    <2>1. CASE Kept
      BY <1>0, <2>1, CallEffects, AcceptEffects DEF Kept, schedulerVars
    <2>2. CASE Decision
      BY <2>2, DecisionFacts DEF schedulerVars
    <2>3. ASSUME NEW c \in Callers, ChiefProposes(c) \/ (ChiefDecides(c) /\ ~HasItems)
          PROVE  UNCHANGED runOf \/ \E from : Build(from)
      BY <2>3 DEF ChiefProposes, ChiefDecides, schedulerVars
    <2>4. QED
      BY <2>1, <2>2, <2>3, Effects
  <1>4. ASSUME NEW copy \in BOOLEAN, Restart(copy) PROVE ~HasItems'
    BY <1>4, RestartTypes, LifecycleAssumption DEF HasItems
  <1>5. QED
    BY <1>1, <1>2, <1>3, <1>4, SddStays DEF HasSdd

\* orchestrate that only prepares decomposes whatever the callers of the bound Kinds may do.
Prepares == \E c \in Callers, ambiguous \in BOOLEAN :
                Free /\ co[c].pc = "idle" /\ StartDecompose(c, <<>>, FALSE, ambiguous)

\* It keeps the invariant of the lifecycle.
LEMMA PreparesKeeps ==
    ASSUME LifecycleInv, HasSdd, Prepares
    PROVE  LifecycleInv' /\ HasSdd' /\ UNCHANGED restarts
  <1>1. PICK c \in Callers, ambiguous \in BOOLEAN :
            Free /\ co[c].pc = "idle" /\ StartDecompose(c, <<>>, FALSE, ambiguous)
    BY DEF Prepares
  <1>2. /\ requirement' \in {requirement, "clarifying"}
        /\ UNCHANGED <<schedulerVars, resultVars, sdd, record, pending, preview, made, restarts, seen, loop>>
    BY <1>1 DEF StartDecompose
  <1>3. RecordTypes'
    BY <1>2 DEF LifecycleInv, TypeOK, RecordTypes, resultVars
  <1>4. CallerTypes'
    <2> DEFINE r == [Idle EXCEPT !.pc = "chief", !.todo = <<>>, !.auto = FALSE]
    <2>0. CallerTypes
      BY DEF LifecycleInv, TypeOK, CallerTypes
    <2>1. r \in Coroutine /\ r.pc = "chief"
      <3>1. <<>> \in Seq({"advance", "execute", "accept"})
        OBVIOUS
      <3>2. QED
        BY <3>1 DEF Coroutine, Idle, Items
    <2>2. (UNCHANGED co \/ co' = [co EXCEPT ![c] = r]) /\ loop = NoCaller /\ UNCHANGED loop
      BY <1>1 DEF StartDecompose, Free
    <2> HIDE DEF r
    <2>3. CASE UNCHANGED co
      BY <2>0, <2>2, <2>3 DEF CallerTypes
    <2>4. CASE co' = [co EXCEPT ![c] = r]
      BY <2>0, <2>1, <2>2, <2>4, CallerMoves
    <2>5. QED
      BY <2>2, <2>3, <2>4
  <1>5. Scheduler!TypeOK'
    BY <1>2 DEF LifecycleInv, TypeOK, schedulerVars, Scheduler!TypeOK
  <1>6. TypeOK'
    <2>1. ({sdd, pending, evidence, accepted} \subseteq BOOLEAN)'
      BY <1>3 DEF RecordTypes
    <2>2. QED
      BY <1>3, <1>4, <1>5, <2>1 DEF RecordTypes, CallerTypes, TypeOK
  <1>7. QED
    BY <1>2, <1>6 DEF LifecycleInv, Whole, HasItems, HasSdd, Numbered, ApprovedStands, SucceededIsDone,
       AcceptedSound, schedulerVars, resultVars

\* Every step is one of the lifecycle, the decomposition of a prepared call, or a report.
LEMMA RecoverySteps ==
    ASSUME RecoveryNext
    PROVE  Next \/ Prepares \/ UNCHANGED vars
  <1>1. CASE Moves
    <2>1. ASSUME NEW c \in Callers, NEW auto \in BOOLEAN, Recovered(c, advice, auto) PROVE Next
      <3>1. Advance(c, auto) \/ Execute(c) \/ ExecuteAuto(c, auto) => Next
        BY DEF Next, Request
      <3>2. ASSUME NEW by \in {"token", "blind"}, Confirm(by, TRUE) PROVE Next
        BY <3>2 DEF Next
      <3>3. PreviewRoute \/ Restart(TRUE) => Next
        BY DEF Next
      <3>4. QED
        BY <2>1, <3>1, <3>2, <3>3 DEF Recovered
    <2>2. ASSUME NEW c \in Callers,
                 Running(c) \/ Answered(c) \/ \E ambiguous \in BOOLEAN : Decompose(c, ambiguous)
          PROVE  Next
      BY <2>2 DEF Next, Request
    <2>3. ASSUME NEW c \in Callers,
                 (\E auto \in BOOLEAN : Advance(c, auto) \/ ExecuteAuto(c, auto)) \/ Execute(c)
          PROVE  Next
      BY <2>3 DEF Next, Request
    <2>4. ASSUME NEW c \in Callers, RefusedInOrchestrate(c) \/ RaisedInOrchestrate(c) PROVE Next
      BY <2>2, <2>4 DEF RefusedInOrchestrate, RaisedInOrchestrate, Running, Answered
    <2>5. QED
      BY <1>1, <2>1, <2>2, <2>3, <2>4 DEF Moves, Next
  <1>2. ASSUME NEW c \in Callers, Report(c) PROVE UNCHANGED vars
    BY <1>2 DEF Report
  <1>3. ASSUME NEW c \in Callers, NEW strategy \in Strategies, NEW force \in BOOLEAN,
               NEW auto \in BOOLEAN, NEW ambiguous \in BOOLEAN
        PROVE  /\ OrchestrateExecutes(c, strategy, force, auto, ambiguous) => Next
               /\ RecoverOrchestrates(c, strategy, auto, ambiguous) => Next
               /\ OrchestratePrepares(c, strategy, force, ambiguous) => Prepares \/ UNCHANGED vars
               /\ OrchestrateBlocked(c, strategy, force) => UNCHANGED vars
    <2>1. ASSUME NEW again \in BOOLEAN, Orchestrate(c, again, auto, ambiguous) PROVE Next
      BY <2>1 DEF Next, Request
    <2>2. QED
      BY <2>1 DEF OrchestrateExecutes, RecoverOrchestrates, OrchestratePrepares, OrchestrateBlocked,
         Accepts, Prepares
  <1>4. QED
    BY <1>1, <1>2, <1>3 DEF RecoveryNext

\* A caller in an orchestrate call has a strategy, and only one whose call has ended with
\* an open decision was refused for its token.
JobSound ==
    /\ job \in [Callers -> [strategy : Strategies \cup {"none"}, token : BOOLEAN]]
    /\ \A c \in Callers :
        /\ job[c].strategy = "none" => job[c] = NoJob
        /\ job[c].token => co[c] = Idle /\ AwaitsDecision

\* The types of what a report leaves.
AdviceTypes == advice \in Actions \cup {"nothing"} /\ fresh \in BOOLEAN

\* The lifecycle's invariant, with the reports and the calls they are due for.
RecoveryInv == LifecycleInv /\ HasSdd /\ JobSound /\ AdviceTypes /\ AdviceApplies

\* While no report is due nobody has been refused for a token.
LEMMA QuietJobs ==
    ASSUME JobSound, Quiet, NEW c \in Callers
    PROVE  job[c].token = FALSE /\ job[c] \in [strategy : Strategies \cup {"none"}, token : BOOLEAN]
  BY DEF JobSound, Quiet, Due, NoJob

\* Calls that begin, are refused or end keep this.
LEMMA StepJobs ==
    ASSUME JobSound, DOMAIN co = Callers, RecoveryNext
    PROVE  JobSound'
  <1>0. /\ job \in [Callers -> [strategy : Strategies \cup {"none"}, token : BOOLEAN]]
        /\ "none" \notin Strategies
        /\ NoJob \in [strategy : Strategies \cup {"none"}, token : BOOLEAN] /\ NoJob.token = FALSE
    BY RecoveryAssumption DEF JobSound, NoJob
  <1>1. ASSUME Quiet, NEW c \in Callers,
               NEW j \in [strategy : Strategies \cup {"none"}, token : BOOLEAN], job' = [job EXCEPT ![c] = j],
               j.strategy = "none" => j = NoJob, j.token => co'[c] = Idle /\ AwaitsDecision'
        PROVE  JobSound'
    <2>1. \A d \in Callers : job'[d] = IF d = c THEN j ELSE job[d]
      BY <1>0, <1>1
    <2>2. \A d \in Callers : job[d].token = FALSE
      BY <1>1, QuietJobs
    <2>3. QED
      BY <1>0, <1>1, <2>1, <2>2 DEF JobSound
  <1>2. ASSUME Quiet, UNCHANGED job PROVE JobSound'
    BY <1>0, <1>2, QuietJobs DEF JobSound
  <1>3. ASSUME UNCHANGED vars, UNCHANGED job PROVE JobSound'
    BY <1>3 DEF JobSound, AwaitsDecision, vars, decisionVars
  <1>4. ASSUME Quiet, NEW c \in Callers, NEW strategy \in Strategies, Begin(c, strategy) PROVE JobSound'
    <2> DEFINE j == [strategy |-> strategy, token |-> FALSE]
    <2>1. /\ j \in [strategy : Strategies \cup {"none"}, token : BOOLEAN]
          /\ j.strategy # "none" /\ j.token = FALSE /\ job' = [job EXCEPT ![c] = j]
      BY <1>0, <1>4 DEF Begin
    <2> HIDE DEF j
    <2>2. QED
      BY <1>1, <1>4, <2>1
  <1>5. ASSUME Quiet, NEW c \in Callers, RefusedInOrchestrate(c) PROVE JobSound'
    <2>1. PICK token \in BOOLEAN :
            /\ token => AwaitsDecision /\ co[c].auto /\ job[c] # NoJob
            /\ job' = [job EXCEPT ![c].token = token]
      BY <1>5 DEF RefusedInOrchestrate
    <2> DEFINE j == [strategy |-> job[c].strategy, token |-> token]
    <2>2. job[c] \in [strategy : Strategies \cup {"none"}, token : BOOLEAN]
      BY <1>0
    <2>3. /\ j \in [strategy : Strategies \cup {"none"}, token : BOOLEAN]
          /\ j.token = token /\ j.strategy = job[c].strategy
      BY <2>2
    <2>4. job' = [job EXCEPT ![c] = j]
      <3>1. [job[c] EXCEPT !.token = token] = j
        BY <2>2
      <3>2. QED
        BY <1>0, <2>1, <3>1
    <2>5. job[c] # NoJob => job[c].strategy # "none"
      BY DEF JobSound
    <2>6. ASSUME job[c] = NoJob PROVE j = NoJob
      <3>1. ~token
        BY <2>1, <2>6
      <3>2. job[c].strategy = "none" /\ token = FALSE
        BY <2>6, <3>1 DEF NoJob
      <3>3. QED
        BY <3>2 DEF NoJob
    <2>7. token => co'[c] = Idle /\ AwaitsDecision'
      <3>1. /\ co' = [co EXCEPT ![c] = Idle] /\ UNCHANGED <<record, pending>>
        BY <1>5 DEF RefusedInOrchestrate, ExecuteRefused, Resume
      <3>2. co'[c] = Idle
        BY <3>1, <1>0
      <3>3. QED
        BY <2>1, <3>1, <3>2 DEF AwaitsDecision
    <2> HIDE DEF j
    <2>8. QED
      BY <1>1, <1>5, <2>3, <2>4, <2>5, <2>6, <2>7
  <1>6. ASSUME Quiet, NEW c \in Callers, RaisedInOrchestrate(c) PROVE JobSound'
    BY <1>0, <1>1, <1>6 DEF RaisedInOrchestrate
  <1>7. ASSUME NEW c \in Callers, Report(c) PROVE JobSound'
    <2>1. job' = [job EXCEPT ![c] = NoJob] /\ UNCHANGED <<co, record, pending>>
      BY <1>7 DEF Report, vars, decisionVars
    <2>2. \A d \in Callers : job'[d] = IF d = c THEN NoJob ELSE job[d]
      BY <1>0, <2>1
    <2>3. QED
      BY <1>0, <2>1, <2>2 DEF JobSound, AwaitsDecision
  <1>8. ASSUME NEW c \in Callers, NEW strategy \in Strategies, NEW force \in BOOLEAN,
               NEW auto \in BOOLEAN, NEW ambiguous \in BOOLEAN,
               \/ OrchestrateExecutes(c, strategy, force, auto, ambiguous)
               \/ OrchestratePrepares(c, strategy, force, ambiguous)
               \/ OrchestrateBlocked(c, strategy, force)
               \/ RecoverOrchestrates(c, strategy, auto, ambiguous)
        PROVE  JobSound'
    BY <1>3, <1>4, <1>8 DEF OrchestrateExecutes, RecoverOrchestrates, OrchestratePrepares, OrchestrateBlocked,
       Accepts
  <1>9. CASE Moves
    BY <1>2, <1>5, <1>6, <1>9 DEF Moves
  <1>10. QED
    BY <1>7, <1>8, <1>9 DEF RecoveryNext

\* Where a report is written the state is as it was, and the call ended for this reason.
Reports(strategy, reason) ==
    /\ Reported(strategy, reason) /\ UNCHANGED vars
    /\ strategy \in Strategies
    /\ reason = "token" => AwaitsDecision

\* A step takes the news off the report, or writes a new one.
LEMMA AdviceSteps ==
    ASSUME JobSound, RecoveryNext
    PROVE  \/ fresh' = FALSE /\ advice' \in {advice, "nothing"}
           \/ \E strategy, reason : Reports(strategy, reason)
  <1>1. CASE Moves
    BY <1>1 DEF Moves
  <1>2. ASSUME NEW c \in Callers, Report(c) PROVE \E strategy, reason : Reports(strategy, reason)
    <2> DEFINE reason == IF job[c].token THEN "token" ELSE "none"
    <2>1. Reported(job[c].strategy, reason) /\ UNCHANGED vars /\ job[c] # NoJob
      BY <1>2 DEF Report, Due
    <2>2. job[c].strategy \in Strategies
      BY <2>1 DEF JobSound
    <2>3. reason = "token" => AwaitsDecision
      BY DEF JobSound
    <2>4. Reports(job[c].strategy, reason)
      BY <2>1, <2>2, <2>3 DEF Reports
    <2>5. QED
      BY <2>4
  <1>3. ASSUME NEW c \in Callers, NEW strategy \in Strategies, NEW force \in BOOLEAN,
               OrchestrateBlocked(c, strategy, force)
        PROVE  \E reason : Reports(strategy, reason)
    <2>1. ASSUME NEW reason \in {"canceled", "force", "requirements", "pending"}, Reported(strategy, reason)
          PROVE  Reports(strategy, reason)
      BY <1>3, <2>1 DEF OrchestrateBlocked, Reports
    <2>2. QED
      BY <1>3, <2>1 DEF OrchestrateBlocked
  <1>4. ASSUME NEW c \in Callers, NEW strategy \in Strategies, NEW force \in BOOLEAN,
               NEW auto \in BOOLEAN, NEW ambiguous \in BOOLEAN,
               \/ OrchestrateExecutes(c, strategy, force, auto, ambiguous)
               \/ OrchestratePrepares(c, strategy, force, ambiguous)
               \/ RecoverOrchestrates(c, strategy, auto, ambiguous)
        PROVE  fresh' = FALSE /\ advice' = advice
    BY <1>4 DEF OrchestrateExecutes, OrchestratePrepares, RecoverOrchestrates, Begin
  <1>5. QED
    BY <1>1, <1>2, <1>3, <1>4 DEF RecoveryNext

\* What is reported of the run is true of the run it is reported on.
LEMMA ReportApplies ==
    ASSUME HasSdd, NEW strategy, NEW reason, Reports(strategy, reason)
    PROVE  AdviceTypes' /\ AdviceApplies'
  <1> DEFINE a == Primary(strategy, reason)
  <1>1. advice' = a /\ fresh' = TRUE /\ UNCHANGED vars
    BY DEF Reports, Reported
  <1>2. /\ a \in Actions
        /\ Applicable(a) \/ Unadvisable
        /\ Canceled => \/ a = "restart_workflow_run"
                       \/ a = "reconfirm_with_latest_token" /\ "safe" \in Strategies
    BY PrimaryFits DEF Reports
  <1> HIDE DEF a
  <1>3. AdviceTypes'
    BY <1>1, <1>2 DEF AdviceTypes
  <1>4. (Applicable(advice)' <=> Applicable(a)) /\ Unadvisable' = Unadvisable /\ Canceled' = Canceled
    BY <1>1 DEF vars, schedulerVars, decisionVars, resultVars, Applicable, Unadvisable, Canceled, HasItems,
       AwaitsDecision, Executable, RetriesOrchestrate, NextAction, Ready, Unfinished, PreviewReady,
       Scheduler!TerminalRun, Scheduler!TerminalItem
  <1>5. QED
    BY <1>1, <1>2, <1>3, <1>4 DEF AdviceApplies

\* The invariant is inductive.
LEMMA RecoveryInvariance == RecoverySpec => []RecoveryInv
  <1>1. RecoveryInit => RecoveryInv
    <2>1. ASSUME RecoveryInit PROVE LifecycleInv
      BY <2>1, InitLifecycle DEF RecoveryInit
    <2>2. ASSUME RecoveryInit PROVE HasSdd
      BY <2>2, LifecycleAssumption DEF RecoveryInit, Init, HasSdd, HasItems
    <2>3. ASSUME RecoveryInit PROVE JobSound
      <3>1. /\ NoJob \in [strategy : Strategies \cup {"none"}, token : BOOLEAN]
            /\ NoJob.token = FALSE /\ job = [c \in Callers |-> NoJob]
        BY <2>3 DEF RecoveryInit, NoJob
      <3>2. QED
        BY <3>1 DEF JobSound
    <2>4. RecoveryInit => AdviceTypes /\ AdviceApplies
      BY DEF RecoveryInit, AdviceTypes, AdviceApplies
    <2>5. QED
      BY <2>1, <2>2, <2>3, <2>4 DEF RecoveryInv
  <1>2. RecoveryInv /\ [RecoveryNext]_recoveryVars => RecoveryInv'
    <2>1. ASSUME RecoveryInv, RecoveryNext PROVE LifecycleInv' /\ HasSdd'
      <3>1. ASSUME UNCHANGED vars PROVE HasSdd'
        BY <2>1, <3>1 DEF RecoveryInv, HasSdd, HasItems, vars, schedulerVars, decisionVars
      <3>2. TypeOK /\ Whole
        BY <2>1 DEF RecoveryInv, LifecycleInv
      <3>3. QED
        BY <2>1, <3>1, <3>2, RecoverySteps, LifecycleStep, LifecycleStutter, StepSdd, PreparesKeeps DEF RecoveryInv
    <2>2. ASSUME RecoveryInv, RecoveryNext PROVE JobSound'
      <3>1. DOMAIN co = Callers
        BY <2>2 DEF RecoveryInv, LifecycleInv, TypeOK
      <3>2. QED
        BY <2>2, <3>1, StepJobs DEF RecoveryInv
    <2>3. ASSUME RecoveryInv, RecoveryNext PROVE AdviceTypes' /\ AdviceApplies'
      <3>1. CASE fresh' = FALSE /\ advice' \in {advice, "nothing"}
        BY <2>3, <3>1 DEF RecoveryInv, AdviceTypes, AdviceApplies
      <3>2. CASE \E strategy, reason : Reports(strategy, reason)
        BY <2>3, <3>2, ReportApplies DEF RecoveryInv
      <3>3. QED
        BY <2>3, <3>1, <3>2, AdviceSteps DEF RecoveryInv
    <2>4. ASSUME RecoveryInv, UNCHANGED recoveryVars PROVE RecoveryInv'
      <3>1. UNCHANGED <<vars, advice, fresh, job>>
        BY <2>4 DEF recoveryVars, reportVars
      <3>2. LifecycleInv'
        BY <2>4, <3>1, LifecycleStutter DEF RecoveryInv
      <3>3. HasSdd'
        BY <2>4, <3>1 DEF RecoveryInv, HasSdd, HasItems, vars, schedulerVars, decisionVars
      <3>4. JobSound' /\ AdviceTypes'
        BY <2>4, <3>1 DEF RecoveryInv, JobSound, AdviceTypes, AwaitsDecision, vars, decisionVars
      <3>5. AdviceApplies'
        BY <2>4, <3>1
        DEF RecoveryInv, AdviceApplies, vars, schedulerVars, decisionVars, resultVars, Applicable, Unadvisable,
            Canceled, HasItems, AwaitsDecision, Executable, RetriesOrchestrate, NextAction, Ready, Unfinished,
            PreviewReady, Scheduler!TerminalRun, Scheduler!TerminalItem
      <3>6. QED
        BY <3>2, <3>3, <3>4, <3>5 DEF RecoveryInv
    <2>5. QED
      BY <2>1, <2>2, <2>3, <2>4 DEF RecoveryInv
  <1>3. QED
    BY <1>1, <1>2, PTL DEF RecoverySpec

\* Every variable keeps its type with the calls of orchestrate and recover added; so every
\* report names an action of the decision table.
THEOREM RecoveryTypeCorrect == RecoverySpec => []RecoveryTypeOK
  <1>1. RecoveryInv => RecoveryTypeOK
    BY DEF RecoveryInv, LifecycleInv, JobSound, AdviceTypes, RecoveryTypeOK
  <1>2. QED
    BY <1>1, RecoveryInvariance, PTL

\* For each strategy, whatever the calls ended for and whatever moved while they were under
\* way: the action of a report is one that recover can execute on the run as it is, unless
\* the run is beyond advice, and a canceled run is to be restarted
\* (build_orchestrate_decision_report_impl, execute_orchestrate_recovery_action).
THEOREM AdviceIsApplicable == RecoverySpec => []AdviceApplies
  <1>1. RecoveryInv => AdviceApplies
    BY DEF RecoveryInv
  <1>2. QED
    BY <1>1, RecoveryInvariance, PTL

\* Orchestrate and recover do nothing to a run that its other requests could not do: what
\* is said of every behaviour of the lifecycle is true of theirs.
THEOREM OrchestrationIsLifecycle ==
    ASSUME "decompose" \in Kinds
    PROVE  RecoverySpec => Spec
  <1>1. RecoveryInit => Init
    BY DEF RecoveryInit
  <1>2. ASSUME Prepares PROVE Next
    <2>1. \E c \in Callers, ambiguous \in BOOLEAN : Decompose(c, ambiguous)
      BY <1>2 DEF Prepares, Decompose
    <2>2. QED
      BY <2>1 DEF Next, Request
  <1>3. [RecoveryNext]_recoveryVars => [Next]_vars
    BY <1>2, RecoverySteps DEF recoveryVars
  <1>4. QED
    BY <1>1, <1>3, PTL DEF RecoverySpec, Spec

=============================================================================

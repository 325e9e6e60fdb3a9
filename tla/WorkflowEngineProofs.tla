------------------------ MODULE WorkflowEngineProofs ------------------------
(***************************************************************************)
(* The engine for any requested modules, packages, callers and limits.     *)
(***************************************************************************)
EXTENDS WorkflowEngine, TLAPS, WellFoundedInduction

\* The theorems of the scheduler, for the scheduler the engine uses.
Sched == INSTANCE WorkflowSchedulerProofs WITH
    Runs <- {Run}, Budget <- [i \in Items |-> DiscussionBudget], MaxBudget <- DiscussionBudget

-----------------------------------------------------------------------------
(* Least and greatest elements                                             *)

\* A non-empty set of natural numbers has a least element.
LEMMA LeastExists ==
    ASSUME NEW S \in SUBSET Nat, S # {}
    PROVE  \E x \in S : \A y \in S : x <= y
  <1>1. PICK x \in S : \A y \in S : ~ (<<y, x>> \in OpToRel(<, Nat))
    BY NatLessThanWellFounded, WFMin
  <1>2. \A y \in S : ~(y < x)
    BY <1>1 DEF OpToRel
  <1>3. QED
    BY <1>2

\* The minimum of a non-empty set of numbers is in the set and below all of it.
LEMMA MinOf ==
    ASSUME NEW S \in SUBSET Nat, S # {}
    PROVE  Min(S) \in S /\ \A y \in S : Min(S) <= y
  BY LeastExists DEF Min

\* The maximum of a non-empty bounded set is in the set and above all of it.
LEMMA MaxOf ==
    ASSUME NEW n \in Nat, NEW S \in SUBSET (0 .. n), S # {}
    PROVE  Max(S) \in S /\ \A y \in S : y <= Max(S)
  <1> DEFINE T == {n - x : x \in S}
  <1>1. T \in SUBSET Nat /\ T # {}
    <2>1. \A x \in S : x \in 0 .. n /\ n - x \in Nat
      OBVIOUS
    <2>2. QED
      BY <2>1
  <1>2. PICK t \in T : \A u \in T : t <= u
    BY <1>1, LeastExists
  <1>3. PICK x \in S : t = n - x
    OBVIOUS
  <1>4. \A y \in S : x >= y
    BY <1>2, <1>3
  <1>5. QED
    BY <1>4 DEF Max

-----------------------------------------------------------------------------
(* The scheduler of the engine is the one the theorems are about           *)

\* What the scheduler assumes of its constants holds of those the engine gives it.
LEMMA SchedulerMeets == Sched!SchedulerAssumption
  BY EngineAssumption DEF Sched!SchedulerAssumption

\* The engine's instance of the scheduler and the one the proofs are about start alike.
LEMMA SameInit == Scheduler!Init <=> Sched!Init
  BY Zenon DEF Scheduler!Init, Sched!Init, Scheduler!Rounds, Sched!Rounds

\* Both instances of the scheduler have the same types.
LEMMA SameTypeOK == Scheduler!TypeOK <=> Sched!TypeOK
  BY Zenon DEF Scheduler!TypeOK, Sched!TypeOK, Scheduler!RunStatus, Sched!RunStatus,
     Scheduler!Rounds, Sched!Rounds, Scheduler!ItemStatus, Sched!ItemStatus,
     Scheduler!SessionStatus, Sched!SessionStatus

\* Both instances of the scheduler have the same steps.
LEMMA SameNext ==
    /\ Scheduler!Next <=> Sched!Next
    /\ \A i, ds : Scheduler!UpdateWorkItemDependencies(i, ds)
                    <=> Sched!UpdateWorkItemDependencies(i, ds)
  BY Zenon DEF Scheduler!Next, Sched!Next,
     Scheduler!CreateRun, Sched!CreateRun, Scheduler!Tick, Sched!Tick,
     Scheduler!InterruptRun, Sched!InterruptRun, Scheduler!RestartRun, Sched!RestartRun,
     Scheduler!AddWorkItem, Sched!AddWorkItem, Scheduler!StartWorkItem, Sched!StartWorkItem,
     Scheduler!ApproveWorkItem, Sched!ApproveWorkItem,
     Scheduler!SkipWorkItem, Sched!SkipWorkItem,
     Scheduler!CompleteWorkItem, Sched!CompleteWorkItem,
     Scheduler!MarkNeedsDiscussion, Sched!MarkNeedsDiscussion,
     Scheduler!ExhaustDiscussion, Sched!ExhaustDiscussion,
     Scheduler!OpenDiscussion, Sched!OpenDiscussion, Scheduler!NextRound, Sched!NextRound,
     Scheduler!ResolveDiscussion, Sched!ResolveDiscussion, Scheduler!Open, Sched!Open,
     Scheduler!UpdateWorkItemDependencies, Sched!UpdateWorkItemDependencies,
     Scheduler!Move, Sched!Move, Scheduler!Refresh, Sched!Refresh,
     Scheduler!itemVars, Sched!itemVars, Scheduler!talkVars, Sched!talkVars,
     Scheduler!DerivedStatus, Sched!DerivedStatus,
     Scheduler!ItemsOf, Sched!ItemsOf, Scheduler!Done, Sched!Done,
     Scheduler!Created, Sched!Created, Scheduler!Rounds, Sched!Rounds,
     Scheduler!Releasable, Sched!Releasable,
     Scheduler!DependenciesSatisfied, Sched!DependenciesSatisfied,
     Scheduler!TerminalItem, Sched!TerminalItem, Scheduler!TerminalRun, Sched!TerminalRun

\* A step of the engine, of its clients, or the death of the process.
Step == Next \/ Crash

\* The role of an item is one of the stages; an item is a global stage, or belongs to
\* a module, as part of its package or of one of its reflow chains.
LEMMA ItemShape ==
    ASSUME NEW i \in Items
    PROVE  /\ i = Item(i.module, i.gen, i.pos)
           /\ \/ i.module = Global /\ i.gen = 0 /\ i.pos \in 1 .. 3
              \/ i.module \in Modules /\ i.gen = 0 /\ i.pos \in DOMAIN Package[i.module]
              \/ i.module \in Modules /\ i.gen \in 1 .. MaxModuleReflows /\ i.pos \in 1 .. 4
  <1>1. Len(ModuleStages) = 4 /\ DOMAIN GlobalStages = 1 .. 3
    BY DEF ModuleStages, GlobalStages
  <1>2. CASE \E m \in Modules : \E k \in DOMAIN Package[m] : i = Item(m, 0, k)
    BY <1>2 DEF Item
  <1>3. CASE \E m \in Modules, g \in 1 .. MaxModuleReflows, k \in 1 .. Len(ModuleStages) :
                i = Item(m, g, k)
    BY <1>1, <1>3 DEF Item
  <1>4. CASE \E k \in DOMAIN GlobalStages : i = GlobalItem(k)
    BY <1>1, <1>4 DEF GlobalItem, Item
  <1>5. \/ \E m \in Modules : \E k \in DOMAIN Package[m] : i = Item(m, 0, k)
        \/ \E m \in Modules, g \in 1 .. MaxModuleReflows, k \in 1 .. Len(ModuleStages) :
                i = Item(m, g, k)
        \/ \E k \in DOMAIN GlobalStages : i = GlobalItem(k)
    BY DEF Items
  <1>6. QED
    BY <1>2, <1>3, <1>4, <1>5

\* A position of a package and a step of a reflow chain name work items.
LEMMA PackageItem ==
    ASSUME NEW m \in Modules
    PROVE  /\ \A k \in DOMAIN Package[m] : Item(m, 0, k) \in Items
           /\ \A g \in 1 .. MaxModuleReflows, k \in 1 .. 4 : Item(m, g, k) \in Items
  <1>1. Len(ModuleStages) = 4
    BY DEF ModuleStages
  <1>2. QED
    BY <1>1 DEF Items

\* A package is a non-empty sequence of tasks.
LEMMA PackageShape ==
    ASSUME NEW m \in Modules
    PROVE  /\ Len(Package[m]) \in Nat \ {0}
           /\ DOMAIN Package[m] = 1 .. Len(Package[m])
           /\ \A k \in DOMAIN Package[m] : /\ Package[m][k].approval \in BOOLEAN
                                           /\ Package[m][k].role \in Range(ModuleStages)
  <1>1. Package[m] \in Packages
    BY EngineAssumption
  <1> DEFINE Task == [role : Range(ModuleStages), after : SUBSET Range(ModuleStages),
                      approval : BOOLEAN]
  <1>2. Package[m] \in Seq(Task) /\ Package[m] # <<>>
    BY <1>1 DEF Packages
  <1>3. Len(Package[m]) \in Nat \ {0} /\ DOMAIN Package[m] = 1 .. Len(Package[m])
    BY <1>2
  <1>4. \A k \in DOMAIN Package[m] : Package[m][k] \in Task
    <2> HIDE DEF Task
    <2> QED
      BY <1>2
  <1>5. \A t \in Task : t.approval \in BOOLEAN /\ t.role \in Range(ModuleStages)
    OBVIOUS
  <1>6. QED
    BY <1>3, <1>4, <1>5

\* What add_workitem is told about approval is a Boolean.
LEMMA ApprovalType ==
    ASSUME NEW i \in Pipeline PROVE AsksApproval(i) \in BOOLEAN
  <1>1. i \in Items /\ i.gen = 0 /\ ReleaseRequiresApproval \in BOOLEAN /\ Global \notin Modules
    BY EngineAssumption DEF Pipeline
  <1>2. CASE i.module = Global
    BY <1>2 DEF AsksApproval
  <1>3. CASE i.module # Global
    <2>1. i.module \in Modules /\ i.pos \in DOMAIN Package[i.module]
      BY <1>1, <1>3, ItemShape
    <2>2. Package[i.module][i.pos].approval \in BOOLEAN
      BY <2>1, PackageShape
    <2>3. QED
      BY <1>3, <2>2, Zenon DEF AsksApproval
  <1>4. QED
    BY <1>2, <1>3

-----------------------------------------------------------------------------
(* The engine only operates the scheduler                                  *)

\* A coroutine goes on, or returns: what that does to its program counter.
LEMMA GoToType ==
    ASSUME TypeOK, NEW c \in Callers, NEW p \in PC, GoTo(c, p)
    PROVE  /\ co' \in [Callers -> Coroutine]
           /\ co'[c] = [co[c] EXCEPT !.pc = p]
           /\ \A d \in Callers \ {c} : co'[d] = co[d]
           /\ loop' = loop
  BY DEF GoTo, TypeOK, Coroutine

\* A caller without a call has well-typed locals.
LEMMA IdleType == Idle \in Coroutine
  BY EngineAssumption DEF Idle, Coroutine, PC

\* A call that ends leaves its caller idle, the others alone and the event loop free.
LEMMA LeaveType ==
    ASSUME TypeOK, NEW c \in Callers, Leave(c)
    PROVE  /\ co' \in [Callers -> Coroutine]
           /\ co'[c] = Idle
           /\ \A d \in Callers \ {c} : co'[d] = co[d]
           /\ loop' = NoCaller
  BY IdleType DEF Leave, TypeOK

\* A reflow is of a module, within the budget; what it retires is of that module, and
\* never the item that failed; what it rewires exists.
ReflowSound ==
    \A c \in Callers : co[c].pc \in {"obsolete", "terminal", "rewire", "replace"} =>
        LET i == co[c].item IN
        /\ i.module \in Modules
        /\ attempts[i.module] \in 1 .. MaxModuleReflows
        /\ co[c].pc = "obsolete" =>
                co[c].todo \subseteq {j \in Created : j.module = i.module /\ j # i}
        /\ co[c].todo \subseteq Created

\* Program counters of a coroutine that has judged the result of its item and acts on it.
Acting == {"complete", "fail", "reflow", "obsolete", "terminal", "rewire", "replace"}

\* The item a coroutine awaits is running, unless somebody else has finished it; while it
\* acts on the result nobody has; when it emits the evidence, some of it is missing.
CallerSound(c) ==
    LET i == co[c].item IN
    /\ co[c].pc = "await" => status[i] \in {"running", "succeeded", "failed", "skipped"}
    /\ co[c].pc \in Acting => status[i] = "running"
    /\ co[c].pc = "emit" => status[i] = "succeeded" /\ ~(Range(Evidence(i)) \subseteq artifacts)

\* No evidence of a stage exists before the stage has succeeded.
EvidenceFollows ==
    \A i \in Items : Range(Evidence(i)) \cap artifacts # {} => status[i] = "succeeded"

\* Two coroutines never work on the same item, whatever they are at.
Exclusive ==
    \A c, d \in Callers : c # d /\ co[c].pc \in Working /\ co[d].pc \in Working
                            => co[c].item # co[d].item

ExecutionSound == (\A c \in Callers : CallerSound(c)) /\ Exclusive /\ EvidenceFollows

\* Each call the engine or a client makes is a step of the scheduler, or rewires an item.
LEMMA EngineCalls ==
    ASSUME TypeOK, ReflowSound, Step
    PROVE  \/ [Scheduler!Next]_(Scheduler!vars)
           \/ \E c \in Callers : /\ Rewire(c) /\ ~Canceled
                                 /\ \E i \in co[c].todo, ds \in SUBSET Items :
                                        i \in Items /\ Scheduler!UpdateWorkItemDependencies(i, ds)
  <1> DEFINE Goal == \/ [Scheduler!Next]_(Scheduler!vars)
                     \/ \E c \in Callers :
                            /\ Rewire(c) /\ ~Canceled
                            /\ \E i \in co[c].todo, ds \in SUBSET Items :
                                    i \in Items /\ Scheduler!UpdateWorkItemDependencies(i, ds)
  <1>1. ASSUME UNCHANGED schedulerVars PROVE Goal
    BY <1>1 DEF schedulerVars, Scheduler!vars, Scheduler!itemVars, Scheduler!talkVars
  <1>2. ASSUME Scheduler!Next PROVE Goal
    BY <1>2
  <1>3. ASSUME NEW c \in Callers, BootstrapItem(c) PROVE Goal
    <2>1. PICK i \in Pipeline : Scheduler!AddWorkItem(i, Run, StartsAfter(i), AsksApproval(i))
      BY <1>3 DEF BootstrapItem
    <2>2. i \in Items /\ AsksApproval(i) \in BOOLEAN
      BY ApprovalType DEF Pipeline
    <2>3. StartsAfter(i) \in SUBSET Items
      BY <2>1 DEF Scheduler!AddWorkItem, Scheduler!ItemsOf
    <2>4. Scheduler!Next
      BY <2>1, <2>2, <2>3 DEF Scheduler!Next
    <2>5. QED
      BY <1>2, <2>4
  <1>4. ASSUME NEW c \in Callers, PullTick(c) PROVE Goal
    BY <1>2, <1>4 DEF PullTick, Scheduler!Next
  <1>5. ASSUME NEW c \in Callers, NEW i \in Items, StartNext(c, i) PROVE Goal
    BY <1>2, <1>5 DEF StartNext, Scheduler!Next
  <1>6. ASSUME NEW c \in Callers, co[c].pc \in Working PROVE co[c].item \in Items
    BY <1>6 DEF TypeOK, Created
  <1>7. ASSUME NEW c \in Callers, NEW fp \in Fingerprints \cup {NoFingerprint},
               AnswerDiscuss(c, fp)
        PROVE  Goal
    BY <1>2, <1>6, <1>7 DEF AnswerDiscuss, Working, PC, Scheduler!Next
  <1>8. ASSUME NEW c \in Callers, Complete(c) \/ Fail(c) \/ Replace(c) PROVE Goal
    <2>1. co[c].item \in Items
      BY <1>6, <1>8 DEF Complete, Fail, Replace, At, Working, PC
    <2>2. Scheduler!Next
      BY <1>8, <2>1 DEF Complete, Fail, Replace, Scheduler!Next
    <2>3. QED
      BY <1>2, <2>2
  <1>9. ASSUME NEW c \in Callers, SkipObsolete(c) PROVE Goal
    <2>1. co[c].todo \subseteq Items
      BY DEF TypeOK, Coroutine
    <2>2. Scheduler!Next
      BY <1>9, <2>1 DEF SkipObsolete, Scheduler!Next
    <2>3. QED
      BY <1>2, <2>2
  <1>10. ASSUME NEW c \in Callers, Grow(c) PROVE Goal
    <2>0. PICK k \in DOMAIN ModuleStages : \E ds :
            Scheduler!AddWorkItem(Item(co[c].item.module, attempts[co[c].item.module], k),
                                  Run, ds, FALSE)
      BY <1>10 DEF Grow
    <2>1. PICK ds :
            Scheduler!AddWorkItem(Item(co[c].item.module, attempts[co[c].item.module], k),
                                  Run, ds, FALSE)
      BY <2>0
    <2>2. Item(co[c].item.module, attempts[co[c].item.module], k) \in Items
      <3>1. Len(ModuleStages) = 4 /\ DOMAIN ModuleStages = 1 .. 4
        BY DEF ModuleStages
      <3>2. QED
        BY <1>10, <3>1, PackageItem DEF Grow, At, ReflowSound
    <2>3. ds \in SUBSET Items
      BY <2>1 DEF Scheduler!AddWorkItem, Scheduler!ItemsOf
    <2>4. Scheduler!Next
      BY <2>1, <2>2, <2>3 DEF Scheduler!Next
    <2>5. QED
      BY <1>2, <2>4
  <1>11. ASSUME NEW c \in Callers, Rewire(c) PROVE Goal
    <2>1. CASE co[c].todo = {}
      BY <1>1, <1>11, <2>1 DEF Rewire
    <2>2. CASE co[c].todo # {}
      <3>0. PICK i \in co[c].todo : \E ds : Scheduler!UpdateWorkItemDependencies(i, ds)
        BY <1>11, <2>2 DEF Rewire
      <3>1. PICK ds : Scheduler!UpdateWorkItemDependencies(i, ds)
        BY <3>0
      <3>2. i \in Items
        BY DEF TypeOK, Coroutine
      <3>3. ds \in SUBSET Items
        BY <3>1 DEF Scheduler!UpdateWorkItemDependencies, Scheduler!ItemsOf
      <3>4. QED
        BY <1>11, <2>2, <3>1, <3>2, <3>3 DEF Rewire
    <2>3. QED
      BY <2>1, <2>2
  <1>12. ASSUME Create \/ Interrupt \/ Approve \/ Resolve
                \/ ManualTick \/ ManualStart \/ ManualComplete
         PROVE  Goal
    <2>1. MayInterrupt \subseteq BOOLEAN
      BY EngineAssumption
    <2>2. Scheduler!Next
      BY <1>12, <2>1
      DEF Create, Interrupt, Approve, Resolve, ManualTick, ManualStart, ManualComplete,
          Elsewhere, Scheduler!Next
    <2>3. QED
      BY <1>2, <2>2
  <1>13. ASSUME Crash PROVE Goal
    BY <1>1, <1>13 DEF Crash
  <1>14. ASSUME NEW c \in Callers, Bootstrap(c) \/ Execute(c) \/ Answered(c) \/ Running(c)
         PROVE  Goal
    BY <1>1, <1>3, <1>4, <1>5, <1>7, <1>8, <1>9, <1>10, <1>11, <1>14
    DEF Running, Answered, Bootstrap, BootstrapEnd, Execute, PullReady, PullEnd,
        NextRoundOfBatch, StartRefused, Answer, AnswerDiscussRefused, JudgeDrop,
        JudgeSuccess, JudgeFailure, RaiseIfCanceled, RewireRefused, Emit, BeginReflow, SetTerminal
  <1>15. QED
    BY <1>12, <1>13, <1>14 DEF Step, Next

\* So it is an operation of the scheduler, for which what matters does not depend on
\* which items are rewired.
LEMMA EngineOperates ==
    ASSUME TypeOK, ReflowSound, Step
    PROVE  [Sched!Operation]_(Sched!vars)
  <1>1. UNCHANGED Scheduler!vars => UNCHANGED Sched!vars
    BY DEF Scheduler!vars, Sched!vars, Scheduler!itemVars, Sched!itemVars, Scheduler!talkVars,
       Sched!talkVars
  <1>2. [Scheduler!Next]_(Scheduler!vars) => [Sched!Operation]_(Sched!vars)
    BY <1>1, SameNext DEF Sched!Operation
  <1>3. ASSUME NEW i \in Items, NEW ds \in SUBSET Items,
               Scheduler!UpdateWorkItemDependencies(i, ds)
        PROVE  Sched!Operation
    BY <1>3, SameNext DEF Sched!Operation
  <1>4. QED
    BY <1>2, <1>3, EngineCalls

\* What holds of every step, with or without crashes: the types, what the scheduler
\* guarantees of any sequence of operations, the bounds of reflows, and who executes what.
Base ==
    /\ TypeOK
    /\ Sched!RunsAreIsolated
    /\ Sched!RunStatusSound
    /\ ReflowSound
    /\ ExecutionSound

\* Whatever the engine, a client or a crash does, the scheduler keeps its types, its isolation
\* and its truthful status; items are never removed and a canceled run stays canceled.
LEMMA SchedulerKept ==
    ASSUME Base, [Step]_vars
    PROVE  /\ Scheduler!TypeOK'
           /\ Sched!RunsAreIsolated'
           /\ Sched!RunStatusSound'
           /\ Created \subseteq Created'
           /\ Canceled => Canceled'
  <1>1. Sched!TypeOK /\ Sched!SchedulerAssumption
    BY SameTypeOK, SchedulerMeets DEF Base, TypeOK
  <1>2. [Sched!Operation]_(Sched!vars)
    BY EngineOperates DEF Base, vars, schedulerVars, Sched!vars
  <1>3. Sched!TypeOK'
    BY <1>1, <1>2, Sched!OperationTypeOK
  <1>4. Sched!RunsAreIsolated'
    BY <1>1, <1>2, Sched!OperationIsolated DEF Base
  <1>5. Sched!RunStatusSound'
    BY <1>1, <1>2, Sched!OperationStatusSound DEF Base
  <1>6. /\ \A i \in Sched!ItemsOf(Run) : runOf'[i] = Run
        /\ runStatus[Run] = "canceled" => runStatus'[Run] = "canceled"
    BY <1>1, <1>2, Sched!OperationOnRun DEF Base
  <1>7. Scheduler!TypeOK'
    BY <1>3, SameTypeOK, PTL
  <1>8. QED
    BY <1>4, <1>5, <1>6, <1>7 DEF Created, Canceled, Sched!ItemsOf

-----------------------------------------------------------------------------
(* Types                                                                   *)

\* What TypeOK says of the variables of the engine.
EngineTypes ==
    /\ confirmed \in BOOLEAN
    /\ attempts \in [Modules -> Nat]
    /\ terminal \in [Modules -> Items \cup {NoItem}]
    /\ gate \in [Items -> {"none", "passed", "failed"}]
    /\ artifacts \subseteq {"acceptance_report", "release_note", "rollback_plan"}

CallerTypes ==
    /\ loop \in Callers \cup {NoCaller}
    /\ co \in [Callers -> Coroutine]
    /\ \A c \in Callers :
        /\ (loop = c) = (co[c].pc \notin {"idle", "await"})
        /\ co[c].pc \in Working => co[c].item \in Created

\* One caller moves, and holds the loop afterwards unless it is idle or awaits.
LEMMA CallerMoves ==
    ASSUME Base, [Step]_vars, NEW c \in Callers, NEW r \in Coroutine,
           co' = [co EXCEPT ![c] = r], loop \in {c, NoCaller},
           r.pc \in {"idle", "await"} => loop' = NoCaller,
           r.pc \notin {"idle", "await"} => loop' = c,
           r.pc \in Working => r.item \in Created'
    PROVE  CallerTypes'
  <1>1. TypeOK /\ Created \subseteq Created' /\ NoCaller \notin Callers
    BY SchedulerKept, EngineAssumption DEF Base
  <1>2. co'[c] = r /\ \A d \in Callers \ {c} : co'[d] = co[d]
    BY <1>1 DEF TypeOK
  <1>3. co' \in [Callers -> Coroutine] /\ loop' \in Callers \cup {NoCaller}
    BY <1>1 DEF TypeOK
  <1>4. ASSUME NEW d \in Callers
        PROVE  /\ (loop' = d) = (co'[d].pc \notin {"idle", "await"})
               /\ co'[d].pc \in Working => co'[d].item \in Created'
    <2>1. CASE d = c
      BY <1>1, <1>2, <2>1
    <2>2. CASE d # c
      BY <1>1, <1>2, <2>2 DEF TypeOK
    <2>3. QED
      BY <2>1, <2>2
  <1>5. QED
    BY <1>3, <1>4 DEF CallerTypes

\* A caller that goes on keeps the loop, and the item it executes exists.
LEMMA GoToTypes ==
    ASSUME Base, [Step]_vars, NEW c \in Callers, NEW p \in PC, GoTo(c, p),
           co[c].pc \notin {"idle", "await"}, p \notin {"idle", "await"},
           p \in Working => co[c].pc \in Working
    PROVE  CallerTypes'
  <1>1. TypeOK /\ Created \subseteq Created' /\ co[c] \in Coroutine
    BY SchedulerKept DEF Base, TypeOK
  <1> DEFINE r == [co[c] EXCEPT !.pc = p]
  <1>2. r \in Coroutine /\ r.pc = p /\ r.item = co[c].item
    BY <1>1 DEF Coroutine
  <1>3. co' = [co EXCEPT ![c] = r] /\ loop' = loop
    BY <1>1 DEF GoTo, TypeOK
  <1>4. loop = c /\ (p \in Working => r.item \in Created')
    BY <1>1, <1>2 DEF TypeOK
  <1>5. QED
    BY <1>2, <1>3, <1>4, CallerMoves

\* A call that ends keeps the types of all callers.
LEMMA LeaveTypes ==
    ASSUME Base, [Step]_vars, NEW c \in Callers, Leave(c), loop \in {c, NoCaller}
    PROVE  CallerTypes'
  <1>1. Idle \in Coroutine /\ Idle.pc = "idle" /\ "idle" \notin Working
    BY IdleType DEF Idle, Working
  <1>2. QED
    BY <1>1, CallerMoves DEF Leave

\* Every step keeps the types of the callers and says who holds the event loop.
LEMMA StepTypes ==
    ASSUME Base, Step
    PROVE  CallerTypes'
  <1> USE DEF At
  <1>0. /\ TypeOK /\ Created \subseteq Created' /\ [Step]_vars
        /\ co \in [Callers -> Coroutine]
    BY SchedulerKept DEF Base, TypeOK
  <1>1. ASSUME UNCHANGED <<loop, co>> PROVE CallerTypes'
    BY <1>0, <1>1 DEF CallerTypes, TypeOK
  <1>2. ASSUME NEW c \in Callers,
               BootstrapItem(c) \/ NextRoundOfBatch(c) \/ JudgeDrop(c) \/ JudgeSuccess(c)
               \/ JudgeFailure(c) \/ Complete(c) \/ Emit(c) \/ Fail(c) \/ Replace(c)
        PROVE  CallerTypes'
    BY <1>0, <1>2, GoToTypes
    DEF BootstrapItem, NextRoundOfBatch, JudgeDrop, JudgeSuccess, JudgeFailure, Complete,
        Emit, Fail, Replace, PC, Working
  <1>3. ASSUME NEW c \in Callers,
               BootstrapEnd(c) \/ PullEnd(c) \/ RaiseIfCanceled(c, "complete")
               \/ RaiseIfCanceled(c, "fail") \/ RewireRefused(c) \/ AnswerDiscussRefused(c)
               \/ \E i \in Items : StartRefused(c, i)
        PROVE  CallerTypes'
    BY <1>0, <1>3, LeaveTypes
    DEF BootstrapEnd, PullEnd, RaiseIfCanceled, RewireRefused, AnswerDiscussRefused, StartRefused
  <1>4. ASSUME NEW c \in Callers, Bootstrap(c) \/ Execute(c)
        PROVE  CallerTypes'
    <2>1. MaxLoops \in Nat /\ co[c] \in Coroutine /\ Idle \in Coroutine
      BY <1>0, EngineAssumption, IdleType
    <2>2. ASSUME NEW r \in Coroutine, co' = [co EXCEPT ![c] = r],
                 r.pc \in {"bootstrap", "pull"}
          PROVE  CallerTypes'
      <3>1. loop = NoCaller /\ loop' = c
        BY <1>4 DEF Bootstrap, Execute
      <3>2. r.pc \notin Working /\ r.pc \notin {"idle", "await"}
        BY <2>2 DEF Working
      <3>3. QED
        BY <1>0, <2>2, <3>1, <3>2, CallerMoves
    <2>3. CASE Bootstrap(c)
      <3> DEFINE r == [co[c] EXCEPT !.pc = "bootstrap"]
      <3>1. r \in Coroutine /\ r.pc \in {"bootstrap", "pull"}
        BY <2>1 DEF Coroutine, PC
      <3>2. co' = [co EXCEPT ![c] = r]
        BY <1>0, <2>3 DEF Bootstrap
      <3>3. QED
        BY <2>2, <3>1, <3>2
    <2>4. CASE Execute(c)
      <3> DEFINE r == [Idle EXCEPT !.pc = "pull", !.rounds = MaxLoops]
      <3>0. "pull" \in PC /\ MaxLoops \in 0 .. MaxLoops
        BY <2>1 DEF PC
      <3>1. r \in Coroutine /\ r.pc \in {"bootstrap", "pull"}
        BY <2>1, <3>0 DEF Coroutine
      <3>2. co' = [co EXCEPT ![c] = r]
        BY <2>4 DEF Execute
      <3>3. QED
        BY <2>2, <3>1, <3>2
    <2>5. QED
      BY <1>4, <2>3, <2>4
  <1>5. ASSUME NEW c \in Callers, PullReady(c) \/ PullTick(c)
        PROVE  CallerTypes'
    <2>1. co[c] \in Coroutine /\ loop = c /\ co[c].rounds \in 1 .. MaxLoops /\ MaxLoops \in Nat
      BY <1>0, <1>5, EngineAssumption DEF PullReady, PullTick, Coroutine
    <2> DEFINE r(b) == [co[c] EXCEPT !.pc = "next", !.batch = b, !.rounds = @ - 1]
    <2>2. ASSUME NEW b \in SUBSET Items PROVE r(b) \in Coroutine /\ r(b).pc = "next"
      <3>1. co[c].rounds - 1 \in 0 .. MaxLoops /\ "next" \in PC
        BY <2>1 DEF PC
      <3>2. r(b) = [co[c] EXCEPT !.pc = "next", !.batch = b, !.rounds = co[c].rounds - 1]
        OBVIOUS
      <3>3. QED
        BY <2>1, <3>1, <3>2 DEF Coroutine
    <2>3. ASSUME NEW b \in SUBSET Items, co' = [co EXCEPT ![c] = r(b)], loop' = loop
          PROVE  CallerTypes'
      <3>1. r(b) \in Coroutine /\ r(b).pc = "next"
        BY <2>2
      <3>2. r(b).pc \notin Working /\ r(b).pc \notin {"idle", "await"}
        BY <3>1 DEF Working
      <3> HIDE DEF r
      <3>3. QED
        BY <1>0, <2>1, <2>3, <3>1, <3>2, CallerMoves
    <2>4. With("ready") \in SUBSET Items /\ With("ready")' \in SUBSET Items
      BY DEF With, Created
    <2>5. CASE PullReady(c)
      BY <1>0, <2>3, <2>4, <2>5 DEF PullReady
    <2>6. CASE PullTick(c) /\ With("ready")' = {}
      BY <1>0, <2>1, <2>6, LeaveTypes DEF PullTick
    <2>7. CASE PullTick(c) /\ With("ready")' # {}
      BY <1>0, <2>3, <2>4, <2>7 DEF PullTick
    <2>8. QED
      BY <1>5, <2>5, <2>6, <2>7
  <1>6. ASSUME NEW c \in Callers, NEW i \in Items, StartNext(c, i)
        PROVE  CallerTypes'
    <2> DEFINE r == [co[c] EXCEPT !.pc = "await", !.item = i, !.batch = @ \ {i}]
    <2>1. r \in Coroutine /\ r.pc = "await" /\ r.item = i
      BY <1>0 DEF Coroutine, PC
    <2>2. co' = [co EXCEPT ![c] = r] /\ loop = c /\ loop' = NoCaller
      BY <1>0, <1>6 DEF StartNext
    <2>3. i \in Created
      BY <1>6, SchedulerMeets
      DEF StartNext, Scheduler!StartWorkItem, Scheduler!Created, Created, Base, TypeOK, Scheduler!TypeOK
    <2>4. QED
      BY <1>0, <2>1, <2>2, <2>3, CallerMoves
  <1>7. ASSUME NEW c \in Callers, NEW o \in {"success", "failed", "needs_discussion"},
               loop = NoCaller, co[c].pc = "await", loop' = c,
               co' = [co EXCEPT ![c].pc = "judge", ![c].outcome = o]
        PROVE  CallerTypes'
    <2> DEFINE r == [co[c] EXCEPT !.pc = "judge", !.outcome = o]
    <2>1. "judge" \in PC /\ "await" \in Working
          /\ o \in {"none", "success", "failed", "needs_discussion"}
      BY <1>7 DEF PC, Working
    <2>2. r \in Coroutine /\ r.pc = "judge" /\ r.item = co[c].item
      BY <1>0, <2>1 DEF Coroutine
    <2>3. co' = [co EXCEPT ![c] = r]
      BY <1>0, <1>7
    <2>4. co[c].item \in Created
      BY <1>0, <1>7, <2>1 DEF TypeOK
    <2>5. QED
      BY <1>0, <1>7, <2>2, <2>3, <2>4, CallerMoves
  <1>8. ASSUME NEW c \in Callers, NEW p \in {"obsolete", "rewire"}, NEW T \in SUBSET Items,
               NEW j \in Items \cup {NoItem}, loop' = loop, loop = c, co[c].pc \in Working,
               co' = [co EXCEPT ![c].pc = p, ![c].todo = T, ![c].old = j]
        PROVE  CallerTypes'
    <2> DEFINE r == [co[c] EXCEPT !.pc = p, !.todo = T, !.old = j]
    <2>1. p \in PC /\ p \in Working /\ p \notin {"idle", "await"}
      BY <1>8 DEF PC, Working
    <2>2. r \in Coroutine /\ r.pc = p /\ r.item = co[c].item
      BY <1>0, <2>1 DEF Coroutine
    <2>3. co' = [co EXCEPT ![c] = r] /\ co[c].item \in Created
      BY <1>0, <1>8 DEF TypeOK
    <2>4. QED
      BY <1>0, <1>8, <2>1, <2>2, <2>3, CallerMoves
  <1>9. ASSUME NEW c \in Callers, BeginReflow(c) PROVE CallerTypes'
    <2>1. CASE GoTo(c, "fail")
      BY <1>0, <1>9, <2>1, GoToTypes DEF BeginReflow, PC, Working
    <2>2. CASE ~GoTo(c, "fail")
      <3>1. /\ co' = [co EXCEPT ![c].pc = "obsolete", ![c].todo = Obsolete(co[c].item)]
            /\ loop' = loop /\ loop = c /\ co[c].pc = "reflow"
        BY <1>9, <2>2 DEF BeginReflow
      <3>2. Obsolete(co[c].item) \in SUBSET Items
        BY DEF Obsolete, Retirable, Created
      <3>3. "reflow" \in Working /\ co[c] \in Coroutine
        BY <1>0 DEF Working, PC
      <3>4. co[c].old \in Items \cup {NoItem}
            /\ co' = [co EXCEPT ![c].pc = "obsolete", ![c].todo = Obsolete(co[c].item),
                                ![c].old = co[c].old]
        BY <1>0, <3>1, <3>3 DEF Coroutine
      <3>5. QED
        BY <1>8, <3>1, <3>2, <3>3, <3>4
    <2>3. QED
      BY <2>1, <2>2
  <1>10. ASSUME NEW c \in Callers, SetTerminal(c) PROVE CallerTypes'
    <2> DEFINE m == co[c].item.module
               T == {i \in IntegrationItems : terminal[m] \in dependsOn[i]}
    <2>1. /\ loop' = loop /\ loop = c /\ co[c].pc = "terminal"
          /\ co' = [co EXCEPT ![c].pc = "rewire", ![c].old = terminal[m], ![c].todo = T]
      BY <1>10 DEF SetTerminal
    <2>2. T \in SUBSET Items
      BY DEF IntegrationItems, Created
    <2>3. terminal[m] \in Items \cup {NoItem} /\ "terminal" \in Working
      BY <1>0, <2>1 DEF Base, ReflowSound, TypeOK, Working, PC
    <2>4. co' = [co EXCEPT ![c].pc = "rewire", ![c].todo = T, ![c].old = terminal[m]]
      BY <1>0, <2>1
    <2>5. QED
      BY <1>8, <2>1, <2>2, <2>3, <2>4
  <1>11. ASSUME NEW c \in Callers, NEW i, loop' = loop, loop = c, co[c].pc \in Working \ {"await"},
                co' = [co EXCEPT ![c].todo = @ \ {i}]
         PROVE  CallerTypes'
    <2> DEFINE r == [co[c] EXCEPT !.todo = @ \ {i}]
    <2>1. r \in Coroutine /\ r.pc = co[c].pc /\ r.item = co[c].item
      BY <1>0 DEF Coroutine
    <2>2. co' = [co EXCEPT ![c] = r] /\ co[c].item \in Created
      BY <1>0, <1>11 DEF TypeOK
    <2>3. co[c].pc \notin {"idle", "await"}
      BY <1>11 DEF Working
    <2>4. QED
      BY <1>0, <1>11, <2>1, <2>2, <2>3, CallerMoves
  <1>12. ASSUME NEW c \in Callers, SkipObsolete(c) \/ Rewire(c) PROVE CallerTypes'
    <2>1. {"obsolete", "rewire", "replace"} \subseteq PC /\ "obsolete" \in Working \ {"await"}
          /\ "rewire" \in Working \ {"await"}
      BY DEF PC, Working
    <2>2. CASE GoTo(c, "replace") /\ Rewire(c)
      BY <1>0, <2>1, <2>2, GoToTypes DEF Rewire
    <2>3. CASE ~GoTo(c, "replace") \/ SkipObsolete(c)
      BY <1>11, <1>12, <2>1, <2>3 DEF SkipObsolete, Rewire
    <2>4. QED
      BY <1>12, <2>2, <2>3
  <1>13. ASSUME NEW c \in Callers, Grow(c) PROVE CallerTypes'
    <2>1. PICK p \in {"terminal", "obsolete"} : GoTo(c, p)
      BY <1>13 DEF Grow
    <2>2. p \in PC /\ p \notin {"idle", "await"} /\ "obsolete" \in Working
      BY <2>1 DEF PC, Working
    <2>3. QED
      BY <1>0, <1>13, <2>1, <2>2, GoToTypes DEF Grow
  <1>14. ASSUME Crash PROVE CallerTypes'
    <2>1. Idle \in Coroutine /\ Idle.pc = "idle" /\ "idle" \notin Working
      BY IdleType DEF Idle, Working
    <2>2. NoCaller \notin Callers
      BY EngineAssumption
    <2>3. QED
      BY <1>14, <2>1, <2>2 DEF Crash, CallerTypes
  <1>15. ASSUME NEW c \in Callers, Running(c) \/ Answered(c)
         PROVE  CallerTypes'
    BY <1>2, <1>3, <1>5, <1>6, <1>7, <1>9, <1>10, <1>12, <1>13, <1>15
    DEF Running, Answered, Answer, AnswerDiscuss
  <1>16. QED
    BY <1>1, <1>4, <1>14, <1>15
    DEF Step, Next, Create, Interrupt, Approve, Resolve, ManualTick, ManualStart,
        ManualComplete, Elsewhere

\* A task of a package depends on earlier tasks of the package.
LEMMA PackageAfterEarlier ==
    ASSUME NEW m \in Modules, NEW j \in DOMAIN Package[m]
    PROVE  PackageAfter(m, j) \subseteq 1 .. (j - 1)
  <1> DEFINE before(role) == {k \in 1 .. (j - 1) : Package[m][k].role = role}
  <1> DEFINE named == {Max(before(role)) : role \in {x \in Package[m][j].after : before(x) # {}}}
  <1>1. ASSUME NEW role, before(role) # {} PROVE Max(before(role)) \in 1 .. (j - 1)
    <2>1. before(role) \in SUBSET (0 .. (j - 1)) /\ j - 1 \in Nat
      BY PackageShape
    <2>2. Max(before(role)) \in before(role)
      BY <1>1, <2>1, MaxOf
    <2>3. QED
      BY <2>2
  <1>2. named \subseteq 1 .. (j - 1)
    BY <1>1
  <1>3. PackageAfter(m, j) = IF named = {} /\ j > 1 THEN {j - 1} ELSE named
    BY DEF PackageAfter
  <1>4. j \in Nat /\ (j > 1 => j - 1 \in 1 .. (j - 1))
    BY PackageShape
  <1> HIDE DEF named
  <1>5. QED
    BY <1>2, <1>3, <1>4

\* A package has an item no other one depends on: its last.
LEMMA TerminalPosition ==
    ASSUME NEW m \in Modules
    PROVE  Max(PackageTerminals(m)) \in PackageTerminals(m)
           /\ PackageTerminals(m) \subseteq DOMAIN Package[m]
  <1> DEFINE n == Len(Package[m])
  <1>1. n \in Nat \ {0} /\ DOMAIN Package[m] = 1 .. n
    BY PackageShape
  <1>2. \A j \in 1 .. n : PackageAfter(m, j) \subseteq 1 .. (j - 1)
    BY <1>1, PackageAfterEarlier
  <1>3. n \in PackageTerminals(m)
    BY <1>1, <1>2 DEF PackageTerminals
  <1>4. PackageTerminals(m) \in SUBSET (0 .. n)
    BY <1>1 DEF PackageTerminals
  <1>5. QED
    BY <1>1, <1>3, <1>4, MaxOf DEF PackageTerminals

\* Only the two last global stages leave evidence, each its own.
LEMMA EvidenceShape ==
    ASSUME NEW i \in Items
    PROVE  /\ Evidence(i) \in Seq({"acceptance_report", "release_note", "rollback_plan"})
           /\ \A j \in Items : Range(Evidence(i)) \cap Range(Evidence(j)) # {} => i = j
  <1>1. /\ Evidence(i) \in {<<>>, <<"acceptance_report">>, <<"release_note", "rollback_plan">>}
        /\ Range(Evidence(i)) \subseteq
                IF Role(i) = "acceptance" THEN {"acceptance_report"}
                ELSE IF Role(i) = "release-manager" THEN {"release_note", "rollback_plan"} ELSE {}
    BY DEF Evidence, Range
  <1>2. ASSUME NEW j \in Items, Role(j) \in {"acceptance", "release-manager"}
        PROVE  j = GlobalItem(IF Role(j) = "acceptance" THEN 2 ELSE 3)
    <2>1. CASE j.module = Global
      <3>1. j.pos \in 1 .. 3 /\ j = Item(Global, 0, j.pos)
        BY <2>1, ItemShape, EngineAssumption
      <3>2. QED
        BY <1>2, <2>1, <3>1 DEF Role, GlobalStages, GlobalItem
    <2>2. CASE j.module # Global
      <3>1. Role(j) \in Range(ModuleStages)
        BY <2>2, ItemShape, PackageShape DEF Role, ModuleStages, Range
      <3>2. QED
        BY <1>2, <3>1 DEF ModuleStages, Range
    <2>3. QED
      BY <2>1, <2>2
  <1>3. ASSUME NEW j \in Items, Range(Evidence(i)) \cap Range(Evidence(j)) # {}
        PROVE  i = j
    <2>1. Role(i) = Role(j) /\ Role(j) \in {"acceptance", "release-manager"}
      BY <1>3 DEF Evidence, Range
    <2>2. QED
      BY <1>2, <2>1
  <1> DEFINE Documents == {"acceptance_report", "release_note", "rollback_plan"}
  <1>4. /\ <<>> \in Seq(Documents)
        /\ <<"acceptance_report">> \in Seq(Documents)
        /\ <<"release_note", "rollback_plan">> \in Seq(Documents)
    OBVIOUS
  <1>5. Evidence(i) \in Seq(Documents)
    BY <1>1, <1>4, Zenon
  <1>6. QED
    BY <1>3, <1>5

\* Emitting adds one document that is missing.
LEMMA EmitsMissing ==
    ASSUME TypeOK, NEW c \in Callers, Emit(c), co[c].item \in Items,
           ~(Range(Evidence(co[c].item)) \subseteq artifacts)
    PROVE  \E n \in DOMAIN Evidence(co[c].item) :
               /\ Evidence(co[c].item)[n] \notin artifacts
               /\ artifacts' = artifacts \cup {Evidence(co[c].item)[n]}
               /\ co'[c].pc = "emit" =>
                     \E k \in DOMAIN Evidence(co[c].item) \ {n} :
                        Evidence(co[c].item)[k] \notin artifacts
               /\ co'[c].pc # "emit" => Range(Evidence(co[c].item)) \subseteq artifacts'
  <1> DEFINE e == Evidence(co[c].item)
             missing == {n \in DOMAIN e : e[n] \notin artifacts}
  <1>1. e \in Seq({"acceptance_report", "release_note", "rollback_plan"})
    BY EvidenceShape
  <1>2. missing \in SUBSET Nat /\ missing # {}
    BY <1>1 DEF Range
  <1>3. Min(missing) \in missing
    BY <1>2, MinOf
  <1>4. /\ artifacts' = artifacts \cup {e[Min(missing)]}
        /\ GoTo(c, IF missing = {Min(missing)} THEN "next" ELSE "emit")
    BY DEF Emit
  <1>5. co'[c].pc = "emit" => missing # {Min(missing)}
    BY <1>4 DEF GoTo, TypeOK, Coroutine
  <1>6. co'[c].pc # "emit" => missing = {Min(missing)}
    BY <1>4 DEF GoTo, TypeOK, Coroutine
  <1>7. co'[c].pc # "emit" => Range(e) \subseteq artifacts'
    BY <1>4, <1>6 DEF Range
  <1>8. QED
    BY <1>3, <1>4, <1>5, <1>7

\* A step changes the other variables of the engine within their types.
LEMMA StepEngineTypes ==
    ASSUME Base, Step
    PROVE  EngineTypes'
  <1>0. /\ EngineTypes /\ co \in [Callers -> Coroutine]
        /\ \A c \in Callers : co[c].pc \in Working => co[c].item \in Items
    BY DEF Base, TypeOK, EngineTypes, Created
  <1>1. ASSUME UNCHANGED recordVars PROVE EngineTypes'
    BY <1>0, <1>1 DEF recordVars, EngineTypes
  <1>2. ASSUME NEW c \in Callers, BootstrapEnd(c) PROVE EngineTypes'
    <2>1. \A m \in Modules : Item(m, 0, Max(PackageTerminals(m))) \in Items
      BY TerminalPosition, PackageItem
    <2>2. QED
      BY <1>0, <1>2, <2>1 DEF BootstrapEnd, EngineTypes
  <1>3. ASSUME NEW c \in Callers, JudgeSuccess(c) PROVE EngineTypes'
    BY <1>0, <1>3 DEF JudgeSuccess, EngineTypes
  <1>4. ASSUME NEW c \in Callers, Emit(c) PROVE EngineTypes'
    <2>1. CallerSound(c) /\ co[c].pc = "emit" /\ co[c].item \in Items
      BY <1>0, <1>4 DEF Emit, At, Base, ExecutionSound, Working, PC
    <2>2. PICK n \in DOMAIN Evidence(co[c].item) :
                artifacts' = artifacts \cup {Evidence(co[c].item)[n]}
      BY <1>4, <2>1, EmitsMissing DEF CallerSound, Base
    <2>3. Evidence(co[c].item) \in Seq({"acceptance_report", "release_note", "rollback_plan"})
      BY <2>1, EvidenceShape
    <2>4. artifacts' \subseteq {"acceptance_report", "release_note", "rollback_plan"}
      <3> DEFINE D == {"acceptance_report", "release_note", "rollback_plan"}
                 e == Evidence(co[c].item)
      <3> HIDE DEF D, e
      <3>1. e[n] \in D
        BY <2>2, <2>3 DEF D, e
      <3>2. QED
        BY <1>0, <2>2, <3>1 DEF EngineTypes, D, e
    <2>5. QED
      BY <1>0, <1>4, <2>4 DEF Emit, EngineTypes
  <1>5. ASSUME NEW c \in Callers, BeginReflow(c) PROVE EngineTypes'
    <2>1. co[c].item \in Items
      BY <1>0, <1>5 DEF BeginReflow, At, Working, PC
    <2>2. attempts' \in [Modules -> Nat]
      BY <1>0, <1>5, <2>1, ItemShape DEF BeginReflow, EngineTypes
    <2>3. QED
      BY <1>0, <1>5, <2>2 DEF BeginReflow, EngineTypes
  <1>6. ASSUME NEW c \in Callers, SetTerminal(c) PROVE EngineTypes'
    <2> DEFINE m == co[c].item.module
    <2>1. Len(ModuleStages) = 4
      BY DEF ModuleStages
    <2>2. Item(m, attempts[m], Len(ModuleStages)) \in Items
      BY <1>6, <2>1, PackageItem DEF SetTerminal, At, Base, ReflowSound
    <2>3. terminal' \in [Modules -> Items \cup {NoItem}]
      BY <1>0, <1>6, <2>2 DEF SetTerminal, EngineTypes
    <2>4. QED
      BY <1>0, <1>6, <2>3 DEF SetTerminal, EngineTypes
  <1>7. ASSUME NEW c \in Callers, Bootstrap(c) \/ Execute(c) \/ Answered(c) \/ Running(c)
        PROVE  EngineTypes'
    BY <1>1, <1>2, <1>3, <1>4, <1>5, <1>6, <1>7
    DEF Bootstrap, Execute, Answered, Running, Answer, AnswerDiscuss, AnswerDiscussRefused,
        BootstrapItem, PullReady, PullTick, PullEnd, NextRoundOfBatch, StartNext, StartRefused,
        JudgeDrop, JudgeFailure, Complete, Fail, SkipObsolete, Grow, Rewire, RewireRefused,
        Replace, RaiseIfCanceled
  <1>8. QED
    BY <1>1, <1>7
    DEF Step, Next, Create, Interrupt, Approve, Resolve, ManualTick, ManualStart,
        ManualComplete, Elsewhere, Crash

\* What is done with the coroutines in a step of one of them.
LEMMA OneMoves ==
    ASSUME TypeOK, NEW c \in Callers, Bootstrap(c) \/ Execute(c) \/ Answered(c) \/ Running(c)
    PROVE  loop \in {c, NoCaller} /\ \A d \in Callers \ {c} : co'[d] = co[d]
  <1>1. loop \in {c, NoCaller}
    BY DEF At, Bootstrap, Execute, Answered, Running, Answer, AnswerDiscuss,
        AnswerDiscussRefused, BootstrapItem, BootstrapEnd, PullReady, PullTick, PullEnd,
        NextRoundOfBatch, StartNext, StartRefused, JudgeDrop, JudgeSuccess, JudgeFailure,
        Complete, Emit, Fail, BeginReflow, SkipObsolete, Grow, SetTerminal, Rewire,
        RewireRefused, Replace, RaiseIfCanceled
  <1>2. \E r : co' = [co EXCEPT ![c] = r]
    <2>1. co \in [Callers -> Coroutine]
      BY DEF TypeOK
    <2>2. \A p : GoTo(c, p) => co' = [co EXCEPT ![c] = [@ EXCEPT !.pc = p]]
      BY <2>1 DEF GoTo
    <2>3. Leave(c) => co' = [co EXCEPT ![c] = Idle]
      BY DEF Leave
    <2>4. CASE Answered(c) \/ Bootstrap(c) \/ Execute(c) \/ PullReady(c) \/ PullTick(c)
               \/ \E i \in Items : StartNext(c, i)
      BY <2>1, <2>3, <2>4 DEF Answered, Answer, AnswerDiscuss, AnswerDiscussRefused, Bootstrap,
            Execute, PullReady, PullTick, StartNext
    <2>5. CASE BeginReflow(c) \/ SkipObsolete(c) \/ Grow(c) \/ SetTerminal(c) \/ Rewire(c)
      BY <2>1, <2>2, <2>5 DEF BeginReflow, SkipObsolete, Grow, SetTerminal, Rewire
    <2>6. CASE ~Answered(c)
      BY <2>2, <2>3, <2>4, <2>5, <2>6
      DEF Running, BootstrapItem, BootstrapEnd, PullEnd, NextRoundOfBatch, StartRefused, JudgeDrop,
          JudgeSuccess, JudgeFailure, Complete, Emit, Fail, RewireRefused, Replace, RaiseIfCanceled
    <2>7. QED
      BY <2>4, <2>6
  <1>3. QED
    BY <1>1, <1>2 DEF TypeOK

\* Where a coroutine is after one of its steps, and what it still executes.
LEMMA Moves ==
    ASSUME TypeOK, NEW c \in Callers
    PROVE  /\ \A p : GoTo(c, p) => /\ co'[c].pc = p /\ co'[c].item = co[c].item
                                   /\ co'[c].todo = co[c].todo /\ loop' = loop
           /\ Leave(c) => co'[c].pc = "idle"
           /\ Bootstrap(c) => co'[c].pc = "bootstrap"
           /\ Execute(c) => co'[c].pc = "pull"
           /\ Answered(c) => /\ co[c].pc = "await"
                             /\ \/ co'[c].pc = "idle"
                                \/ co'[c].pc = "judge" /\ co'[c].item = co[c].item
           /\ PullReady(c) \/ PullTick(c) => co'[c].pc \in {"idle", "next"}
           /\ \A i : StartNext(c, i) => co'[c].pc = "await" /\ co'[c].item = i
  <1>1. co[c] \in Coroutine /\ co \in [Callers -> Coroutine]
    BY DEF TypeOK
  <1>2. \A p : GoTo(c, p) => /\ co'[c].pc = p /\ co'[c].item = co[c].item
                            /\ co'[c].todo = co[c].todo /\ loop' = loop
    BY <1>1 DEF GoTo, Coroutine
  <1>3. Leave(c) => co'[c].pc = "idle"
    BY <1>1 DEF Leave, Idle
  <1>4. Bootstrap(c) => co'[c].pc = "bootstrap"
    BY <1>1 DEF Bootstrap, Coroutine
  <1>5. Execute(c) => co'[c].pc = "pull"
    BY <1>1 DEF Execute, Idle
  <1>6. ASSUME Answered(c)
        PROVE  /\ co[c].pc = "await"
               /\ \/ co'[c].pc = "idle"
                  \/ co'[c].pc = "judge" /\ co'[c].item = co[c].item
    <2>1. \A o : co' = [co EXCEPT ![c].pc = "judge", ![c].outcome = o]
                    => co'[c].pc = "judge" /\ co'[c].item = co[c].item
      BY <1>1 DEF Coroutine
    <2>2. QED
      BY <1>3, <1>6, <2>1 DEF Answered, Answer, AnswerDiscuss, AnswerDiscussRefused
  <1>7. PullReady(c) \/ PullTick(c) => co'[c].pc \in {"idle", "next"}
    <2>1. \A b : co' = [co EXCEPT ![c].pc = "next", ![c].batch = b, ![c].rounds = @ - 1]
                    => co'[c].pc = "next"
      BY <1>1 DEF Coroutine
    <2>2. QED
      BY <1>3, <2>1 DEF PullReady, PullTick
  <1>8. \A i : StartNext(c, i) => co'[c].pc = "await" /\ co'[c].item = i
    BY <1>1 DEF StartNext, Coroutine
  <1>9. QED
    BY <1>2, <1>3, <1>4, <1>5, <1>6, <1>7, <1>8

\* The same for the steps of a reflow.
LEMMA ReflowMoves ==
    ASSUME TypeOK, NEW c \in Callers
    PROVE  /\ BeginReflow(c) => /\ co'[c].item = co[c].item
                                /\ \/ co'[c].pc = "fail"
                                   \/ /\ co'[c].pc = "obsolete"
                                      /\ co'[c].todo = Obsolete(co[c].item)
                                      /\ co[c].item.module # Global
                                      /\ ~(attempts[co[c].item.module] >= MaxModuleReflows)
           /\ SkipObsolete(c) => /\ co'[c].pc = "obsolete" /\ co'[c].item = co[c].item
                                 /\ co'[c].todo \subseteq co[c].todo
           /\ Grow(c) => /\ co'[c].pc \in {"obsolete", "terminal"}
                         /\ co'[c].item = co[c].item /\ co'[c].todo = co[c].todo
           /\ SetTerminal(c) => /\ co'[c].pc = "rewire" /\ co'[c].item = co[c].item
                                /\ co'[c].todo = {i \in IntegrationItems :
                                        terminal[co[c].item.module] \in dependsOn[i]}
                                /\ co'[c].old = terminal[co[c].item.module]
           /\ Rewire(c) => /\ co'[c].pc \in {"rewire", "replace"}
                           /\ co'[c].item = co[c].item
                           /\ co'[c].todo \subseteq co[c].todo
  <1>1. co[c] \in Coroutine /\ co \in [Callers -> Coroutine]
    BY DEF TypeOK
  <1>2. ASSUME BeginReflow(c)
        PROVE  /\ co'[c].item = co[c].item
               /\ \/ co'[c].pc = "fail"
                  \/ /\ co'[c].pc = "obsolete" /\ co'[c].todo = Obsolete(co[c].item)
                     /\ co[c].item.module # Global
                     /\ ~(attempts[co[c].item.module] >= MaxModuleReflows)
    <2>1. \A S : co' = [co EXCEPT ![c].pc = "obsolete", ![c].todo = S]
                  => co'[c].pc = "obsolete" /\ co'[c].todo = S /\ co'[c].item = co[c].item
      BY <1>1 DEF Coroutine
    <2>2. QED
      BY <1>2, <2>1, Moves DEF BeginReflow
  <1>3. \A i : co' = [co EXCEPT ![c].todo = @ \ {i}]
                => /\ co'[c].pc = co[c].pc /\ co'[c].item = co[c].item
                   /\ co'[c].todo \subseteq co[c].todo
    BY <1>1 DEF Coroutine
  <1>4. ASSUME SkipObsolete(c)
        PROVE  /\ co'[c].pc = "obsolete" /\ co'[c].item = co[c].item
               /\ co'[c].todo \subseteq co[c].todo
    BY <1>3, <1>4 DEF SkipObsolete, At
  <1>5. ASSUME Grow(c)
        PROVE  /\ co'[c].pc \in {"obsolete", "terminal"}
               /\ co'[c].item = co[c].item /\ co'[c].todo = co[c].todo
    BY <1>5, Moves DEF Grow
  <1>6. ASSUME SetTerminal(c)
        PROVE  /\ co'[c].pc = "rewire" /\ co'[c].item = co[c].item
               /\ co'[c].todo = {i \in IntegrationItems :
                                        terminal[co[c].item.module] \in dependsOn[i]}
               /\ co'[c].old = terminal[co[c].item.module]
    <2>1. \A S, j : co' = [co EXCEPT ![c].pc = "rewire", ![c].old = j, ![c].todo = S]
                  => /\ co'[c].pc = "rewire" /\ co'[c].todo = S /\ co'[c].item = co[c].item
                     /\ co'[c].old = j
      BY <1>1 DEF Coroutine
    <2>2. QED
      BY <1>6, <2>1 DEF SetTerminal
  <1>7. ASSUME Rewire(c)
        PROVE  /\ co'[c].pc \in {"rewire", "replace"}
               /\ co'[c].item = co[c].item /\ co'[c].todo \subseteq co[c].todo
    BY <1>3, <1>7, Moves DEF Rewire, At
  <1>8. QED
    BY <1>2, <1>4, <1>5, <1>6, <1>7

\* Reflows keep their bounds.
LEMMA StepReflows ==
    ASSUME Base, Step
    PROVE  ReflowSound'
  <1> DEFINE Sound(c) == co[c].pc \in {"obsolete", "terminal", "rewire", "replace"} =>
        LET i == co[c].item IN
        /\ i.module \in Modules
        /\ attempts[i.module] \in 1 .. MaxModuleReflows
        /\ co[c].pc = "obsolete" =>
                co[c].todo \subseteq {j \in Created : j.module = i.module /\ j # i}
        /\ co[c].todo \subseteq Created
  <1>0. /\ TypeOK /\ Created \subseteq Created' /\ \A c \in Callers : Sound(c)
        /\ co \in [Callers -> Coroutine] /\ NoCaller \notin Callers
    BY SchedulerKept, EngineAssumption DEF Base, TypeOK, ReflowSound
  <1>1. ASSUME NEW c \in Callers, co'[c] = co[c], loop # c PROVE Sound(c)'
    BY <1>0, <1>1 DEF TypeOK
  <1>2. ASSUME NEW c \in Callers, Bootstrap(c) \/ Execute(c) \/ Answered(c) \/ Running(c)
        PROVE  Sound(c)'
    <2>1. ASSUME co'[c].pc \notin {"obsolete", "terminal", "rewire", "replace"} PROVE Sound(c)'
      BY <2>1
    <2>2. ASSUME UNCHANGED attempts, co[c].pc \in {"obsolete", "terminal", "rewire", "replace"},
                 co'[c].item = co[c].item, co'[c].todo \subseteq co[c].todo,
                 co'[c].pc = "obsolete" => co[c].pc = "obsolete"
          PROVE  Sound(c)'
      BY <1>0, <2>2
    <2>3. ASSUME BeginReflow(c), co'[c].pc = "obsolete" PROVE Sound(c)'
      <3> DEFINE i == co[c].item
      <3>1. i \in Items /\ attempts \in [Modules -> Nat] /\ MaxModuleReflows \in Nat
        BY <1>0, <2>3, EngineAssumption DEF BeginReflow, At, TypeOK, Working, PC, Created
      <3>2. /\ co'[c].todo = Obsolete(i) /\ co'[c].item = i
            /\ i.module # Global /\ ~(attempts[i.module] >= MaxModuleReflows)
        BY <1>0, <2>3, ReflowMoves
      <3>3. i.module \in Modules /\ attempts'[i.module] \in 1 .. MaxModuleReflows
        BY <2>3, <3>1, <3>2, ItemShape DEF BeginReflow
      <3>4. Obsolete(i) \subseteq {j \in Created : j.module = i.module /\ j # i}
        BY DEF Obsolete, Retirable
      <3>5. QED
        BY <1>0, <2>3, <3>2, <3>3, <3>4
    <2>4. ASSUME SetTerminal(c) PROVE Sound(c)'
      <3>1. /\ co'[c].todo \subseteq IntegrationItems /\ co'[c].item = co[c].item
            /\ co'[c].pc = "rewire" /\ co[c].pc = "terminal" /\ attempts' = attempts
        BY <1>0, <2>4, ReflowMoves DEF SetTerminal, At
      <3>2. IntegrationItems \subseteq Created
        BY DEF IntegrationItems
      <3>3. QED
        BY <1>0, <3>1, <3>2
    <2>5. ASSUME SkipObsolete(c) \/ Grow(c) \/ Rewire(c) PROVE Sound(c)'
      <3>1. co[c].pc \in {"obsolete", "rewire"} /\ UNCHANGED attempts
        BY <2>5 DEF SkipObsolete, Grow, Rewire, At, recordVars
      <3>2. /\ co'[c].item = co[c].item /\ co'[c].todo \subseteq co[c].todo
            /\ co'[c].pc = "obsolete" => co[c].pc = "obsolete"
        BY <1>0, <2>5, ReflowMoves DEF SkipObsolete, Grow, At
      <3>3. QED
        BY <2>2, <3>1, <3>2
    <2>6. ASSUME NEW p, p \notin {"obsolete", "terminal", "rewire", "replace"}, GoTo(c, p)
          PROVE  Sound(c)'
      BY <1>0, <2>1, <2>6, Moves
    <2>7. CASE Bootstrap(c) \/ Execute(c) \/ Answered(c) \/ PullReady(c) \/ PullTick(c)
               \/ Leave(c) \/ \E i \in Items : StartNext(c, i)
      BY <1>0, <2>1, <2>7, Moves
    <2>8. CASE BeginReflow(c) /\ co'[c].pc # "obsolete"
      BY <1>0, <2>1, <2>8, ReflowMoves
    <2>9. CASE Running(c) /\ ~PullReady(c) /\ ~PullTick(c) /\ ~(\E i \in Items : StartNext(c, i))
      BY <2>3, <2>4, <2>5, <2>6, <2>7, <2>8, <2>9
      DEF Running, BootstrapItem, BootstrapEnd, PullEnd, NextRoundOfBatch, StartRefused, JudgeDrop,
          JudgeSuccess, JudgeFailure, Complete, Emit, Fail, RewireRefused, Replace, RaiseIfCanceled
    <2>10. QED
      BY <1>2, <2>7, <2>9
  <1>3. ASSUME NEW c \in Callers, Bootstrap(c) \/ Execute(c) \/ Answered(c) \/ Running(c)
        PROVE  ReflowSound'
    BY <1>0, <1>1, <1>2, <1>3, OneMoves DEF ReflowSound
  <1>4. ASSUME loop = NoCaller, UNCHANGED co PROVE ReflowSound'
    BY <1>0, <1>1, <1>4 DEF ReflowSound
  <1>5. CASE Crash
    BY <1>5 DEF Crash, ReflowSound, Idle
  <1>6. QED
    BY <1>3, <1>4, <1>5
    DEF Step, Next, Create, Interrupt, Approve, Resolve, ManualTick, ManualStart,
        ManualComplete, Elsewhere

-----------------------------------------------------------------------------
(* Who executes what                                                       *)

\* What a step may make of an item that is running: it goes on, or ends, unless the
\* coroutine that awaits its result has got a question instead.
LEMMA RunningGoesOn ==
    ASSUME Base, Step, NEW i \in Items, status[i] = "running",
           \A c \in Callers : co[c].pc = "await" /\ co[c].item = i => ~Answered(c)
    PROVE  status'[i] \in {"running", "succeeded", "failed", "skipped"}
  <1> DEFINE Goal == status'[i] \in {"running", "succeeded", "failed", "skipped"}
  <1>0. status \in [Items -> Scheduler!ItemStatus]
    BY DEF Base, TypeOK, Scheduler!TypeOK
  <1>1. status' = status => Goal
    OBVIOUS
  <1>2. \A j, s : Scheduler!Move(j, s) /\ (j = i => s \in {"running", "succeeded", "failed", "skipped"})
                    => Goal
    BY <1>0 DEF Scheduler!Move
  <1>3. Scheduler!Tick(Run) => Goal
    BY <1>0 DEF Scheduler!Tick, Scheduler!Releasable
  <1>4. \A skip : Scheduler!InterruptRun(Run, skip) => Goal
    BY <1>0 DEF Scheduler!InterruptRun
  <1>5. \A j : Scheduler!StartWorkItem(j) \/ Scheduler!SkipWorkItem(j)
               \/ Scheduler!CompleteWorkItem(j, TRUE) \/ Scheduler!CompleteWorkItem(j, FALSE)
               => Goal
    BY <1>2 DEF Scheduler!StartWorkItem, Scheduler!SkipWorkItem, Scheduler!CompleteWorkItem
  <1>6. \A j : Scheduler!ApproveWorkItem(j) => Goal
    BY <1>2 DEF Scheduler!ApproveWorkItem
  <1>7. \A j, n, late : Scheduler!ResolveDiscussion(j, n, late) => Goal
    BY <1>2 DEF Scheduler!ResolveDiscussion
  <1>8. \A j, fp : Scheduler!MarkNeedsDiscussion(j, fp) /\ j # i => Goal
    BY <1>2 DEF Scheduler!MarkNeedsDiscussion, Scheduler!ExhaustDiscussion,
        Scheduler!OpenDiscussion
  <1>9. \A j, r, ds, a : Scheduler!AddWorkItem(j, r, ds, a)
                         \/ Scheduler!UpdateWorkItemDependencies(j, ds) \/ Scheduler!CreateRun(r)
                         => Goal
    BY <1>1 DEF Scheduler!AddWorkItem, Scheduler!UpdateWorkItemDependencies, Scheduler!CreateRun
  <1>10. ASSUME NEW c \in Callers, Answered(c) PROVE Goal
    BY <1>1, <1>8, <1>10
    DEF Answered, Answer, AnswerDiscuss, AnswerDiscussRefused, schedulerVars
  <1>11. ASSUME NEW c \in Callers, Running(c) PROVE Goal
    BY <1>1, <1>3, <1>5, <1>9, <1>11
    DEF Running, BootstrapItem, BootstrapEnd, PullReady, PullTick, PullEnd, NextRoundOfBatch,
        StartNext, StartRefused, JudgeDrop, JudgeSuccess, JudgeFailure, Complete, Emit, Fail,
        BeginReflow, SkipObsolete, Grow, SetTerminal, Rewire, RewireRefused, Replace,
        RaiseIfCanceled, schedulerVars
  <1>12. ASSUME Next PROVE Goal
    BY <1>1, <1>3, <1>4, <1>5, <1>6, <1>7, <1>9, <1>10, <1>11, <1>12
    DEF Next, Bootstrap, Execute, Create, Interrupt, Approve, Resolve, ManualTick, ManualStart,
        ManualComplete, Elsewhere, schedulerVars
  <1>13. QED
    BY <1>1, <1>12 DEF Step, Crash, schedulerVars

\* What is finished stays finished.
LEMMA FinishedStays ==
    ASSUME Base, [Step]_vars, NEW i \in Items, status[i] \in {"succeeded", "failed", "skipped"}
    PROVE  status'[i] = status[i]
  <1>1. Sched!TypeOK /\ Sched!SchedulerAssumption
    BY SameTypeOK, SchedulerMeets DEF Base, TypeOK
  <1>2. [Sched!Operation]_(Sched!vars)
    BY EngineOperates DEF Base, vars, schedulerVars, Sched!vars
  <1>3. status[i] \in Sched!TerminalItem => status'[i] = status[i]
    BY <1>1, <1>2, Sched!OperationOnItem
  <1>4. QED
    BY <1>3 DEF Sched!TerminalItem

\* What a coroutine executes is an item, and the one who acts on it holds the loop.
LEMMA WorkingItem ==
    ASSUME Base, NEW c \in Callers
    PROVE  /\ co[c].pc \in Working => co[c].item \in Items /\ co[c].item \in Created
           /\ co[c].pc \in {"await", "judge", "emit"} => co[c].pc \in Working
           /\ co[c].pc \in Acting => co[c].pc \in Working
           /\ loop # c => co[c].pc \in {"idle", "await"}
  BY DEF Base, TypeOK, Created, Working, PC, Acting

\* A coroutine works on an item only from start_workitem on.
LEMMA WorkingMoves ==
    ASSUME TypeOK, NEW c \in Callers, Bootstrap(c) \/ Execute(c) \/ Answered(c) \/ Running(c),
           co'[c].pc \in Working
    PROVE  \/ co[c].pc \in Working /\ co'[c].item = co[c].item
           \/ co'[c].item \in Items /\ StartNext(c, co'[c].item)
  <1> USE DEF At
  <1> DEFINE Goal == \/ co[c].pc \in Working /\ co'[c].item = co[c].item
                     \/ co'[c].item \in Items /\ StartNext(c, co'[c].item)
  <1>0. /\ \A p \in {"idle", "bootstrap", "pull", "next"} : p \notin Working
        /\ "await" \in Working /\ "judge" \in Working /\ "complete" \in Working
        /\ "emit" \in Working /\ "fail" \in Working /\ "reflow" \in Working
        /\ "obsolete" \in Working /\ "terminal" \in Working /\ "rewire" \in Working
        /\ "replace" \in Working
    BY DEF Working, PC
  <1>1. ASSUME NEW i \in Items, StartNext(c, i) PROVE Goal
    BY <1>1, Moves
  <1>2. CASE Bootstrap(c) \/ Execute(c) \/ PullReady(c) \/ PullTick(c) \/ Leave(c)
    BY <1>0, <1>2, Moves
  <1>3. CASE Answered(c)
    BY <1>0, <1>3, Moves
  <1>4. ASSUME NEW p, p \in {"pull", "next", "bootstrap"}, GoTo(c, p) PROVE Goal
    BY <1>0, <1>4, Moves
  <1>5. ASSUME NEW p, co[c].pc \in Working, GoTo(c, p) PROVE Goal
    BY <1>5, Moves
  <1>6. CASE BeginReflow(c) \/ SkipObsolete(c) \/ Grow(c) \/ SetTerminal(c) \/ Rewire(c)
    <2>1. co[c].pc \in Working
      BY <1>0, <1>6 DEF BeginReflow, SkipObsolete, Grow, SetTerminal, Rewire
    <2>2. QED
      BY <1>6, <2>1, ReflowMoves
  <1>7. CASE JudgeSuccess(c) \/ JudgeFailure(c) \/ Complete(c) \/ Emit(c)
    <2>1. co[c].pc \in Working
      BY <1>0, <1>7 DEF JudgeSuccess, JudgeFailure, Complete, Emit
    <2>2. QED
      BY <1>5, <1>7, <2>1 DEF JudgeSuccess, JudgeFailure, Complete, Emit
  <1>8. CASE Running(c)
    BY <1>1, <1>2, <1>4, <1>6, <1>7, <1>8
    DEF Running, BootstrapItem, BootstrapEnd, PullEnd, NextRoundOfBatch, StartRefused, JudgeDrop,
        Fail, RewireRefused, Replace, RaiseIfCanceled
  <1>9. QED
    BY <1>2, <1>3, <1>8

\* Every step keeps what each caller knows of its item, and that no two execute the same one.
LEMMA StepExecution ==
    ASSUME Base, Step
    PROVE  ExecutionSound'
  <1> USE DEF At
  <1>0. /\ TypeOK /\ [Step]_vars /\ NoCaller \notin Callers
        /\ \A c \in Callers : CallerSound(c)
        /\ Exclusive /\ EvidenceFollows /\ "await" \in Working
    BY EngineAssumption DEF Base, ExecutionSound, Working, PC
  <1>1. ASSUME NEW d \in Callers, co'[d] = co[d], loop # d, ~Answered(d) PROVE CallerSound(d)'
    <2>1. co[d].pc \in {"idle", "await"}
      BY <1>1, WorkingItem
    <2>2. CASE co[d].pc = "await"
      <3> DEFINE i == co[d].item
      <3>1. i \in Items /\ status[i] \in {"running", "succeeded", "failed", "skipped"}
        BY <1>0, <2>2, WorkingItem DEF CallerSound
      <3>2. \A c \in Callers : co[c].pc = "await" /\ co[c].item = i => ~Answered(c)
        BY <1>0, <1>1, <2>2 DEF Exclusive
      <3>3. status'[i] \in {"running", "succeeded", "failed", "skipped"}
        BY <1>0, <3>1, <3>2, RunningGoesOn, FinishedStays
      <3>4. QED
        BY <1>1, <2>2, <3>3 DEF CallerSound, Acting
    <2>3. CASE co[d].pc = "idle"
      BY <1>1, <2>3 DEF CallerSound, Acting
    <2>4. QED
      BY <2>1, <2>2, <2>3
  <1>2. ASSUME NEW c \in Callers, Bootstrap(c) \/ Execute(c) \/ Answered(c) \/ Running(c)
        PROVE  CallerSound(c)'
    <2> DEFINE i == co[c].item
    <2>1. ASSUME co'[c].pc \notin Acting, co'[c].pc \notin {"await", "emit"} PROVE CallerSound(c)'
      BY <2>1 DEF CallerSound
    <2>2. ASSUME co'[c].pc \in Acting, co'[c].item = i, status'[i] = "running"
          PROVE  CallerSound(c)'
      BY <2>2 DEF CallerSound, Acting
    <2>3. ASSUME NEW p, p \in {"bootstrap", "pull", "next", "idle", "judge"}, co'[c].pc = p
          PROVE  CallerSound(c)'
      BY <2>1, <2>3 DEF Acting
    <2>4. ASSUME NEW j \in Items, StartNext(c, j) PROVE CallerSound(c)'
      <3>1. co'[c].pc = "await" /\ co'[c].item = j
        BY <1>0, <2>4, Moves
      <3>2. status'[j] = "running"
        BY <2>4 DEF StartNext, Scheduler!StartWorkItem, Scheduler!Move, Base, TypeOK, Scheduler!TypeOK
      <3>3. QED
        BY <3>1, <3>2 DEF CallerSound, Acting
    <2>5. ASSUME JudgeSuccess(c) \/ JudgeFailure(c) PROVE CallerSound(c)'
      <3>1. co'[c].pc \in {"complete", "reflow", "fail"} /\ co'[c].item = i
        BY <1>0, <2>5, Moves DEF JudgeSuccess, JudgeFailure
      <3>2. status'[i] = "running"
        BY <2>5 DEF JudgeSuccess, JudgeFailure, schedulerVars
      <3>3. QED
        BY <2>2, <3>1, <3>2 DEF Acting
    <2>6. ASSUME Complete(c) PROVE CallerSound(c)'
      <3>1. CASE co'[c].pc = "next"
        BY <2>3, <3>1
      <3>2. CASE co'[c].pc # "next"
        <4>1. co'[c].pc = "emit" /\ co'[c].item = i /\ Evidence(i) # <<>>
          BY <1>0, <2>6, <3>2, Moves DEF Complete
        <4>2. i \in Items /\ status[i] = "running"
          BY <1>0, <2>6, WorkingItem DEF Complete, CallerSound, Acting
        <4>3. status'[i] = "succeeded"
          BY <2>6, <4>2 DEF Complete, Scheduler!CompleteWorkItem, Scheduler!Move, Base, TypeOK, Scheduler!TypeOK
        <4>4. Range(Evidence(i)) \cap artifacts = {} /\ artifacts' = artifacts
          BY <1>0, <2>6, <4>2 DEF EvidenceFollows, Complete, recordVars
        <4>5. Range(Evidence(i)) # {}
          BY <4>1 DEF Evidence, Range
        <4>6. QED
          BY <4>1, <4>3, <4>4, <4>5 DEF CallerSound, Acting
      <3>3. QED
        BY <3>1, <3>2
    <2>7. ASSUME Emit(c) PROVE CallerSound(c)'
      <3>1. CASE co'[c].pc = "next"
        BY <2>3, <3>1
      <3>2. CASE co'[c].pc # "next"
        <4>1. co'[c].pc = "emit" /\ co'[c].item = i
          BY <1>0, <2>7, <3>2, Moves DEF Emit
        <4>2. /\ i \in Items /\ status[i] = "succeeded" /\ status' = status
              /\ ~(Range(Evidence(i)) \subseteq artifacts)
          BY <1>0, <2>7, WorkingItem DEF Emit, CallerSound, schedulerVars
        <4>3. PICK n \in DOMAIN Evidence(i) :
                /\ artifacts' = artifacts \cup {Evidence(i)[n]}
                /\ \E k \in DOMAIN Evidence(i) \ {n} : Evidence(i)[k] \notin artifacts
          BY <1>0, <2>7, <4>1, <4>2, EmitsMissing
        <4>4. PICK k \in DOMAIN Evidence(i) \ {n} : Evidence(i)[k] \notin artifacts
          BY <4>3
        <4>5. Evidence(i)[k] # Evidence(i)[n]
          BY <4>3, <4>4, <4>1 DEF Evidence
        <4>6. ~(Range(Evidence(i)) \subseteq artifacts')
          BY <4>3, <4>4, <4>5 DEF Range
        <4>7. QED
          BY <4>1, <4>2, <4>6 DEF CallerSound, Acting
      <3>3. QED
        BY <3>1, <3>2
    <2>8. ASSUME BeginReflow(c) \/ Grow(c) \/ SetTerminal(c) \/ Rewire(c) PROVE CallerSound(c)'
      <3>1. co'[c].pc \in Acting /\ co'[c].item = i /\ co[c].pc \in Acting
        BY <1>0, <2>8, ReflowMoves DEF Acting, BeginReflow, Grow, SetTerminal, Rewire
      <3>2. status' = status
        BY <2>8 DEF BeginReflow, Grow, SetTerminal, Rewire, schedulerVars,
           Scheduler!AddWorkItem, Scheduler!UpdateWorkItemDependencies
      <3>3. status[i] = "running"
        BY <1>0, <3>1 DEF CallerSound
      <3>4. QED
        BY <2>2, <3>1, <3>2, <3>3
    <2>9. ASSUME SkipObsolete(c) PROVE CallerSound(c)'
      <3>1. co'[c].pc \in Acting /\ co'[c].item = i /\ co[c].pc = "obsolete"
        BY <1>0, <2>9, ReflowMoves DEF Acting, SkipObsolete
      <3>2. status[i] = "running" /\ i \notin co[c].todo
        BY <1>0, <3>1 DEF CallerSound, Acting, Base, ReflowSound
      <3>3. PICK j \in co[c].todo : Scheduler!Move(j, "skipped")
        BY <2>9 DEF SkipObsolete, Scheduler!SkipWorkItem
      <3>4. status'[i] = "running"
        BY <3>2, <3>3 DEF Scheduler!Move, Base, TypeOK, Scheduler!TypeOK
      <3>5. QED
        BY <2>2, <3>1, <3>4
    <2>10. CASE Bootstrap(c) \/ Execute(c) \/ Answered(c) \/ PullReady(c) \/ PullTick(c) \/ Leave(c)
      BY <1>0, <2>3, <2>10, Moves
    <2>11. ASSUME NEW p, p \in {"bootstrap", "pull", "next"}, GoTo(c, p) PROVE CallerSound(c)'
      BY <1>0, <2>3, <2>11, Moves
    <2>12. CASE Running(c)
      BY <2>4, <2>5, <2>6, <2>7, <2>8, <2>9, <2>10, <2>11, <2>12
      DEF Running, BootstrapItem, BootstrapEnd, PullEnd, NextRoundOfBatch, StartRefused, JudgeDrop,
          Fail, RewireRefused, Replace, RaiseIfCanceled
    <2>13. QED
      BY <1>2, <2>10, <2>12
  <1>3. \A i \in Items : status[i] = "succeeded" => status'[i] = "succeeded"
    BY <1>0, FinishedStays
  <1>4. ASSUME UNCHANGED artifacts PROVE EvidenceFollows'
    BY <1>0, <1>3, <1>4 DEF EvidenceFollows, Evidence, Role, Range
  <1>5. ASSUME NEW c \in Callers, Bootstrap(c) \/ Execute(c) \/ Answered(c) \/ Running(c)
        PROVE  Exclusive'
    <2>1. \A d \in Callers \ {c} : co'[d] = co[d]
      BY <1>0, <1>5, OneMoves
    <2>2. ASSUME NEW d \in Callers \ {c}, co[d].pc \in Working, co'[c].pc \in Working
          PROVE  co'[c].item # co[d].item
      <3>1. CASE co[c].pc \in Working /\ co'[c].item = co[c].item
        BY <1>0, <2>2, <3>1 DEF Exclusive
      <3>2. CASE StartNext(c, co'[c].item)
        <4>1. status[co'[c].item] = "ready" /\ loop = c
          BY <3>2 DEF StartNext, Scheduler!StartWorkItem
        <4>2. co[d].pc = "await"
          BY <1>0, <2>2, <4>1, WorkingItem DEF Working
        <4>3. QED
          BY <1>0, <4>1, <4>2 DEF CallerSound
      <3>3. QED
        BY <1>0, <1>5, <2>2, <3>1, <3>2, WorkingMoves
    <2>3. QED
      BY <1>0, <2>1, <2>2 DEF Exclusive
  <1>6. ASSUME NEW c \in Callers, Bootstrap(c) \/ Execute(c) \/ Answered(c) \/ Running(c)
        PROVE  EvidenceFollows'
    <2>5. CASE Emit(c)
      <3> DEFINE i == co[c].item
      <3>1. i \in Items /\ status[i] = "succeeded" /\ ~(Range(Evidence(i)) \subseteq artifacts)
        BY <1>0, <2>5, WorkingItem DEF Emit, CallerSound
      <3>2. PICK n \in DOMAIN Evidence(i) : artifacts' = artifacts \cup {Evidence(i)[n]}
        BY <1>0, <2>5, <3>1, EmitsMissing
      <3>3. Evidence(i)[n] \in Range(Evidence(i))
        BY DEF Range
      <3>4. ASSUME NEW j \in Items, Range(Evidence(j)) \cap artifacts' # {}
            PROVE  status'[j] = "succeeded"
        <4>1. CASE j = i
          BY <1>3, <3>1, <4>1
        <4>2. CASE j # i
          <5>1. Evidence(i)[n] \notin Range(Evidence(j))
            BY <3>1, <3>3, <4>2, EvidenceShape
          <5>2. QED
            BY <1>0, <1>3, <3>2, <3>4, <5>1 DEF EvidenceFollows
        <4>3. QED
          BY <4>1, <4>2
      <3>5. EvidenceFollows'
        BY <3>4 DEF EvidenceFollows, Evidence, Role, Range
      <3>6. QED
        BY <3>5
    <2>6. CASE ~Emit(c)
      <3>1. UNCHANGED artifacts
        BY <1>6, <2>6
        DEF Bootstrap, Execute, Answered, Running, Answer, AnswerDiscuss, AnswerDiscussRefused,
            BootstrapItem, BootstrapEnd, PullReady, PullTick, PullEnd, NextRoundOfBatch, StartNext,
            StartRefused, JudgeDrop, JudgeSuccess, JudgeFailure, Complete, Fail, BeginReflow,
            SkipObsolete, Grow, SetTerminal, Rewire, RewireRefused, Replace, RaiseIfCanceled, recordVars
      <3>2. QED
        BY <1>4, <3>1
    <2>7. QED
      BY <2>5, <2>6
  <1>7. ASSUME NEW c \in Callers, Bootstrap(c) \/ Execute(c) \/ Answered(c) \/ Running(c)
        PROVE  ExecutionSound'
    <2>1. \A d \in Callers \ {c} : co'[d] = co[d] /\ loop # d
      BY <1>0, <1>7, OneMoves
    <2>2. ASSUME NEW d \in Callers \ {c}, Answered(d) PROVE FALSE
      BY <1>0, <2>1, <2>2, Moves
    <2>3. QED
      BY <1>1, <1>2, <1>5, <1>6, <1>7, <2>1, <2>2 DEF ExecutionSound
  <1>8. ASSUME loop = NoCaller, UNCHANGED <<loop, co, artifacts>> PROVE ExecutionSound'
    <2>1. \A d \in Callers : ~Answered(d)
      BY <1>0, <1>8, Moves
    <2>2. QED
      BY <1>0, <1>1, <1>4, <1>8, <2>1 DEF ExecutionSound, Exclusive
  <1>9. CASE Crash
    <2>1. (\A c \in Callers : co'[c].pc = "idle") /\ "idle" \notin Working
      BY <1>9 DEF Crash, Idle, Working
    <2>2. EvidenceFollows'
      BY <1>4, <1>9 DEF Crash, recordVars
    <2>3. QED
      BY <2>1, <2>2 DEF ExecutionSound, CallerSound, Acting, Exclusive
  <1>10. QED
    BY <1>7, <1>8, <1>9
    DEF Step, Next, Create, Interrupt, Approve, Resolve, ManualTick, ManualStart,
        ManualComplete, Elsewhere, recordVars

\* Initially nothing has been done.
LEMMA InitBase == Init => Base
  <1> SUFFICES ASSUME Init PROVE Base
    OBVIOUS
  <1>1. Sched!Init /\ Sched!SchedulerAssumption
    BY SameInit, SchedulerMeets DEF Init, Scheduler!Init
  <1>2. Sched!TypeOK /\ Sched!RunsAreIsolated /\ Sched!RunStatusSound
    BY <1>1, Sched!InitInv DEF Sched!Inv
  <1>3. /\ Idle \in Coroutine /\ NoCaller \notin Callers
        /\ Idle.pc = "idle" /\ "idle" \notin Working /\ "idle" \notin Acting
    BY IdleType, EngineAssumption DEF Idle, Working, Acting
  <1>4. TypeOK
    <2>1. Scheduler!TypeOK
      BY <1>2, SameTypeOK
    <2>2. \A c \in Callers : co[c] = Idle
      BY DEF Init
    <2>3. CallerTypes
      BY <1>3, <2>2 DEF Init, CallerTypes
    <2>4. EngineTypes
      BY DEF Init, EngineTypes
    <2>5. QED
      BY <2>1, <2>3, <2>4, Zenon DEF TypeOK, CallerTypes, EngineTypes
  <1>5. ReflowSound /\ ExecutionSound
    <2>1. (\A c \in Callers : co[c].pc = "idle") /\ "idle" \notin Working
      BY <1>3 DEF Init
    <2>2. artifacts = {}
      BY DEF Init
    <2>3. QED
      BY <2>1, <2>2
      DEF ReflowSound, ExecutionSound, CallerSound, Acting, Exclusive, EvidenceFollows
  <1>6. QED
    BY <1>2, <1>4, <1>5 DEF Base

\* A step preserves all of it.
LEMMA StepBase == Base /\ [Step]_vars => Base'
  <1> SUFFICES ASSUME Base, [Step]_vars PROVE Base'
    OBVIOUS
  <1>1. CASE Step
    <2>1. Scheduler!TypeOK' /\ Sched!RunsAreIsolated' /\ Sched!RunStatusSound'
      BY SchedulerKept
    <2>2. TypeOK'
      BY <1>1, <2>1, StepTypes, StepEngineTypes, Zenon DEF TypeOK, CallerTypes, EngineTypes
    <2>3. QED
      BY <1>1, <2>1, <2>2, StepReflows, StepExecution DEF Base
  <1>2. CASE UNCHANGED vars
    <2>1. Scheduler!TypeOK' /\ Sched!RunsAreIsolated' /\ Sched!RunStatusSound'
      BY SchedulerKept
    <2>2. TypeOK'
      <3>1. EngineTypes /\ CallerTypes
        BY DEF Base, TypeOK, EngineTypes, CallerTypes
      <3>2. EngineTypes'
        BY <1>2, <3>1 DEF EngineTypes, vars, recordVars
      <3>3. CallerTypes'
        BY <1>2, <3>1 DEF CallerTypes, vars, schedulerVars, Created
      <3>4. QED
        BY <2>1, <3>2, <3>3, Zenon DEF TypeOK, CallerTypes, EngineTypes
    <2>3. ReflowSound'
      BY <1>2 DEF Base, ReflowSound, Created, vars, recordVars, schedulerVars
    <2>4. ExecutionSound'
      <3>1. ASSUME NEW c \in Callers PROVE CallerSound(c)'
        BY <1>2 DEF Base, ExecutionSound, CallerSound, vars, recordVars, schedulerVars,
           Evidence, Role
      <3>2. Exclusive' /\ EvidenceFollows'
        BY <1>2 DEF Base, ExecutionSound, Exclusive, EvidenceFollows,
           vars, recordVars, schedulerVars, Evidence, Role, Range
      <3>3. QED
        BY <3>1, <3>2 DEF ExecutionSound
    <2>5. QED
      BY <2>1, <2>2, <2>3, <2>4 DEF Base
  <1>3. QED
    BY <1>1, <1>2

\* The engine whose process may die at any step and come back.
CrashSpec == Init /\ [][Step]_vars

\* Whatever is refused, interrupted or crashes: types, and the soundness of the run status
\* the scheduler keeps.
THEOREM EngineInvariance == CrashSpec => []Base
  BY InitBase, StepBase, PTL DEF CrashSpec

\* A process that lives is one that may die.
LEMMA SpecCrashes == Spec => CrashSpec
  BY PTL DEF Spec, CrashSpec, Step

\* The ranges of the variables, and that what is executed exists, through any crash.
THEOREM EngineTypeCorrect == CrashSpec => []TypeOK
  BY EngineInvariance, PTL DEF Base

\* Two coroutines never execute the same item at the same time: start_workitem refuses
\* an item that is not ready, and only the coroutine that awaits it can make it so again.
THEOREM ExclusiveExecution == (Spec => []OneExecution) /\ (CrashSpec => []OneExecution)
  <1>1. Base => OneExecution
    BY DEF Base, ExecutionSound, Exclusive, OneExecution, Working, PC
  <1>2. QED
    BY <1>1, EngineInvariance, SpecCrashes, PTL

-----------------------------------------------------------------------------
(* What only the engine does to an item: the API that starts and completes *)
(* items by hand is not used                                               *)

\* Who starts an item, who lets it succeed, and who skips it.
LEMMA WhoMoves ==
    ASSUME Base, Step, NEW i \in Items, status'[i] # status[i]
    PROVE  /\ ~ManualApi =>
                /\ status'[i] = "running" => \E c \in Callers : StartNext(c, i)
                /\ status'[i] = "succeeded" => \E c \in Callers : Complete(c) /\ co[c].item = i
                /\ status[i] = "running" /\ status'[i] = "failed" =>
                     \E c \in Callers : (Answered(c) \/ Fail(c)) /\ co[c].item = i
           /\ status'[i] = "skipped" =>
                \/ Canceled'
                \/ \E c \in Callers : \/ Replace(c) /\ co[c].item = i
                                      \/ SkipObsolete(c) /\ i \in co[c].todo
  <1> DEFINE Goal ==
        /\ ~ManualApi =>
             /\ status'[i] = "running" => \E c \in Callers : StartNext(c, i)
             /\ status'[i] = "succeeded" => \E c \in Callers : Complete(c) /\ co[c].item = i
             /\ status[i] = "running" /\ status'[i] = "failed" =>
                  \E c \in Callers : (Answered(c) \/ Fail(c)) /\ co[c].item = i
        /\ status'[i] = "skipped" =>
             \/ Canceled'
             \/ \E c \in Callers : \/ Replace(c) /\ co[c].item = i
                                   \/ SkipObsolete(c) /\ i \in co[c].todo
  <1>0. status \in [Items -> Scheduler!ItemStatus] /\ runStatus \in [{Run} -> Scheduler!RunStatus \cup {"absent"}]
    BY DEF Base, TypeOK, Scheduler!TypeOK
  <1>1. status' = status => FALSE
    OBVIOUS
  <1>2. \A j, s : Scheduler!Move(j, s) => j = i /\ status'[i] = s
    BY <1>0 DEF Scheduler!Move
  <1>3. Scheduler!Tick(Run) => status'[i] \in {"waiting_approval", "ready"}
    BY <1>0 DEF Scheduler!Tick, Scheduler!Releasable
  <1>4. \A skip : Scheduler!InterruptRun(Run, skip) => Canceled'/\ status'[i] = "skipped"
    BY <1>0 DEF Scheduler!InterruptRun, Canceled
  <1>5. ASSUME NEW c \in Callers, Answered(c)
        PROVE  status'[i] \in {"needs_discussion", "failed"} /\ co[c].item = i
    BY <1>1, <1>2, <1>5
    DEF Answered, Answer, AnswerDiscuss, AnswerDiscussRefused, schedulerVars,
        Scheduler!MarkNeedsDiscussion, Scheduler!ExhaustDiscussion, Scheduler!OpenDiscussion
  <1>6. ASSUME NEW c \in Callers, NEW j, StartNext(c, j) PROVE Goal
    <2>1. j = i /\ status'[i] = "running"
      BY <1>2, <1>6 DEF StartNext, Scheduler!StartWorkItem
    <2>2. QED
      BY <1>6, <2>1
  <1>7. ASSUME NEW c \in Callers, Complete(c) PROVE Goal
    BY <1>2, <1>7 DEF Complete, Scheduler!CompleteWorkItem
  <1>8. ASSUME NEW c \in Callers, Fail(c) PROVE Goal
    <2>1. co[c].item = i /\ status'[i] = "failed"
      BY <1>2, <1>8 DEF Fail, Scheduler!CompleteWorkItem
    <2>2. QED
      BY <1>8, <2>1
  <1>9. ASSUME NEW c \in Callers, SkipObsolete(c) PROVE Goal
    <2>1. i \in co[c].todo /\ status'[i] = "skipped"
      BY <1>2, <1>9 DEF SkipObsolete, Scheduler!SkipWorkItem
    <2>2. QED
      BY <1>9, <2>1
  <1>10. ASSUME NEW c \in Callers, Replace(c) PROVE Goal
    BY <1>2, <1>10 DEF Replace, Scheduler!SkipWorkItem
  <1>11. ASSUME NEW c \in Callers, Running(c) PROVE Goal
    BY <1>1, <1>3, <1>6, <1>7, <1>8, <1>9, <1>10, <1>11
    DEF Running, BootstrapItem, BootstrapEnd, PullReady, PullTick, PullEnd, NextRoundOfBatch,
        StartRefused, JudgeDrop, JudgeSuccess, JudgeFailure, Emit, BeginReflow, Grow, SetTerminal,
        Rewire, RewireRefused, RaiseIfCanceled, schedulerVars,
        Scheduler!AddWorkItem, Scheduler!UpdateWorkItemDependencies
  <1>12. ASSUME Approve \/ Resolve
         PROVE  status'[i] \in {"ready", "failed"} /\ status[i] # "running"
    BY <1>2, <1>12 DEF Approve, Resolve, Elsewhere, Scheduler!ApproveWorkItem, Scheduler!ResolveDiscussion
  <1>13. ASSUME ManualTick \/ ManualStart \/ ManualComplete
         PROVE  ManualApi /\ status'[i] # "skipped"
    BY <1>2, <1>3, <1>13 DEF ManualTick, ManualStart, ManualComplete, Elsewhere, Scheduler!StartWorkItem,
       Scheduler!CompleteWorkItem
  <1>14. QED
    BY <1>1, <1>4, <1>5, <1>11, <1>12, <1>13
    DEF Step, Next, Bootstrap, Execute, Create, Interrupt, Elsewhere, Crash, schedulerVars,
        Scheduler!CreateRun

\* Program counters of a coroutine whose item is its responsibility.
Owning == {"await", "judge"} \cup Acting

\* A running item is some coroutine's responsibility.
Owned ==
    ~Canceled => \A i \in With("running") : \E c \in Callers : co[c].pc \in Owning /\ co[c].item = i

\* A caller whose item is still running after its own step still owns it.
LEMMA OwnerGoesOn ==
    ASSUME Base, NEW c \in Callers, Bootstrap(c) \/ Execute(c) \/ Answered(c) \/ Running(c),
           co[c].pc \in Owning, status[co[c].item] = "running", ~Canceled,
           status'[co[c].item] = "running"
    PROVE  co'[c].pc \in Owning /\ co'[c].item = co[c].item
  <1> USE DEF At
  <1> DEFINE i == co[c].item
             Goal == co'[c].pc \in Owning /\ co'[c].item = i
  <1>0. TypeOK
    BY DEF Base
  <1>1. ASSUME NEW p \in Owning, GoTo(c, p) PROVE Goal
    BY <1>0, <1>1, Moves
  <1>2. CASE Answered(c)
    <2>1. CASE co'[c].pc = "judge"
      BY <1>0, <1>2, <2>1, Moves DEF Owning
    <2>2. CASE co'[c].pc # "judge"
      <3>1. ~(\E o \in {"success", "failed"} : Answer(c, o))
            /\ ~(\E fp \in Fingerprints \cup {NoFingerprint} : AnswerDiscuss(c, fp))
        BY <1>0, <2>2 DEF Answer, AnswerDiscuss, TypeOK, Coroutine
      <3>2. AnswerDiscussRefused(c)
        BY <1>2, <3>1 DEF Answered
      <3>3. QED
        BY <3>2 DEF AnswerDiscussRefused
    <2>3. QED
      BY <2>1, <2>2
  <1>3. CASE JudgeSuccess(c) \/ JudgeFailure(c)
    BY <1>1, <1>3 DEF JudgeSuccess, JudgeFailure, Owning, Acting
  <1>4. CASE BeginReflow(c) \/ SkipObsolete(c) \/ Grow(c) \/ SetTerminal(c) \/ Rewire(c)
    BY <1>0, <1>4, ReflowMoves DEF Owning, Acting
  <1>5. CASE Complete(c) \/ Fail(c) \/ Replace(c)
    <2>1. i \in Items /\ status \in [Items -> Scheduler!ItemStatus]
      BY <1>0, <1>5, WorkingItem DEF Complete, Fail, Replace, Acting, TypeOK, Scheduler!TypeOK
    <2>2. QED
      BY <1>5, <2>1 DEF Complete, Fail, Replace, Scheduler!CompleteWorkItem, Scheduler!SkipWorkItem,
         Scheduler!Move
  <1>6. QED
    BY <1>2, <1>3, <1>4, <1>5
    DEF Bootstrap, Execute, Running, BootstrapItem, BootstrapEnd, PullReady, PullTick, PullEnd,
        NextRoundOfBatch, StartNext, StartRefused, JudgeDrop, Emit, RewireRefused, RaiseIfCanceled,
        Owning, Acting

\* In one life of the process every step keeps an owner for each running item.
LEMMA NextOwned ==
    ASSUME Base, Owned, Next, ~ManualApi
    PROVE  Owned'
  <1>1. Step /\ [Step]_vars /\ (Canceled => Canceled') /\ TypeOK
    BY SchedulerKept DEF Step, Base
  <1> SUFFICES ASSUME ~Canceled', NEW i \in Items, status'[i] = "running"
               PROVE  \E c \in Callers : co'[c].pc \in Owning /\ co'[c].item = i
    BY DEF Owned, With, Created
  <1>2. CASE status[i] # "running"
    <2>1. PICK c \in Callers : StartNext(c, i)
      BY <1>1, <1>2, WhoMoves
    <2>2. QED
      BY <1>1, <2>1, Moves DEF Owning
  <1>3. CASE status[i] = "running"
    <2>1. i \in Created
      BY <1>3, SchedulerMeets DEF Base, Sched!RunsAreIsolated, Sched!Created, Created, TypeOK, Scheduler!TypeOK
    <2>2. PICK c \in Callers : co[c].pc \in Owning /\ co[c].item = i
      BY <1>1, <1>3, <2>1 DEF Owned, With
    <2>3. CASE co'[c] = co[c]
      BY <2>2, <2>3
    <2>4. CASE co'[c] # co[c]
      <3>1. PICK d \in Callers : Bootstrap(d) \/ Execute(d) \/ Answered(d) \/ Running(d)
        BY <2>4 DEF Next, Create, Interrupt, Approve, Resolve, ManualTick, ManualStart,
           ManualComplete, Elsewhere
      <3>2. d = c
        BY <1>1, <2>4, <3>1, OneMoves
      <3>3. QED
        BY <1>1, <1>3, <2>2, <3>1, <3>2, OwnerGoesOn
    <2>5. QED
      BY <2>3, <2>4
  <1>4. QED
    BY <1>2, <1>3

\* Unless somebody starts items by hand, a running item is awaited whenever the event loop
\* is free: a coroutine never leaves its item behind, whatever raises or is refused.
THEOREM Ownership == ASSUME ~ManualApi PROVE Spec => []RunningItemsAreOwned
  <1>1. Init => Owned
    BY DEF Init, Owned, With, Created
  <1>2. Base /\ Owned /\ [Next]_vars => Owned'
    <2>1. ASSUME Base, Owned, UNCHANGED vars PROVE Owned'
      BY <2>1 DEF Owned, With, Created, Canceled, vars, schedulerVars
    <2>2. QED
      BY <2>1, NextOwned
  <1>3. Base /\ Owned => RunningItemsAreOwned
    <2>1. ASSUME Base, loop = NoCaller, NEW c \in Callers, co[c].pc \in Owning PROVE co[c].pc = "await"
      BY <2>1, EngineAssumption DEF Base, TypeOK, Owning, Acting
    <2>2. QED
      BY <2>1 DEF Owned, RunningItemsAreOwned
  <1>4. QED
    BY <1>1, <1>2, <1>3, SpecCrashes, EngineInvariance, PTL DEF Spec

\* A stage that succeeded has its evidence, or the coroutine that completed it emits it.
EvidenceKept ==
    \A i \in With("succeeded") :
        \/ Range(Evidence(i)) \subseteq artifacts
        \/ \E c \in Callers : co[c].pc = "emit" /\ co[c].item = i

\* In one life of the process a succeeded item has its artifacts, or its caller is about to
\* emit them.
LEMMA NextEvidence ==
    ASSUME Base, EvidenceKept, Next, ~ManualApi
    PROVE  EvidenceKept'
  <1>1. Step /\ [Step]_vars /\ TypeOK
    BY DEF Step, Base
  <1>2. artifacts \subseteq artifacts'
    BY DEF Next, Bootstrap, Execute, Answered, Running, Answer, AnswerDiscuss, AnswerDiscussRefused,
        BootstrapItem, BootstrapEnd, PullReady, PullTick, PullEnd, NextRoundOfBatch, StartNext,
        StartRefused, JudgeDrop, JudgeSuccess, JudgeFailure, Complete, Emit, Fail, BeginReflow,
        SkipObsolete, Grow, SetTerminal, Rewire, RewireRefused, Replace, RaiseIfCanceled, recordVars,
        Create, Interrupt, Approve, Resolve, ManualTick, ManualStart, ManualComplete, Elsewhere
  <1> SUFFICES ASSUME NEW i \in Items, status'[i] = "succeeded"
               PROVE  \/ Range(Evidence(i)) \subseteq artifacts'
                      \/ \E c \in Callers : co'[c].pc = "emit" /\ co'[c].item = i
    BY DEF EvidenceKept, With, Created, Evidence, Role, Range
  <1>3. CASE status[i] # "succeeded"
    <2>1. PICK c \in Callers : Complete(c) /\ co[c].item = i
      BY <1>1, <1>3, WhoMoves
    <2>2. CASE Evidence(i) = <<>>
      BY <2>2 DEF Range
    <2>3. CASE Evidence(i) # <<>>
      BY <1>1, <2>1, <2>3, Moves DEF Complete
    <2>4. QED
      BY <2>2, <2>3
  <1>4. CASE status[i] = "succeeded"
    <2>1. i \in Created
      BY <1>4, SchedulerMeets DEF Base, Sched!RunsAreIsolated, Sched!Created, Created, TypeOK, Scheduler!TypeOK
    <2>2. CASE Range(Evidence(i)) \subseteq artifacts
      BY <1>2, <2>2
    <2>3. ASSUME NEW c \in Callers, co[c].pc = "emit", co[c].item = i
          PROVE  \/ Range(Evidence(i)) \subseteq artifacts'
                 \/ \E d \in Callers : co'[d].pc = "emit" /\ co'[d].item = i
      <3>1. CASE co'[c] = co[c]
        BY <2>3, <3>1
      <3>2. CASE co'[c] # co[c]
        <4>1. PICK d \in Callers : Bootstrap(d) \/ Execute(d) \/ Answered(d) \/ Running(d)
          BY <3>2 DEF Next, Create, Interrupt, Approve, Resolve, ManualTick, ManualStart,
             ManualComplete, Elsewhere
        <4>2. d = c
          BY <1>1, <3>2, <4>1, OneMoves
        <4>3. Emit(c)
          BY <2>3, <4>1, <4>2
          DEF At, Bootstrap, Execute, Answered, Answer, AnswerDiscuss, AnswerDiscussRefused, Running,
              BootstrapItem, BootstrapEnd, PullReady, PullTick, PullEnd, NextRoundOfBatch, StartNext,
              StartRefused, JudgeDrop, JudgeSuccess, JudgeFailure, Complete, Fail, BeginReflow,
              SkipObsolete, Grow, SetTerminal, Rewire, RewireRefused, Replace, RaiseIfCanceled
        <4>4. ~(Range(Evidence(i)) \subseteq artifacts)
          BY <2>3 DEF Base, ExecutionSound, CallerSound
        <4>5. CASE co'[c].pc = "emit"
          BY <1>1, <2>3, <4>3, <4>5, Moves DEF Emit
        <4>6. CASE co'[c].pc # "emit"
          BY <1>1, <2>3, <4>3, <4>4, <4>6, EmitsMissing
        <4>7. QED
          BY <4>5, <4>6
      <3>3. QED
        BY <3>1, <3>2
    <2>4. QED
      BY <1>4, <2>1, <2>2, <2>3 DEF EvidenceKept, With
  <1>5. QED
    BY <1>3, <1>4

\* Unless somebody completes items by hand, or the process dies in between, every stage
\* that has succeeded has left its evidence by the time the event loop is free.
THEOREM Evidenced == ASSUME ~ManualApi PROVE Spec => []EvidenceComplete
  <1>1. Init => EvidenceKept
    BY DEF Init, EvidenceKept, With, Created
  <1>2. Base /\ EvidenceKept /\ [Next]_vars => EvidenceKept'
    <2>1. ASSUME Base, EvidenceKept, UNCHANGED vars PROVE EvidenceKept'
      BY <2>1 DEF EvidenceKept, With, Created, vars, schedulerVars, recordVars, Evidence, Role, Range
    <2>2. QED
      BY <2>1, NextEvidence
  <1>3. Base /\ EvidenceKept => EvidenceComplete
    <2>1. ASSUME Base, loop = NoCaller, NEW c \in Callers PROVE co[c].pc # "emit"
      BY <2>1, WorkingItem, EngineAssumption
    <2>2. ASSUME Base, EvidenceKept, loop = NoCaller, NEW i \in Created, status[i] = "succeeded"
          PROVE  Range(Evidence(i)) \subseteq artifacts
      BY <2>1, <2>2 DEF EvidenceKept, With
    <2>3. QED
      BY <2>2 DEF EvidenceComplete
  <1>4. QED
    BY <1>1, <1>2, <1>3, SpecCrashes, EngineInvariance, PTL DEF Spec

-----------------------------------------------------------------------------
(* What a run that says succeeded has been through                         *)

\* Before the pipeline is complete nothing moves, and no coroutine executes anything.
NotBegun ==
    ~confirmed =>
        /\ runStatus[Run] \in {"absent", "running", "canceled"}
        /\ ~Canceled => \A i \in Items : status[i] = "pending"
        /\ \A c \in Callers : co[c].pc \in {"idle", "bootstrap"}

\* Afterwards the whole pipeline exists, and every module has a terminal item.
Begun ==
    confirmed =>
        /\ Pipeline \subseteq Created
        /\ \A c \in Callers : co[c].pc # "bootstrap"
        /\ \A m \in Modules : terminal[m] \in Created /\ terminal[m].module = m

\* Only the items of modules are retired.
GlobalsStand == ~Canceled => \A i \in Items : i.module = Global => status[i] # "skipped"

\* A run that says succeeded is done.
SucceededIsDone == runStatus[Run] = "succeeded" => \A i \in Created : status[i] \in {"succeeded", "skipped"}

\* An item with a gate has passed it before it is completed.
GatesPassed ==
    /\ \A i \in Created : Gated(i) /\ status[i] = "succeeded" => gate[i] = "passed"
    /\ \A c \in Callers : co[c].pc = "complete" /\ Gated(co[c].item) => gate[co[c].item] = "passed"

\* The end of a new chain exists when it becomes the terminal item of its module, and
\* is still to be done when what it replaces is skipped.
Replacing ==
    \A c \in Callers :
        LET m == co[c].item.module
            last == Item(m, attempts[m], Len(ModuleStages))
        IN  /\ co[c].pc = "terminal" => last \in Created /\ status[last] = "pending"
            /\ co[c].pc \in {"rewire", "replace"} => status[terminal[m]] = "pending"

\* A module whose terminal item was skipped has an item that a reflow is about to replace,
\* or that a crash has left running for good: the run cannot succeed.
StandIn(m) ==
    \E i \in With("running") :
        /\ i.module = m
        /\ \A c \in Callers : co[c].pc \in Working /\ co[c].item = i
                                => co[c].pc \in {"obsolete", "terminal"}
Unfinished ==
    confirmed /\ ~Canceled => \A m \in Modules : status[terminal[m]] = "skipped" => StandIn(m)

Verified == NotBegun /\ Begun /\ GlobalsStand /\ SucceededIsDone /\ GatesPassed /\ Replacing /\ Unfinished

\* Any step but one of a coroutine leaves the coroutines alone or ends them all.
LEMMA OtherSteps ==
    ASSUME Step, ~(\E c \in Callers : Bootstrap(c) \/ Execute(c) \/ Answered(c) \/ Running(c))
    PROVE  /\ UNCHANGED recordVars
           /\ \/ UNCHANGED co /\ loop = NoCaller
              \/ UNCHANGED schedulerVars /\ \A c \in Callers : co'[c].pc = "idle"
  BY DEF Step, Next, Crash, Idle, Create, Interrupt, Approve, Resolve, ManualTick, ManualStart,
         ManualComplete, Elsewhere

\* What was created before a step, and what was not.
LEMMA CreatedAgain ==
    ASSUME Base
    PROVE  /\ \A i \in Items : status[i] # "pending" => i \in Created
           /\ Created = Sched!ItemsOf(Run)
           /\ Created = Scheduler!ItemsOf(Run)
           /\ \A i \in Items : i \in Scheduler!Created <=> i \in Created
           /\ runOf \in [Items -> {Run, NoRun}]
  BY SchedulerMeets, EngineAssumption DEF Base, Sched!RunsAreIsolated, Sched!Created, Created, TypeOK, Scheduler!TypeOK,
     Sched!ItemsOf, Scheduler!ItemsOf, Scheduler!Created

\* Who touches the run's records.
LEMMA RecordSteps ==
    ASSUME Base, Step
    PROVE  /\ UNCHANGED confirmed \/ \E c \in Callers : BootstrapEnd(c)
           /\ UNCHANGED terminal \/ \E c \in Callers : BootstrapEnd(c) \/ SetTerminal(c)
           /\ UNCHANGED attempts \/ \E c \in Callers : BootstrapEnd(c) \/ BeginReflow(c)
           /\ UNCHANGED gate \/ \E c \in Callers : JudgeSuccess(c)
  <1> DEFINE Goal == /\ UNCHANGED confirmed \/ \E c \in Callers : BootstrapEnd(c)
                     /\ UNCHANGED terminal \/ \E c \in Callers : BootstrapEnd(c) \/ SetTerminal(c)
                     /\ UNCHANGED attempts \/ \E c \in Callers : BootstrapEnd(c) \/ BeginReflow(c)
                     /\ UNCHANGED gate \/ \E c \in Callers : JudgeSuccess(c)
  <1>1. UNCHANGED recordVars => Goal
    BY DEF recordVars
  <1>2. ASSUME NEW c \in Callers, Bootstrap(c) \/ Execute(c) \/ Answered(c) PROVE Goal
    BY <1>1, <1>2 DEF Bootstrap, Execute, Answered, Answer, AnswerDiscuss, AnswerDiscussRefused
  <1>3. ASSUME NEW c \in Callers, BootstrapEnd(c) PROVE Goal
    <2>1. UNCHANGED gate
      BY <1>3 DEF BootstrapEnd
    <2>2. QED
      BY <1>3, <2>1
  <1>4. ASSUME NEW c \in Callers, JudgeSuccess(c) PROVE Goal
    <2>1. UNCHANGED <<confirmed, terminal, attempts>>
      BY <1>4 DEF JudgeSuccess
    <2>2. QED
      BY <1>4, <2>1
  <1>5. ASSUME NEW c \in Callers, BeginReflow(c) PROVE Goal
    <2>1. UNCHANGED <<confirmed, terminal, gate>>
      BY <1>5 DEF BeginReflow
    <2>2. QED
      BY <1>5, <2>1
  <1>6. ASSUME NEW c \in Callers, SetTerminal(c) PROVE Goal
    <2>1. UNCHANGED <<confirmed, attempts, gate>>
      BY <1>6 DEF SetTerminal
    <2>2. QED
      BY <1>6, <2>1
  <1>7. ASSUME NEW c \in Callers, Emit(c) PROVE Goal
    BY <1>7 DEF Emit
  <1>8. ASSUME NEW c \in Callers, Running(c) PROVE Goal
    BY <1>1, <1>3, <1>4, <1>5, <1>6, <1>7, <1>8
    DEF Running, BootstrapItem, PullReady, PullTick, PullEnd, NextRoundOfBatch, StartNext,
        StartRefused, JudgeDrop, JudgeFailure, Complete, Fail, SkipObsolete, Grow, Rewire,
        RewireRefused, Replace, RaiseIfCanceled
  <1>9. QED
    BY <1>1, <1>2, <1>8, OtherSteps

\* A coroutine that is idle or bootstraps changes no item.
LEMMA QuietStep ==
    ASSUME Base, NEW c \in Callers, Bootstrap(c) \/ Execute(c) \/ Answered(c) \/ Running(c),
           co[c].pc \in {"idle", "bootstrap"}
    PROVE  /\ UNCHANGED <<status, runStatus>>
           /\ \/ Bootstrap(c) \/ BootstrapItem(c)
              \/ Execute(c)
              \/ BootstrapEnd(c)
  BY DEF At, Bootstrap, Execute, Answered, Running, Answer, AnswerDiscuss, AnswerDiscussRefused,
         BootstrapItem, BootstrapEnd, PullReady, PullTick, PullEnd, NextRoundOfBatch, StartNext,
         StartRefused, JudgeDrop, JudgeSuccess, JudgeFailure, Complete, Emit, Fail, BeginReflow,
         SkipObsolete, Grow, SetTerminal, Rewire, RewireRefused, Replace, RaiseIfCanceled,
         schedulerVars, Scheduler!AddWorkItem

\* Before the bootstrap has ended nothing of the pipeline has moved.
LEMMA StepNotBegun ==
    ASSUME Base, Verified, Step, ~ManualApi
    PROVE  NotBegun'
  <1>0. /\ TypeOK /\ NotBegun /\ Begun
        /\ runStatus \in [{Run} -> Scheduler!RunStatus \cup {"absent"}]
        /\ status \in [Items -> Scheduler!ItemStatus]
    BY DEF Base, Verified, TypeOK, Scheduler!TypeOK
  <1> SUFFICES ASSUME ~confirmed'
               PROVE  /\ runStatus'[Run] \in {"absent", "running", "canceled"}
                      /\ ~Canceled' => \A i \in Items : status'[i] = "pending"
                      /\ \A c \in Callers : co'[c].pc \in {"idle", "bootstrap"}
    BY DEF NotBegun
  <1>1. ~confirmed
    BY <1>0, RecordSteps DEF BootstrapEnd
  <1>2. /\ runStatus[Run] \in {"absent", "running", "canceled"}
        /\ ~Canceled => \A i \in Items : status[i] = "pending"
        /\ \A c \in Callers : co[c].pc \in {"idle", "bootstrap"}
    BY <1>0, <1>1 DEF NotBegun
  <1>3. ASSUME NEW c \in Callers, Bootstrap(c) \/ Execute(c) \/ Answered(c) \/ Running(c)
        PROVE  /\ UNCHANGED <<status, runStatus>>
               /\ \A d \in Callers : co'[d].pc \in {"idle", "bootstrap"}
    <2>1. UNCHANGED <<status, runStatus>>
      BY <1>2, <1>3, QuietStep
    <2>2. ~Execute(c)
      BY <1>1 DEF Execute
    <2>3. co'[c].pc \in {"idle", "bootstrap"}
      BY <1>0, <1>2, <1>3, <2>2, QuietStep, Moves DEF BootstrapItem, BootstrapEnd
    <2>4. QED
      BY <1>0, <1>2, <1>3, <2>1, <2>3, OneMoves
  <1>4. ASSUME UNCHANGED <<status, runStatus>>
        PROVE  /\ runStatus'[Run] \in {"absent", "running", "canceled"}
               /\ ~Canceled' => \A i \in Items : status'[i] = "pending"
    BY <1>2, <1>4 DEF Canceled
  <1>5. CASE \E c \in Callers : Bootstrap(c) \/ Execute(c) \/ Answered(c) \/ Running(c)
    BY <1>3, <1>4, <1>5
  <1>6. CASE ~(\E c \in Callers : Bootstrap(c) \/ Execute(c) \/ Answered(c) \/ Running(c))
    <2>1. \A c \in Callers : co'[c].pc \in {"idle", "bootstrap"}
      BY <1>2, <1>6, OtherSteps
    <2>2. ASSUME Create
          PROVE  runStatus'[Run] \in {"absent", "running", "canceled"} /\ UNCHANGED status
      BY <1>0, <2>2 DEF Create, Elsewhere, Scheduler!CreateRun
    <2>3. CASE Create
      BY <1>0, <1>2, <2>1, <2>2, <2>3 DEF Create, Elsewhere, Scheduler!CreateRun, Canceled
    <2>4. ASSUME Interrupt PROVE Canceled'
      BY <1>0, <2>4 DEF Interrupt, Elsewhere, Scheduler!InterruptRun, Canceled
    <2>5. ASSUME Approve \/ Resolve
          PROVE  Canceled'
      <3>1. PICK i \in Items : status[i] # "pending" /\ Scheduler!Refresh(runOf[i])
                               /\ i \in Scheduler!Created
        BY <2>5 DEF Approve, Resolve, Elsewhere, Scheduler!ApproveWorkItem,
           Scheduler!ResolveDiscussion, Scheduler!Move
      <3>2. Canceled
        BY <1>2, <3>1
      <3>3. [Step]_vars
        OBVIOUS
      <3>4. QED
        BY <3>2, <3>3, SchedulerKept
    <2>6. CASE Interrupt \/ Approve \/ Resolve
      BY <2>1, <2>4, <2>5, <2>6 DEF Canceled
    <2>7. CASE Crash
      BY <1>4, <2>1, <2>7 DEF Crash, schedulerVars
    <2>8. QED
      BY <1>6, <2>3, <2>6, <2>7 DEF Step, Next, ManualTick, ManualStart, ManualComplete
  <1>7. QED
    BY <1>5, <1>6

\* The first global item is part of the pipeline, which is therefore not empty.
LEMMA GlobalItems == \A k \in 1 .. 3 : GlobalItem(k) \in Pipeline
  BY DEF GlobalItem, Item, Items, Pipeline, GlobalStages

\* From the end of the bootstrap on the pipeline is there as a whole, and so is each remembered
\* terminal item.
LEMMA StepBegun ==
    ASSUME Base, Begun, Replacing, Step
    PROVE  Begun'
  <1>0. /\ TypeOK /\ Begun /\ Replacing /\ [Step]_vars /\ Created \subseteq Created'
        /\ terminal \in [Modules -> Items \cup {NoItem}] /\ Len(ModuleStages) = 4
    BY SchedulerKept DEF Base, TypeOK, ModuleStages
  <1>1. CASE ~confirmed /\ confirmed'
    <2>1. PICK c \in Callers : BootstrapEnd(c)
      BY <1>1, RecordSteps
    <2>2. Pipeline \subseteq Created'
      BY <1>0, <2>1 DEF BootstrapEnd
    <2>3. \A d \in Callers : co'[d].pc # "bootstrap"
      <3>1. co'[c].pc = "idle" /\ loop = c
        BY <1>0, <2>1, Moves DEF BootstrapEnd, At
      <3>2. Running(c)
        BY <2>1 DEF Running
      <3>3. ASSUME NEW d \in Callers \ {c} PROVE co'[d].pc # "bootstrap"
        BY <1>0, <3>1, <3>2, OneMoves, WorkingItem
      <3>4. QED
        BY <3>1, <3>3
    <2>4. ASSUME NEW m \in Modules PROVE terminal'[m] \in Pipeline /\ terminal'[m].module = m
      <3>1. terminal'[m] = Item(m, 0, Max(PackageTerminals(m)))
        BY <2>1 DEF BootstrapEnd
      <3>2. terminal'[m] \in Items
        BY <3>1, TerminalPosition, PackageItem
      <3>3. QED
        BY <3>1, <3>2 DEF Item, Pipeline
    <2>5. Pipeline' = Pipeline
      OBVIOUS
    <2>6. QED
      BY <2>2, <2>3, <2>4 DEF Begun
  <1>2. CASE confirmed
    <2>0. /\ Pipeline \subseteq Created
          /\ \A c \in Callers : co[c].pc # "bootstrap"
          /\ \A m \in Modules : terminal[m] \in Created /\ terminal[m].module = m
      BY <1>0, <1>2 DEF Begun
    <2>1. Created # {}
      BY <2>0, GlobalItems
    <2>2. \A c \in Callers : co'[c].pc # "bootstrap"
      <3>1. ASSUME NEW c \in Callers, Bootstrap(c) \/ Execute(c) \/ Answered(c) \/ Running(c)
            PROVE  co'[c].pc # "bootstrap"
        <4>1. ~Bootstrap(c) /\ ~BootstrapItem(c)
          BY <2>0, <2>1 DEF Bootstrap, BootstrapItem, At
        <4>2. ASSUME NEW q, q # "bootstrap", GoTo(c, q) PROVE co'[c].pc # "bootstrap"
          BY <1>0, <4>2, Moves
        <4>3. CASE Execute(c) \/ Answered(c) \/ PullReady(c) \/ PullTick(c) \/ Leave(c)
                   \/ \E i \in Items : StartNext(c, i)
          BY <1>0, <4>3, Moves
        <4>4. CASE BeginReflow(c) \/ SkipObsolete(c) \/ Grow(c) \/ SetTerminal(c) \/ Rewire(c)
          BY <1>0, <4>4, ReflowMoves
        <4>5. CASE Running(c)
          BY <4>1, <4>2, <4>3, <4>4, <4>5
          DEF Running, BootstrapEnd, PullEnd, NextRoundOfBatch, StartRefused, JudgeDrop,
              JudgeSuccess, JudgeFailure, Complete, Emit, Fail, RewireRefused, Replace, RaiseIfCanceled
        <4>6. QED
          BY <3>1, <4>1, <4>3, <4>5
      <3>2. CASE \E c \in Callers : Bootstrap(c) \/ Execute(c) \/ Answered(c) \/ Running(c)
        BY <1>0, <2>0, <3>1, <3>2, OneMoves
      <3>3. QED
        BY <2>0, <3>2, OtherSteps
    <2>3. \A c \in Callers : ~BootstrapEnd(c)
      BY <2>0 DEF BootstrapEnd, At
    <2>4. ASSUME NEW m \in Modules PROVE terminal'[m] \in Created' /\ terminal'[m].module = m
      <3>1. CASE UNCHANGED terminal
        BY <1>0, <2>0, <3>1
      <3>2. ASSUME NEW c \in Callers, SetTerminal(c)
            PROVE  terminal'[m] \in Created' /\ terminal'[m].module = m
        <4> DEFINE n == co[c].item.module
                   last == Item(n, attempts[n], Len(ModuleStages))
        <4>1. last \in Created /\ last.module = n
          BY <1>0, <3>2 DEF Replacing, SetTerminal, At, Item
        <4>2. terminal' = [terminal EXCEPT ![n] = last]
          BY <3>2 DEF SetTerminal
        <4> HIDE DEF last
        <4>3. QED
          BY <1>0, <2>0, <4>1, <4>2
      <3>3. QED
        BY <2>3, <3>1, <3>2, RecordSteps
    <2>5. QED
      BY <1>0, <2>0, <2>2, <2>4 DEF Begun
  <1>3. QED
    BY <1>1, <1>2 DEF Begun

\* No step skips a global stage unless the run is canceled.
LEMMA StepGlobals ==
    ASSUME Base, GlobalsStand, Step
    PROVE  GlobalsStand'
  <1>0. GlobalsStand /\ [Step]_vars /\ Global \notin Modules /\ ReflowSound /\ (Canceled => Canceled')
    BY SchedulerKept, EngineAssumption DEF Base
  <1> SUFFICES ASSUME ~Canceled', NEW i \in Items, i.module = Global, status'[i] = "skipped"
               PROVE  FALSE
    BY DEF GlobalsStand
  <1>1. status'[i] # status[i]
    BY <1>0 DEF GlobalsStand
  <1>2. PICK c \in Callers : \/ Replace(c) /\ co[c].item = i
                             \/ SkipObsolete(c) /\ i \in co[c].todo
    BY <1>1, WhoMoves
  <1>3. CASE Replace(c) /\ co[c].item = i
    BY <1>0, <1>3 DEF Replace, At, ReflowSound
  <1>4. CASE SkipObsolete(c) /\ i \in co[c].todo
    BY <1>0, <1>4 DEF SkipObsolete, At, ReflowSound
  <1>5. QED
    BY <1>2, <1>3, <1>4

\* No step lets the run say succeeded before every item has succeeded or was skipped.
LEMMA StepFinished ==
    ASSUME Base, Verified, Step, ~ManualApi
    PROVE  SucceededIsDone'
  <1>0. /\ TypeOK /\ NotBegun /\ Begun /\ SucceededIsDone
        /\ runStatus \in [{Run} -> Scheduler!RunStatus \cup {"absent"}]
        /\ runOf \in [Items -> {Run, NoRun}] /\ NoRun # Run
        /\ Created = Scheduler!ItemsOf(Run) /\ \A i \in Items : i \in Scheduler!Created <=> i \in Created
    BY CreatedAgain, EngineAssumption DEF Base, Verified, TypeOK, Scheduler!TypeOK
  <1>1. ASSUME UNCHANGED <<runStatus, runOf, status>> PROVE SucceededIsDone'
    BY <1>0, <1>1 DEF SucceededIsDone, Created
  <1>2. ASSUME Scheduler!Refresh(Run), UNCHANGED runOf PROVE SucceededIsDone'
    <2>1. ASSUME runStatus'[Run] = "succeeded", NEW i \in Created
          PROVE  status'[i] \in {"succeeded", "skipped"}
      <3>1. Scheduler!DerivedStatus(Created, status') = "succeeded"
        BY <1>0, <1>2, <2>1 DEF Scheduler!Refresh
      <3>2. {status'[j] : j \in Created} \subseteq {"succeeded", "skipped"}
        BY <3>1 DEF Scheduler!DerivedStatus, Scheduler!Done
      <3>3. QED
        BY <3>2
    <2>2. QED
      BY <1>2, <2>1 DEF SucceededIsDone, Created
  <1>3. ASSUME NEW i \in Created, NEW s, Scheduler!Move(i, s) PROVE SucceededIsDone'
    BY <1>2, <1>3 DEF Scheduler!Move, Scheduler!itemVars, Created
  <1>4. ASSUME runStatus'[Run] # "succeeded" PROVE SucceededIsDone'
    BY <1>4 DEF SucceededIsDone
  <1>5. ASSUME NEW c \in Callers, BootstrapItem(c) PROVE SucceededIsDone'
    <2>1. ~confirmed
      BY <1>0, <1>5 DEF BootstrapItem, At, Begun
    <2>2. runStatus'[Run] # "succeeded"
      BY <1>0, <1>5, <2>1 DEF NotBegun, BootstrapItem, Scheduler!AddWorkItem
    <2>3. QED
      BY <1>4, <2>2
  <1>6. ASSUME NEW c \in Callers, Grow(c) PROVE SucceededIsDone'
    <2>1. co[c].item \in Created /\ status[co[c].item] = "running"
      BY <1>6, WorkingItem DEF Grow, At, Acting, Base, ExecutionSound, CallerSound
    <2>2. runStatus[Run] # "succeeded" /\ UNCHANGED runStatus
      BY <1>0, <1>6, <2>1 DEF SucceededIsDone, Grow, Scheduler!AddWorkItem
    <2>3. QED
      BY <1>4, <2>2
  <1>7. ASSUME NEW c \in Callers, PullTick(c) PROVE SucceededIsDone'
    BY <1>2, <1>7 DEF PullTick, Scheduler!Tick, Scheduler!itemVars
  <1>8. ASSUME NEW c \in Callers, NEW i \in Items, StartNext(c, i) PROVE SucceededIsDone'
    BY <1>0, <1>3, <1>8 DEF StartNext, Scheduler!StartWorkItem
  <1>9. ASSUME NEW c \in Callers, Complete(c) \/ Fail(c) \/ Replace(c) PROVE SucceededIsDone'
    <2>1. co[c].item \in Created
      BY <1>9, WorkingItem DEF Complete, Fail, Replace, At, Acting
    <2>2. QED
      BY <1>3, <1>9, <2>1 DEF Complete, Fail, Replace, Scheduler!CompleteWorkItem, Scheduler!SkipWorkItem
  <1>10. ASSUME NEW c \in Callers, SkipObsolete(c) PROVE SucceededIsDone'
    <2>1. co[c].todo \subseteq Created
      BY <1>10 DEF SkipObsolete, At, Base, ReflowSound
    <2>2. QED
      BY <1>3, <1>10, <2>1 DEF SkipObsolete, Scheduler!SkipWorkItem
  <1>11. ASSUME NEW c \in Callers, Rewire(c) PROVE SucceededIsDone'
    <2>1. co[c].todo \subseteq Created
      BY <1>11 DEF Rewire, At, Base, ReflowSound
    <2>2. ASSUME NEW i \in Created, NEW ds, Scheduler!UpdateWorkItemDependencies(i, ds) PROVE SucceededIsDone'
      BY <1>2, <2>2 DEF Scheduler!UpdateWorkItemDependencies, Created
    <2>3. QED
      BY <1>1, <1>11, <2>1, <2>2 DEF Rewire, schedulerVars
  <1>12. ASSUME NEW c \in Callers, Answered(c) PROVE SucceededIsDone'
    <2>1. co[c].item \in Created
      BY <1>0, <1>12, WorkingItem, Moves
    <2>2. \A fp : Scheduler!MarkNeedsDiscussion(co[c].item, fp) => SucceededIsDone'
      BY <1>3, <2>1 DEF Scheduler!MarkNeedsDiscussion, Scheduler!ExhaustDiscussion, Scheduler!OpenDiscussion
    <2>3. QED
      BY <1>1, <1>12, <2>2 DEF Answered, Answer, AnswerDiscuss, AnswerDiscussRefused, schedulerVars
  <1>13. ASSUME NEW c \in Callers, Bootstrap(c) \/ Execute(c) \/ Running(c) PROVE SucceededIsDone'
    BY <1>1, <1>5, <1>6, <1>7, <1>8, <1>9, <1>10, <1>11, <1>13
    DEF Running, Bootstrap, BootstrapEnd, Execute, PullReady, PullEnd, NextRoundOfBatch, StartRefused,
        JudgeDrop, JudgeSuccess, JudgeFailure, Emit, BeginReflow, SetTerminal, RewireRefused,
        RaiseIfCanceled, schedulerVars
  <1>14. CASE Create \/ Interrupt
    <2>1. runStatus'[Run] # "succeeded"
      BY <1>0, <1>14 DEF Create, Interrupt, Elsewhere, Scheduler!CreateRun, Scheduler!InterruptRun
    <2>2. QED
      BY <1>4, <2>1
  <1>15. CASE Approve \/ Resolve
    BY <1>0, <1>3, <1>15 DEF Approve, Resolve, Elsewhere, Scheduler!ApproveWorkItem, Scheduler!ResolveDiscussion
  <1>16. QED
    BY <1>1, <1>12, <1>13, <1>14, <1>15
    DEF Step, Next, Crash, ManualTick, ManualStart, ManualComplete, schedulerVars

\* An item behind a gate succeeds only after its gate has passed.
LEMMA StepGates ==
    ASSUME Base, Verified, Step, ~ManualApi
    PROVE  GatesPassed'
  <1>0. /\ TypeOK /\ GatesPassed /\ [Step]_vars
        /\ gate \in [Items -> {"none", "passed", "failed"}]
    BY DEF Base, Verified, TypeOK
  <1>1. ASSUME NEW i \in Items, status'[i] = "succeeded", Gated(i) PROVE gate'[i] = "passed"
    <2>1. gate[i] = "passed"
      <3>1. CASE status[i] = "succeeded"
        BY <1>0, <1>1, <3>1, CreatedAgain DEF GatesPassed
      <3>2. CASE status[i] # "succeeded"
        <4>1. PICK c \in Callers : Complete(c) /\ co[c].item = i
          BY <1>1, <3>2, WhoMoves
        <4>2. QED
          BY <1>0, <1>1, <4>1 DEF Complete, At, GatesPassed
      <3>3. QED
        BY <3>1, <3>2
    <2>2. CASE UNCHANGED gate
      BY <2>1, <2>2
    <2>3. ASSUME NEW c \in Callers, JudgeSuccess(c) PROVE gate'[i] = gate[i]
      <3>1. status[co[c].item] = "running" /\ status' = status
        BY <2>3 DEF JudgeSuccess, schedulerVars
      <3>2. co[c].item # i
        BY <1>1, <3>1
      <3>3. QED
        BY <1>0, <2>3, <3>2 DEF JudgeSuccess
    <2>4. QED
      BY <2>1, <2>2, <2>3, RecordSteps
  <1>2. ASSUME NEW c \in Callers, co'[c].pc = "complete", Gated(co'[c].item)
        PROVE  gate'[co'[c].item] = "passed"
    <2>1. co[c].pc # "complete"
      <3>1. ASSUME co[c].pc = "complete" PROVE FALSE
        <4>1. loop = c
          BY <3>1, WorkingItem
        <4>2. PICK d \in Callers : Bootstrap(d) \/ Execute(d) \/ Answered(d) \/ Running(d)
          BY <1>2, <4>1, OtherSteps, EngineAssumption
        <4>3. d = c
          BY <1>0, <4>1, <4>2, OneMoves, EngineAssumption
        <4>4. Complete(c) \/ RaiseIfCanceled(c, "complete")
          BY <3>1, <4>2, <4>3
          DEF At, Bootstrap, Execute, Answered, Running, Answer, AnswerDiscuss, AnswerDiscussRefused,
              BootstrapItem, BootstrapEnd, PullReady, PullTick, PullEnd, NextRoundOfBatch, StartNext,
              StartRefused, JudgeDrop, JudgeSuccess, JudgeFailure, Emit, Fail, BeginReflow,
              SkipObsolete, Grow, SetTerminal, Rewire, RewireRefused, Replace, RaiseIfCanceled
        <4>5. GoTo(c, "next") \/ GoTo(c, "emit") \/ Leave(c)
          BY <4>4 DEF Complete, RaiseIfCanceled
        <4>6. QED
          BY <1>0, <1>2, <4>5, Moves
      <3>2. QED
        BY <3>1
    <2>2. PICK d \in Callers : Bootstrap(d) \/ Execute(d) \/ Answered(d) \/ Running(d)
      BY <1>2, <2>1, OtherSteps
    <2>3. d = c
      BY <1>0, <1>2, <2>1, <2>2, OneMoves
    <2>4. JudgeSuccess(c)
      <3>1. ASSUME NEW p, p # "complete", GoTo(c, p) PROVE FALSE
        BY <1>0, <1>2, <3>1, Moves
      <3>2. ~Execute(c) /\ ~Bootstrap(c) /\ ~Answered(c) /\ ~PullReady(c) /\ ~PullTick(c) /\ ~Leave(c)
            /\ \A i \in Items : ~StartNext(c, i)
        BY <1>0, <1>2, Moves
      <3>3. ~BeginReflow(c) /\ ~SkipObsolete(c) /\ ~Grow(c) /\ ~SetTerminal(c) /\ ~Rewire(c)
        BY <1>0, <1>2, ReflowMoves
      <3>4. QED
        BY <2>1, <2>2, <2>3, <3>1, <3>2, <3>3
        DEF At, Running, BootstrapItem, BootstrapEnd, PullEnd, NextRoundOfBatch, StartRefused, JudgeDrop,
            JudgeFailure, Complete, Emit, Fail, RewireRefused, Replace, RaiseIfCanceled
    <2>5. co'[c].item = co[c].item /\ co[c].item \in Items /\ GatePasses(co[c].item)
      BY <1>0, <1>2, <2>4, Moves, WorkingItem DEF JudgeSuccess, At
    <2>6. QED
      BY <1>0, <1>2, <2>4, <2>5 DEF JudgeSuccess
  <1>3. QED
    BY <1>1, <1>2 DEF GatesPassed, Created, Gated, Role

\* Only the coroutine itself brings itself into a reflow, and from one step of it to the next.
LEMMA ReflowStep ==
    ASSUME Base, Step, NEW c \in Callers, co'[c].pc \in {"obsolete", "terminal", "rewire", "replace"}
    PROVE  /\ co'[c].item = co[c].item
           /\ BeginReflow(c) \/ SkipObsolete(c) \/ Grow(c) \/ SetTerminal(c) \/ Rewire(c)
  <1>0. TypeOK /\ NoCaller \notin Callers
    BY EngineAssumption DEF Base
  <1>1. PICK d \in Callers : Bootstrap(d) \/ Execute(d) \/ Answered(d) \/ Running(d)
    BY <1>0, OtherSteps, WorkingItem
  <1>2. d = c
    BY <1>0, <1>1, OneMoves, WorkingItem
  <1>3. ASSUME NEW p, p \notin {"obsolete", "terminal", "rewire", "replace"}, GoTo(c, p) PROVE FALSE
    BY <1>0, <1>3, Moves
  <1>4. ~Bootstrap(c) /\ ~Execute(c) /\ ~Answered(c) /\ ~PullReady(c) /\ ~PullTick(c) /\ ~Leave(c)
        /\ \A i \in Items : ~StartNext(c, i)
    BY <1>0, Moves
  <1>5. BeginReflow(c) \/ SkipObsolete(c) \/ Grow(c) \/ SetTerminal(c) \/ Rewire(c)
    BY <1>1, <1>2, <1>3, <1>4
    DEF Running, BootstrapItem, BootstrapEnd, PullEnd, NextRoundOfBatch, StartRefused, JudgeDrop,
        JudgeSuccess, JudgeFailure, Complete, Emit, Fail, RewireRefused, Replace, RaiseIfCanceled
  <1>6. QED
    BY <1>0, <1>5, ReflowMoves

\* The new chain is complete before it takes the place of the old one.
LEMMA StepReplacing ==
    ASSUME Base, Replacing, Step
    PROVE  Replacing'
  <1> USE DEF At
  <1> SUFFICES ASSUME NEW c \in Callers
               PROVE  LET m == co'[c].item.module
                          last == Item(m, attempts'[m], Len(ModuleStages))
                      IN  /\ co'[c].pc = "terminal" => last \in Created' /\ status'[last] = "pending"
                          /\ co'[c].pc \in {"rewire", "replace"} => status'[terminal'[m]] = "pending"
    BY DEF Replacing
  <1> DEFINE m == co[c].item.module
             last == Item(m, attempts[m], Len(ModuleStages))
  <1>0. /\ TypeOK /\ Replacing /\ Created \subseteq Created'
        /\ Len(ModuleStages) = 4 /\ terminal \in [Modules -> Items \cup {NoItem}]
    BY SchedulerKept DEF Base, TypeOK, ModuleStages
  <1>1. CASE co'[c].pc \notin {"terminal", "rewire", "replace"}
    BY <1>1
  <1>2. CASE co'[c].pc \in {"terminal", "rewire", "replace"}
    <2>1. co'[c].item = co[c].item /\ (Grow(c) \/ SetTerminal(c) \/ Rewire(c))
      BY <1>0, <1>2, ReflowStep, ReflowMoves
    <2>2. m \in Modules
      BY <2>1, ReflowMoves, <1>0 DEF Grow, SetTerminal, Rewire, Base, ReflowSound
    <2>3. UNCHANGED <<attempts, status>>
      BY <2>1 DEF Grow, SetTerminal, Rewire, recordVars, schedulerVars, Scheduler!AddWorkItem,
         Scheduler!UpdateWorkItemDependencies
    <2>4. CASE Grow(c)
      <3>1. PICK k \in DOMAIN ModuleStages :
                /\ Scheduler!AddWorkItem(Item(m, attempts[m], k), Run,
                        IF k = 1 THEN dependsOn[co[c].item] ELSE {Item(m, attempts[m], k - 1)}, FALSE)
                /\ GoTo(c, IF k = Len(ModuleStages) THEN "terminal" ELSE "obsolete")
        BY <2>4 DEF Grow
      <3>2. co'[c].pc = "terminal" /\ k = Len(ModuleStages)
        BY <1>0, <1>2, <3>1, Moves
      <3>3. last \in Items
        <4>1. attempts[m] \in 1 .. MaxModuleReflows /\ 4 \in 1 .. Len(ModuleStages)
          BY <2>4, <1>0 DEF Grow, Base, ReflowSound
        <4>2. QED
          BY <1>0, <2>2, <4>1 DEF Items
      <3>4. runOf[last] = NoRun /\ runOf'[last] = Run
        BY <1>0, <3>1, <3>2, <3>3 DEF Scheduler!AddWorkItem, TypeOK, Scheduler!TypeOK
      <3>5. status[last] = "pending"
        BY <3>3, <3>4, CreatedAgain, EngineAssumption DEF Created
      <3>6. QED
        BY <2>1, <2>3, <3>2, <3>3, <3>4, <3>5 DEF Created
    <2>5. CASE SetTerminal(c)
      <3>1. last \in Created /\ status[last] = "pending" /\ terminal'[m] = last
        BY <1>0, <2>2, <2>5 DEF SetTerminal, Replacing
      <3>2. co'[c].pc = "rewire"
        BY <1>0, <2>5, ReflowMoves
      <3>3. QED
        BY <2>1, <2>3, <3>1, <3>2
    <2>6. CASE Rewire(c)
      <3>1. status[terminal[m]] = "pending" /\ UNCHANGED terminal
        BY <1>0, <2>6 DEF Rewire, Replacing, recordVars
      <3>2. co'[c].pc \in {"rewire", "replace"}
        BY <1>0, <2>6, ReflowMoves
      <3>3. QED
        BY <2>1, <2>3, <3>1, <3>2
    <2>7. QED
      BY <2>1, <2>4, <2>5, <2>6
  <1>3. QED
    BY <1>1, <1>2

\* While a reflow retires the items of its module, the item that failed its gate is still
\* running, and nobody else works on it.
LEMMA RetiringStands ==
    ASSUME Base, NEW c \in Callers, SkipObsolete(c), NEW m \in Modules, co[c].item.module = m
    PROVE  StandIn(m)'
  <1> DEFINE i == co[c].item
  <1>0. TypeOK /\ Exclusive /\ status \in [Items -> Scheduler!ItemStatus]
    BY DEF Base, ExecutionSound, TypeOK, Scheduler!TypeOK
  <1>1. co[c].pc = "obsolete" /\ co[c].pc \in Working /\ i \in Items /\ i \in Created /\ status[i] = "running"
    BY WorkingItem DEF SkipObsolete, At, Acting, Base, ExecutionSound, CallerSound
  <1>2. i \notin co[c].todo
    BY <1>1 DEF Base, ReflowSound
  <1>3. status'[i] = "running" /\ runOf'[i] = runOf[i]
    BY <1>0, <1>1, <1>2 DEF SkipObsolete, Scheduler!SkipWorkItem, Scheduler!Move, Scheduler!itemVars
  <1>4. co'[c].pc = "obsolete" /\ \A d \in Callers \ {c} : co'[d] = co[d]
    BY <1>0, ReflowMoves, OneMoves DEF Running
  <1>5. \A d \in Callers : co'[d].pc \in Working /\ co'[d].item = i => co'[d].pc \in {"obsolete", "terminal"}
    BY <1>0, <1>1, <1>4 DEF Exclusive
  <1>6. i \in With("running")'
    BY <1>1, <1>3 DEF With, Created
  <1>7. i.module = m
    OBVIOUS
  <1> HIDE DEF i
  <1>8. QED
    BY <1>5, <1>6, <1>7 DEF StandIn

\* A module whose terminal item was skipped keeps the item that stands in for it.
LEMMA StepUnfinished ==
    ASSUME Base, Verified, Step, ~ManualApi
    PROVE  Unfinished'
  <1> SUFFICES ASSUME confirmed', ~Canceled', NEW m \in Modules, status'[terminal'[m]] = "skipped"
               PROVE  StandIn(m)'
    BY DEF Unfinished
  <1> DEFINE t == terminal[m]
  <1>0. /\ TypeOK /\ NotBegun /\ Begun /\ Begun' /\ Replacing /\ Unfinished /\ [Step]_vars
        /\ (Canceled => Canceled') /\ Created \subseteq Created'
    BY SchedulerKept, StepBegun DEF Base, Verified
  <1>1. ASSUME ~confirmed PROVE FALSE
    <2>1. PICK c \in Callers : BootstrapEnd(c)
      BY <1>1, RecordSteps
    <2>2. status' = status /\ terminal'[m] \in Items
      BY <1>0, <2>1 DEF BootstrapEnd, schedulerVars, Begun, Created
    <2>3. QED
      BY <1>0, <1>1, <2>2 DEF NotBegun
  <1>2. /\ \A c \in Callers : co[c].pc # "bootstrap"
        /\ t \in Created /\ t \in Items /\ t.module = m
    BY <1>0, <1>1 DEF Begun, Created
  <1>3. ASSUME NEW c \in Callers, SetTerminal(c), co[c].item.module = m PROVE FALSE
    <2>1. status' = status /\ terminal' = [terminal EXCEPT ![m] = Item(m, attempts[m], Len(ModuleStages))]
      BY <1>3 DEF SetTerminal, schedulerVars
    <2>2. status[Item(m, attempts[m], Len(ModuleStages))] = "pending"
      BY <1>0, <1>3 DEF Replacing, SetTerminal, At
    <2>3. QED
      BY <1>0, <2>1, <2>2 DEF TypeOK
  <1>4. terminal'[m] = t
    <2>1. CASE UNCHANGED terminal
      BY <2>1
    <2>2. ASSUME NEW c \in Callers, SetTerminal(c) PROVE terminal'[m] = t
      <3>1. terminal' = [terminal EXCEPT ![co[c].item.module] = Item(co[c].item.module, attempts[co[c].item.module], Len(ModuleStages))]
        BY <2>2 DEF SetTerminal
      <3>2. QED
        BY <1>0, <1>3, <2>2, <3>1 DEF TypeOK
    <2>3. QED
      BY <1>2, <2>1, <2>2, RecordSteps DEF BootstrapEnd, At
  <1>5. ASSUME NEW c \in Callers, SkipObsolete(c), NEW j \in co[c].todo, j.module = m PROVE StandIn(m)'
    <2>1. co[c].item.module = m
      BY <1>5 DEF SkipObsolete, At, Base, ReflowSound
    <2>2. QED
      BY <1>5, <2>1, RetiringStands
  <1>6. CASE status[t] # "skipped"
    <2>1. status'[t] = "skipped"
      BY <1>4
    <2>2. PICK c \in Callers : \/ Replace(c) /\ co[c].item = t
                               \/ SkipObsolete(c) /\ t \in co[c].todo
      BY <1>2, <1>6, <2>1, WhoMoves
    <2>3. CASE Replace(c) /\ co[c].item = t
      <3>1. co[c].pc = "replace" /\ co[c].pc \in Acting
        BY <2>3 DEF Replace, At, Acting
      <3>2. status[t] = "running"
        BY <2>3, <3>1 DEF Base, ExecutionSound, CallerSound
      <3>3. status[t] = "pending"
        BY <1>0, <1>2, <2>3, <3>1 DEF Replacing
      <3>4. QED
        BY <3>2, <3>3
    <2>4. QED
      BY <1>2, <1>5, <2>2, <2>3
  <1>7. CASE status[t] = "skipped"
    <2>1. PICK i \in With("running") :
            /\ i.module = m
            /\ \A c \in Callers : co[c].pc \in Working /\ co[c].item = i
                                    => co[c].pc \in {"obsolete", "terminal"}
      BY <1>0, <1>1, <1>7 DEF Unfinished, StandIn
    <2>2. i \in Created /\ i \in Items /\ status[i] = "running"
      BY <2>1 DEF With, Created
    <2>3. ASSUME NEW c \in Callers, co[c].pc \in {"await", "judge"} \cup (Acting \ {"obsolete", "terminal"}),
                 co[c].item = i
          PROVE  FALSE
      BY <2>1, <2>3, WorkingItem
    <2>4. CASE \E c \in Callers : SkipObsolete(c) /\ i \in co[c].todo
      BY <1>5, <2>1, <2>4
    <2>5. CASE ~(\E c \in Callers : SkipObsolete(c) /\ i \in co[c].todo)
      <3>1. status'[i] \in {"running", "succeeded", "failed", "skipped"}
        BY <2>2, <2>3, RunningGoesOn
      <3>2. ASSUME NEW c \in Callers, Complete(c) \/ Fail(c) \/ Replace(c) \/ Answered(c), co[c].item = i
            PROVE  FALSE
        <4>1. co[c].pc \in {"complete", "fail", "replace", "await"}
          BY <1>0, <3>2, Moves DEF Complete, Fail, Replace, At
        <4>2. QED
          BY <2>3, <3>2, <4>1 DEF Acting
      <3>3. status'[i] = "running"
        BY <2>2, <2>5, <3>1, <3>2, WhoMoves
      <3>4. ASSUME NEW c \in Callers, co'[c].pc \in Working, co'[c].item = i
            PROVE  co'[c].pc \in {"obsolete", "terminal"}
        <4>1. CASE co'[c] = co[c]
          BY <2>1, <3>4, <4>1
        <4>2. CASE co'[c] # co[c]
          <5>1. PICK d \in Callers : Bootstrap(d) \/ Execute(d) \/ Answered(d) \/ Running(d)
            BY <3>4, <4>2, OtherSteps DEF Working
          <5>2. d = c
            BY <1>0, <4>2, <5>1, OneMoves
          <5>3. ~StartNext(c, i)
            BY <2>2 DEF StartNext, Scheduler!StartWorkItem
          <5>4. co[c].pc \in Working /\ co[c].item = i
            BY <1>0, <3>4, <5>1, <5>2, <5>3, WorkingMoves
          <5>5. co[c].pc \in {"obsolete", "terminal"}
            BY <2>1, <5>4
          <5>6. SkipObsolete(c) \/ Grow(c) \/ SetTerminal(c)
            BY <5>1, <5>2, <5>5
            DEF At, Bootstrap, Execute, Answered, Running, Answer, AnswerDiscuss, AnswerDiscussRefused,
                BootstrapItem, BootstrapEnd, PullReady, PullTick, PullEnd, NextRoundOfBatch, StartNext,
                StartRefused, JudgeDrop, JudgeSuccess, JudgeFailure, Complete, Emit, Fail, BeginReflow,
                Rewire, RewireRefused, Replace, RaiseIfCanceled
          <5>7. QED
            BY <1>0, <1>3, <2>1, <5>4, <5>6, ReflowMoves
        <4>3. QED
          BY <4>1, <4>2
      <3>5. i \in With("running")'
        BY <1>0, <2>2, <3>3 DEF With, Created
      <3>6. QED
        BY <2>1, <3>4, <3>5 DEF StandIn
    <2>6. QED
      BY <2>4, <2>5
  <1>8. QED
    BY <1>6, <1>7

\* The invariant behind SucceededMeansVerified holds at the start.
LEMMA InitVerified == Init => Verified
  <1>1. Init => \A c \in Callers : co[c].pc = "idle"
    BY DEF Init, Idle
  <1>2. Init => runStatus[Run] = "absent" /\ \A i \in Items : status[i] = "pending" /\ i \notin Created
    BY EngineAssumption DEF Init, Created
  <1>3. Init => ~confirmed
    BY DEF Init
  <1>4. QED
    BY <1>1, <1>2, <1>3 DEF Verified, NotBegun, Begun, GlobalsStand, SucceededIsDone, GatesPassed, Replacing,
       Unfinished, Canceled, Created

\* Every step, a crash included, keeps the invariant behind SucceededMeansVerified.
LEMMA StepVerified == Base /\ Verified /\ [Step]_vars /\ ~ManualApi => Verified'
  <1>1. ASSUME Base, Verified, UNCHANGED vars PROVE Verified'
    <2>1. UNCHANGED <<runStatus, runOf, status, confirmed, attempts, terminal, gate, co>>
      BY <1>1 DEF vars, schedulerVars, recordVars
    <2>2. \A m : StandIn(m) => StandIn(m)'
      BY <2>1 DEF StandIn, With, Created
    <2>3. NotBegun' /\ Begun' /\ GlobalsStand' /\ SucceededIsDone' /\ GatesPassed' /\ Replacing'
      BY <1>1, <2>1 DEF Verified, NotBegun, Begun, GlobalsStand, SucceededIsDone, GatesPassed, Replacing, Canceled,
         Created, Gated, Role
    <2>4. Unfinished'
      BY <1>1, <2>1, <2>2 DEF Verified, Unfinished, Canceled
    <2>5. QED
      BY <2>3, <2>4 DEF Verified
  <1>2. ASSUME Base, Verified, Step, ~ManualApi PROVE Verified'
    BY <1>2, StepNotBegun, StepBegun, StepGlobals, StepFinished, StepGates, StepReplacing, StepUnfinished
    DEF Verified
  <1>3. QED
    BY <1>1, <1>2

\* Unless somebody completes items by hand, a run that says succeeded has been verified:
\* the last item of every module and every global stage succeeded, and what has a gate
\* passed it.  Reflows may be cut by crashes at any point.
THEOREM Verification ==
    ASSUME ~ManualApi
    PROVE  (Spec => []SucceededMeansVerified) /\ (CrashSpec => []SucceededMeansVerified)
  <1>1. Base /\ Verified => SucceededMeansVerified
    <2> SUFFICES ASSUME Base, Verified, confirmed, runStatus[Run] = "succeeded"
                 PROVE  /\ \A m \in Modules : status[terminal[m]] = "succeeded"
                        /\ \A k \in DOMAIN GlobalStages : status[GlobalItem(k)] = "succeeded"
                        /\ \A i \in Created : Gated(i) /\ status[i] = "succeeded" => gate[i] = "passed"
      BY DEF SucceededMeansVerified
    <2>1. ~Canceled /\ \A i \in Created : status[i] \in {"succeeded", "skipped"}
      BY DEF Canceled, Verified, SucceededIsDone
    <2>2. ASSUME NEW m \in Modules PROVE status[terminal[m]] = "succeeded"
      <3>1. terminal[m] \in Created
        BY DEF Verified, Begun
      <3>2. ~StandIn(m)
        BY <2>1 DEF StandIn, With
      <3>3. QED
        BY <2>1, <3>1, <3>2 DEF Verified, Unfinished
    <2>3. ASSUME NEW k \in DOMAIN GlobalStages PROVE status[GlobalItem(k)] = "succeeded"
      <3>1. GlobalItem(k) \in Pipeline /\ GlobalItem(k).module = Global
        BY GlobalItems DEF GlobalStages, GlobalItem, Item
      <3>2. GlobalItem(k) \in Created /\ GlobalItem(k) \in Items
        BY <3>1 DEF Verified, Begun, Pipeline
      <3>3. QED
        BY <2>1, <3>1, <3>2 DEF Verified, GlobalsStand
    <2>4. QED
      BY <2>2, <2>3 DEF Verified, GatesPassed
  <1>2. CrashSpec => []Verified
    BY InitVerified, StepVerified, EngineInvariance, PTL DEF CrashSpec
  <1>3. QED
    BY <1>1, <1>2, SpecCrashes, EngineInvariance, PTL

-----------------------------------------------------------------------------
(* The stages of a run come in order                                       *)

\* A module some gate of which may fail, so that it may be reflowed, has a package without
\* branches: each of its tasks depends on the one before (with branches IntegrationAfterModules
\* is not true, see StagesInOrder).
Chain(m) == \A k \in DOMAIN Package[m] : k > 1 => k - 1 \in PackageAfter(m, k)
Chained == \A i \in Items : i.module \in Modules /\ ~GatePasses(i) => Chain(i.module)

Integration == GlobalItem(1)
Reflowing == {"obsolete", "terminal", "rewire", "replace"}
Done == {"succeeded", "skipped"}

\* Nothing happens before the pipeline is complete, and nobody sees it before.
Preparing ==
    ~confirmed =>
        /\ \A i \in Items : status[i] = "pending"
        /\ \A c \in Callers : co[c].pc \in {"idle", "bootstrap"}
        /\ loop = NoCaller => Created = {}
        /\ Created \subseteq Pipeline

\* What items depend on: only the integration test is ever rewired.
Wired ==
    /\ \A i \in Created : i.module \in Modules /\ i.gen = 0 => dependsOn[i] = StartsAfter(i)
    /\ \A i \in Created : i.gen > 0 /\ i.pos > 1 => dependsOn[i] = {Item(i.module, i.gen, i.pos - 1)}
    /\ ~confirmed /\ Integration \in Created => dependsOn[Integration] = StartsAfter(Integration)

\* The latest chain of a module is complete; no attempt is behind it.
Lineage(m) ==
    LET g == terminal[m].gen
    IN  /\ g <= attempts[m]
        /\ g > 0 => terminal[m] = Item(m, g, 4) /\ \A k \in 1 .. 4 : Item(m, g, k) \in Created

\* Earlier chains are done, but for an item its reflow is about to skip.
Past(m) ==
    \A i \in Created : i.module = m /\ i.gen < terminal[m].gen =>
        \/ status[i] \in Done
        \/ \E c \in Callers : co[c].pc \in {"rewire", "replace"} /\ co[c].item = i

\* Nothing of the latest chain is skipped before there is another one to replace it,
\* and that one is untouched as long as the module still ends in the old one.
Present(m) ==
    \A i \in Created : i.module = m /\ i.gen = terminal[m].gen /\ status[i] = "skipped" =>
        \E c \in Callers : co[c].pc \in {"obsolete", "terminal"} /\ co[c].item.module = m
Future(m) ==
    \A i \in Created : i.module = m /\ i.gen > terminal[m].gen =>
        /\ i.gen = attempts[m] /\ status[i] = "pending"
        /\ \E c \in Callers : /\ co[c].pc \in {"obsolete", "terminal"} /\ co[c].item.module = m
                              /\ co[c].todo = {}

\* The integration test waits for the terminal items of the package or of the latest
\* chain, or is about to be told of them.
Awaited(m) ==
    /\ \/ terminal[m] \in dependsOn[Integration]
       \/ \E c \in Callers : /\ co[c].pc = "rewire" /\ co[c].item.module = m
                             /\ Integration \in co[c].todo
    /\ terminal[m].gen = 0 =>
            \A k \in PackageTerminals(m) : Item(m, 0, k) \in dependsOn[Integration]

\* A reflow retires, of the latest chain of a module whose gates may fail, whatever is
\* behind the item that failed, while the integration test still waits.
Retires(c) ==
    LET i == co[c].item
        m == i.module
    IN  /\ co[c].pc \in {"reflow"} \cup Reflowing => ~GatePasses(i)
        /\ co[c].pc = "rewire" => co[c].old.module = m /\ co[c].todo \subseteq {Integration}
        /\ co[c].pc \in Reflowing /\ ~Canceled => status[Integration] = "pending"
        /\ co[c].pc \in {"rewire", "replace"} /\ ~Canceled => i.gen < terminal[m].gen
        /\ co[c].pc \in {"obsolete", "terminal"} /\ ~Canceled =>
            /\ i.gen = terminal[m].gen /\ i.gen < attempts[m]
            /\ \A j \in Created : j.module = m /\ j.gen = i.gen =>
                /\ j.pos < i.pos => status[j] \in Done
                /\ j.pos > i.pos =>
                        status[j] = "skipped" \/ (co[c].pc = "obsolete" /\ j \in co[c].todo)
        /\ co[c].pc = "terminal" =>
                co[c].todo = {} /\ \A k \in 1 .. 4 : Item(m, attempts[m], k) \in Created

Lineages ==
    confirmed => \A m \in Modules :
        /\ Lineage(m)
        /\ ~Canceled => Past(m) /\ Present(m) /\ Future(m) /\ Awaited(m)

Ordered ==
    /\ Preparing /\ Begun /\ Replacing /\ GlobalsStand /\ Wired
    /\ Lineages /\ (\A c \in Callers : Retires(c))
    /\ Sched!DependenciesBeforeWork

\* The integration test is the first global stage, and the only item of its role.
LEMMA IntegrationItem ==
    /\ Integration \in Pipeline /\ Integration.module = Global /\ Integration.gen = 0
    /\ Global \notin Modules
    /\ \A i \in Items : Role(i) = "integration-test" <=> i = Integration
    /\ StartsAfter(Integration) =
            {j \in Pipeline : j.module # Global /\ j.pos \in PackageTerminals(j.module)}
  <1> USE DEF Integration
  <1>1. Integration \in Pipeline /\ Global \notin Modules
    BY GlobalItems, EngineAssumption
  <1>2. Integration.module = Global /\ Integration.gen = 0 /\ Integration.pos = 1
    BY DEF GlobalItem, Item
  <1>3. ASSUME NEW i \in Items PROVE Role(i) = "integration-test" <=> i = Integration
    <2>1. CASE i.module = Global
      <3>1. i = GlobalItem(i.pos) /\ i.pos \in 1 .. 3
        BY <1>1, <2>1, ItemShape DEF GlobalItem, Item
      <3>2. Role(i) = GlobalStages[i.pos]
        BY <2>1 DEF Role
      <3>3. GlobalStages[1] = "integration-test" /\ GlobalStages[2] # "integration-test"
            /\ GlobalStages[3] # "integration-test"
        BY DEF GlobalStages
      <3>4. QED
        BY <1>2, <3>1, <3>2, <3>3
    <2>2. CASE i.module # Global
      <3>1. Role(i) \in Range(ModuleStages)
        <4>1. CASE i.gen = 0
          BY <2>2, <4>1, ItemShape, PackageShape DEF Role
        <4>2. CASE i.gen # 0
          <5>1. Role(i) = ModuleStages[i.pos] /\ i.pos \in 1 .. 4
            BY <2>2, <4>2, ItemShape DEF Role
          <5>2. QED
            BY <5>1 DEF Range, ModuleStages
        <4>3. QED
          BY <4>1, <4>2
      <3>2. "integration-test" \notin Range(ModuleStages)
        BY DEF Range, ModuleStages
      <3>3. QED
        BY <1>2, <2>2, <3>1, <3>2
    <2>3. QED
      BY <2>1, <2>2
  <1>4. QED
    BY <1>1, <1>2, <1>3 DEF StartsAfter

\* Only one coroutine is at a time in the middle of a reflow.
LEMMA OneReflow ==
    ASSUME Base, NEW c \in Callers, co[c].pc \in {"reflow"} \cup Reflowing
    PROVE  /\ loop = c
           /\ co[c].pc \in Working /\ co[c].item \in Items /\ co[c].item \in Created
           /\ status[co[c].item] = "running"
           /\ \A d \in Callers : co[d].pc \in {"reflow"} \cup Reflowing => d = c
  <1>1. \A d \in Callers : co[d].pc \in {"reflow"} \cup Reflowing => loop = d /\ co[d].pc \in Acting
    BY WorkingItem DEF Reflowing, Acting
  <1>2. QED
    BY <1>1, WorkingItem DEF Base, ExecutionSound, CallerSound

\* In a chain each item depends on the one before.
LEMMA ChainLink ==
    ASSUME Wired, NEW i \in Created, i.module \in Modules, Chain(i.module), i.pos > 1
    PROVE  /\ i.pos - 1 \in Nat /\ Item(i.module, i.gen, i.pos - 1) \in Items
           /\ Item(i.module, i.gen, i.pos - 1) \in dependsOn[i]
  <1>1. i \in Items /\ Global \notin Modules
    BY EngineAssumption DEF Created
  <1>2. CASE i.gen = 0
    <2>1. i.pos \in DOMAIN Package[i.module] /\ DOMAIN Package[i.module] = 1 .. Len(Package[i.module])
          /\ Len(Package[i.module]) \in Nat
      BY <1>1, <1>2, ItemShape, PackageShape
    <2>2. i.pos - 1 \in PackageAfter(i.module, i.pos) /\ i.pos - 1 \in DOMAIN Package[i.module]
      BY <2>1 DEF Chain
    <2>3. dependsOn[i] = {Item(i.module, 0, j) : j \in PackageAfter(i.module, i.pos)}
      BY <1>1, <1>2 DEF Wired, StartsAfter
    <2>4. QED
      BY <1>2, <2>1, <2>2, <2>3, PackageItem
  <1>3. CASE i.gen # 0
    <2>1. i.gen \in 1 .. MaxModuleReflows /\ i.pos \in 1 .. 4
      BY <1>1, <1>3, ItemShape
    <2>2. i.gen > 0 /\ i.pos - 1 \in 1 .. 4
      BY <2>1, EngineAssumption
    <2>3. dependsOn[i] = {Item(i.module, i.gen, i.pos - 1)}
      BY <2>2 DEF Wired
    <2>4. QED
      BY <2>1, <2>2, <2>3, PackageItem
  <1>4. QED
    BY <1>2, <1>3

\* What has been released or completed was released after all it depends on was done.
LEMMA ReleasedAfter ==
    ASSUME Sched!DependenciesBeforeWork, NEW i \in Items, status[i] \notin {"pending", "skipped"},
           NEW d \in dependsOn[i]
    PROVE  status[d] \in Done
  BY DEF Sched!DependenciesBeforeWork, Sched!Done, Done

\* Once all the integration test waits for is done, all there is of every module is done,
\* and it has not been skipped at its end.
LEMMA ModulesDone ==
    ASSUME Base, Ordered, confirmed, ~Canceled, \A c \in Callers : co[c].pc \notin Reflowing,
           \A d \in dependsOn[Integration] : status[d] \in Done, NEW m \in Modules
    PROVE  /\ \A i \in Created : i.module = m => status[i] \in Done
           /\ status[terminal[m]] = "succeeded"
  <1> DEFINE g == terminal[m].gen
             n == IF g = 0 THEN Len(Package[m]) ELSE 4
             left == {k \in 0 .. n : Item(m, g, k) \in Created /\ status[Item(m, g, k)] \notin Done}
  <1>0. /\ terminal[m] \in Created /\ terminal[m] \in Items /\ terminal[m].module = m
        /\ Pipeline \subseteq Created /\ m # Global
    BY IntegrationItem DEF Ordered, Begun, Created
  <1>1. /\ \A i \in Created : i.module = m /\ i.gen < g => status[i] \in Done
        /\ \A i \in Created : i.module = m /\ i.gen = g => status[i] # "skipped"
        /\ \A i \in Created : i.module = m => ~(i.gen > g)
        /\ terminal[m] \in dependsOn[Integration]
        /\ g = 0 => \A k \in PackageTerminals(m) : Item(m, 0, k) \in dependsOn[Integration]
        /\ g > 0 => terminal[m] = Item(m, g, 4) /\ \A k \in 1 .. 4 : Item(m, g, k) \in Created
        /\ Wired /\ Sched!DependenciesBeforeWork
    BY DEF Ordered, Lineages, Lineage, Past, Present, Future, Awaited, Reflowing
  <1>2. status[terminal[m]] = "succeeded"
    BY <1>0, <1>1 DEF Done
  <1>3. /\ g \in 0 .. MaxModuleReflows /\ MaxModuleReflows \in Nat
        /\ Len(Package[m]) \in Nat /\ DOMAIN Package[m] = 1 .. Len(Package[m]) /\ n \in Nat
    BY <1>0, ItemShape, PackageShape, EngineAssumption
  <1>4. ASSUME NEW k \in left, \A l \in left : l <= k PROVE FALSE
    <2>1. Item(m, g, k) \in Items /\ Item(m, g, k).module = m /\ Item(m, g, k).gen = g /\ Item(m, g, k).pos = k
      BY DEF Created, Item
    <2>2. ASSUME NEW j \in 0 .. n, j > k, Item(m, g, j) \in Created,
                 Item(m, g, k) \in dependsOn[Item(m, g, j)]
          PROVE  FALSE
      <3>1. j \notin left
        BY <1>3, <1>4, <2>2
      <3>2. status[Item(m, g, j)] \in Done
        BY <2>2, <3>1
      <3>3. status[Item(m, g, j)] # "skipped"
        BY <1>1, <2>2 DEF Item
      <3>4. Item(m, g, j) \in Items
        BY <2>2 DEF Created
      <3>5. status[Item(m, g, k)] \in Done
        BY <1>1, <2>2, <3>2, <3>3, <3>4, ReleasedAfter DEF Done
      <3>6. QED
        BY <3>5
    <2>3. CASE g = 0
      <3>1. k \in DOMAIN Package[m]
        BY <1>0, <2>1, <2>3, ItemShape
      <3>2. k \notin PackageTerminals(m)
        BY <1>1, <2>3
      <3>3. PICK j \in DOMAIN Package[m] : k \in PackageAfter(m, j)
        BY <3>1, <3>2 DEF PackageTerminals
      <3>4. k < j /\ j \in 0 .. n
        BY <1>3, <2>3, <3>3, PackageAfterEarlier
      <3>5. Item(m, 0, j) \in Pipeline /\ Item(m, 0, j) \in Created
        BY <1>0, <3>3, PackageItem DEF Pipeline, Item
      <3>6. dependsOn[Item(m, 0, j)] = {Item(m, 0, l) : l \in PackageAfter(m, j)}
        <4> DEFINE i == Item(m, 0, j)
        <4>1. i.module = m /\ i.gen = 0 /\ i.pos = j /\ i \in Created
          BY <3>5 DEF Item
        <4> HIDE DEF i
        <4>2. StartsAfter(i) = {Item(m, 0, l) : l \in PackageAfter(m, j)}
          BY <1>0, <4>1 DEF StartsAfter
        <4>3. dependsOn[i] = StartsAfter(i)
          BY <1>1, <4>1 DEF Wired
        <4>4. QED
          BY <4>2, <4>3 DEF i
      <3>7. QED
        BY <2>2, <2>3, <3>3, <3>4, <3>5, <3>6
    <2>4. CASE g # 0
      <3>1. k \in 1 .. 4 /\ g > 0
        BY <1>0, <1>3, <2>1, <2>4, ItemShape
      <3>2. k # 4
        BY <1>1, <1>2, <3>1 DEF Done
      <3>3. k + 1 \in 1 .. 4 /\ k + 1 \in 0 .. n /\ k + 1 > k /\ k + 1 - 1 = k /\ k + 1 > 1
        BY <2>4, <3>1, <3>2
      <3>4. Item(m, g, k + 1) \in Created
        BY <1>1, <3>1, <3>3
      <3>5. dependsOn[Item(m, g, k + 1)] = {Item(m, g, k)}
        BY <1>1, <3>1, <3>3, <3>4 DEF Wired, Item
      <3>6. QED
        BY <2>2, <3>3, <3>4, <3>5
    <2>5. QED
      BY <2>3, <2>4
  <1>5. left = {}
    <2>1. left \in SUBSET (0 .. n)
      OBVIOUS
    <2> HIDE DEF left
    <2>2. CASE left # {}
      BY <1>3, <1>4, <2>1, <2>2, MaxOf
    <2>3. QED
      BY <2>2
  <1>6. ASSUME NEW i \in Created, i.module = m PROVE status[i] \in Done
    <2>1. i \in Items /\ i.gen \in 0 .. MaxModuleReflows
      BY <1>3, <1>6, ItemShape DEF Created
    <2>2. CASE i.gen < g
      BY <1>1, <1>6, <2>2
    <2>3. CASE i.gen = g
      <3>1. i = Item(m, g, i.pos) /\ i.pos \in 0 .. n
        BY <1>0, <1>3, <1>6, <2>1, <2>3, ItemShape
      <3>2. QED
        BY <1>5, <3>1
    <2>4. QED
      BY <1>1, <1>3, <1>6, <2>1, <2>2, <2>3
  <1>7. QED
    BY <1>2, <1>6

\* Before an item of a chain that has been released everything is done.
LEMMA EarlierDone ==
    ASSUME Wired, Sched!DependenciesBeforeWork, NEW i \in Created, i.module \in Modules,
           Chain(i.module), status[i] \notin {"pending", "skipped"},
           \A k \in 1 .. i.pos : Item(i.module, i.gen, k) \in Created,
           \A j \in Created : j.module = i.module /\ j.gen = i.gen => status[j] # "skipped",
           NEW j \in Created, j.module = i.module, j.gen = i.gen, j.pos < i.pos
    PROVE  status[j] \in Done
  <1> DEFINE m == i.module
             g == i.gen
             left == {k \in 0 .. i.pos : /\ k < i.pos /\ Item(m, g, k) \in Created
                                          /\ status[Item(m, g, k)] \notin Done}
  <1>0. i \in Items /\ j \in Items
    BY DEF Created
  <1>1. i.pos \in Nat /\ j.pos \in Nat /\ j = Item(m, g, j.pos) /\ i = Item(m, g, i.pos)
    BY <1>0, ItemShape, PackageShape
  <1>2. ASSUME NEW k \in left, \A l \in left : l <= k PROVE FALSE
    <2>1. (k \in 0 .. i.pos /\ k < i.pos /\ k + 1 \in 1 .. i.pos /\ k + 1 > 1) \/ k = 0
      BY <1>1, <1>2
    <2>2. Item(m, g, k) \in Items /\ Item(m, g, k).pos = k
      BY <1>2 DEF Created, Item
    <2>3. k # 0
      BY <2>2, ItemShape, PackageShape
    <2> DEFINE next == Item(m, g, k + 1)
    <2>4. next \in Created /\ next \in Items /\ next.module = m /\ next.gen = g /\ next.pos = k + 1
      BY <2>1, <2>3 DEF Created, Item
    <2>5. Item(m, g, k) \in dependsOn[next]
      <3>1. next.pos - 1 = k /\ next.pos > 1
        BY <2>1, <2>3, <2>4
      <3>2. Item(next.module, next.gen, next.pos - 1) \in dependsOn[next]
        BY <2>4, <3>1, ChainLink
      <3>3. QED
        BY <2>4, <3>1, <3>2
    <2>6. status[next] \notin {"pending", "skipped"}
      <3>1. CASE k + 1 = i.pos
        BY <1>1, <3>1
      <3>2. CASE k + 1 # i.pos
        <4>1. k + 1 \in 0 .. i.pos /\ k + 1 < i.pos /\ ~(k + 1 <= k)
          BY <1>1, <2>1, <2>3, <3>2
        <4>2. k + 1 \notin left
          BY <1>2, <4>1
        <4>3. status[next] \in Done
          BY <2>4, <4>1, <4>2
        <4>4. QED
          BY <2>4, <4>3 DEF Done
      <3>3. QED
        BY <3>1, <3>2
    <2> HIDE DEF next
    <2>7. status[Item(m, g, k)] \in Done
      BY <2>4, <2>5, <2>6, ReleasedAfter
    <2>8. QED
      BY <1>2, <2>7
  <1>3. left = {}
    <2>1. left \in SUBSET (0 .. i.pos)
      OBVIOUS
    <2> HIDE DEF left
    <2>2. CASE left # {}
      BY <1>1, <1>2, <2>1, <2>2, MaxOf
    <2>3. QED
      BY <2>2
  <1>4. QED
    BY <1>1, <1>3

\* Behind a running item of a chain everything is pending and reached from it.
LEMMA LaterObsolete ==
    ASSUME Base, Wired, Sched!DependenciesBeforeWork, NEW i \in Created, i.module \in Modules,
           Chain(i.module), status[i] = "running",
           \A j \in Created : j.module = i.module /\ j.gen = i.gen => status[j] # "skipped",
           NEW j \in Created, j.module = i.module, j.gen = i.gen, j.pos > i.pos
    PROVE  j \in Obsolete(i)
  <1> DEFINE m == i.module
             g == i.gen
             it(k) == Item(m, g, k)
  <1>0. i \in Items /\ j \in Items
    BY DEF Created
  <1>1. i.pos \in Nat /\ j.pos \in Nat /\ j = it(j.pos) /\ i = it(i.pos)
    BY <1>0, ItemShape, PackageShape
  <1>2. ASSUME NEW k \in Nat, k > i.pos, it(k) \in Created
        PROVE  /\ it(k) \in Items /\ k - 1 \in Nat /\ k - 1 >= i.pos
               /\ it(k - 1) \in Created /\ it(k - 1) \in dependsOn[it(k)]
    <2>1. k > 1
      BY <1>0, <1>1, <1>2, ItemShape, PackageShape
    <2>2. it(k).module = m /\ it(k).gen = g /\ it(k).pos = k /\ it(k) \in Items
      BY <1>2 DEF Created, Item
    <2> HIDE DEF it
    <2>3. Item(it(k).module, it(k).gen, it(k).pos - 1) \in dependsOn[it(k)]
          /\ Item(it(k).module, it(k).gen, it(k).pos - 1) \in Items
      BY <1>2, <2>1, <2>2, ChainLink
    <2>4. it(k - 1) \in dependsOn[it(k)] /\ it(k - 1) \in Items
      BY <2>2, <2>3 DEF it
    <2>5. runOf[it(k - 1)] = runOf[it(k)]
      BY <2>2, <2>4 DEF Base, Sched!RunsAreIsolated
    <2>6. QED
      BY <1>1, <1>2, <2>1, <2>2, <2>4, <2>5 DEF Created
  <1>3. ASSUME NEW k \in Nat, k > i.pos, it(k) \in Created PROVE status[it(k)] = "pending"
    <2> DEFINE moved == {l \in Nat : l > i.pos /\ it(l) \in Created /\ status[it(l)] # "pending"}
    <2>1. ASSUME NEW l \in moved, \A n \in moved : l <= n PROVE FALSE
      <3>1. it(l) \in Items /\ l - 1 \in Nat /\ l - 1 >= i.pos /\ it(l - 1) \in Created
            /\ it(l - 1) \in dependsOn[it(l)] /\ status[it(l)] # "skipped"
        BY <1>2 DEF Item
      <3>2. status[it(l - 1)] \in Done
        <4> HIDE DEF it
        <4>1. QED
          BY <3>1, ReleasedAfter
      <3>3. l - 1 # i.pos
        BY <1>1, <3>2 DEF Done
      <3>4. l - 1 \in moved
        BY <1>1, <3>1, <3>2, <3>3 DEF Done
      <3>5. QED
        BY <2>1, <3>4
    <2>2. moved \in SUBSET Nat
      OBVIOUS
    <2> HIDE DEF moved
    <2>3. moved = {}
      BY <2>1, <2>2, LeastExists
    <2>4. QED
      BY <1>3, <2>3 DEF moved
  <1>4. ASSUME NEW S \in SUBSET Retirable(i),
               \A k \in Retirable(i) : dependsOn[k] \cap (S \cup {i}) # {} => k \in S
        PROVE  j \in S
    <2> DEFINE out == {l \in Nat : l > i.pos /\ it(l) \in Created /\ it(l) \notin S}
    <2>1. ASSUME NEW l \in out, \A n \in out : l <= n PROVE FALSE
      <3>1. it(l) \in Items /\ l - 1 \in Nat /\ l - 1 >= i.pos /\ it(l - 1) \in Created
            /\ it(l - 1) \in dependsOn[it(l)]
        BY <1>2
      <3>2. it(l) \in Retirable(i)
        BY <1>3 DEF Retirable, Item
      <3>3. it(l - 1) \in S \cup {i}
        <4>1. CASE l - 1 = i.pos
          BY <1>1, <4>1
        <4>2. CASE l - 1 # i.pos
          BY <1>1, <2>1, <3>1, <4>2
        <4>3. QED
          BY <4>1, <4>2
      <3>4. QED
        BY <1>4, <3>1, <3>2, <3>3
    <2>2. out \in SUBSET Nat
      OBVIOUS
    <2> HIDE DEF out
    <2>3. out = {}
      BY <2>1, <2>2, LeastExists
    <2>4. QED
      BY <1>1, <2>3 DEF out
  <1>5. j \in Retirable(i) /\ j # i
    <2>1. status[j] = "pending"
      BY <1>1, <1>3
    <2>2. QED
      BY <1>1, <2>1 DEF Retirable
  <1>6. QED
    BY <1>4, <1>5 DEF Obsolete

\* A reflow begins with a gate that failed.
LEMMA ReflowCause ==
    ASSUME Base, Step, NEW c \in Callers, co'[c].pc = "reflow"
    PROVE  JudgeSuccess(c) /\ co'[c].item = co[c].item /\ ~GatePasses(co[c].item)
  <1> USE DEF At
  <1>0. TypeOK /\ NoCaller \notin Callers
    BY EngineAssumption DEF Base
  <1>1. PICK d \in Callers : Bootstrap(d) \/ Execute(d) \/ Answered(d) \/ Running(d)
    BY <1>0, OtherSteps, WorkingItem
  <1>2. d = c
    BY <1>0, <1>1, OneMoves, WorkingItem
  <1>3. ASSUME NEW p, p # "reflow", GoTo(c, p) PROVE FALSE
    BY <1>0, <1>3, Moves
  <1>4. ~Bootstrap(c) /\ ~Execute(c) /\ ~Answered(c) /\ ~PullReady(c) /\ ~PullTick(c) /\ ~Leave(c)
        /\ \A i \in Items : ~StartNext(c, i)
    BY <1>0, Moves
  <1>5. ~BeginReflow(c) /\ ~SkipObsolete(c) /\ ~Grow(c) /\ ~SetTerminal(c) /\ ~Rewire(c)
    BY <1>0, ReflowMoves
  <1>6. JudgeSuccess(c)
    BY <1>1, <1>2, <1>3, <1>4, <1>5
    DEF Running, BootstrapItem, BootstrapEnd, PullEnd, NextRoundOfBatch, StartRefused, JudgeDrop,
        JudgeFailure, Complete, Emit, Fail, RewireRefused, Replace, RaiseIfCanceled
  <1>7. QED
    BY <1>0, <1>3, <1>6, Moves DEF JudgeSuccess

\* Who creates items and changes what they depend on.
LEMMA StructureSteps ==
    ASSUME Base, Step
    PROVE  \/ UNCHANGED <<runOf, dependsOn>>
           \/ \E c \in Callers : BootstrapItem(c) \/ Grow(c) \/ Rewire(c)
  <1> USE DEF Scheduler!itemVars
  <1>1. ASSUME NEW c \in Callers, Answered(c) PROVE UNCHANGED <<runOf, dependsOn>>
    BY <1>1 DEF Answered, Answer, AnswerDiscuss, AnswerDiscussRefused, schedulerVars, Scheduler!Move,
       Scheduler!MarkNeedsDiscussion, Scheduler!ExhaustDiscussion, Scheduler!OpenDiscussion
  <1>2. ASSUME NEW c \in Callers, Running(c), ~BootstrapItem(c), ~Grow(c), ~Rewire(c)
        PROVE  UNCHANGED <<runOf, dependsOn>>
    BY <1>2
    DEF Running, BootstrapEnd, PullReady, PullTick, PullEnd, NextRoundOfBatch, StartNext, StartRefused,
        JudgeDrop, JudgeSuccess, JudgeFailure, Complete, Emit, Fail, BeginReflow, SkipObsolete, SetTerminal,
        RewireRefused, Replace, RaiseIfCanceled, schedulerVars, Scheduler!Tick, Scheduler!Move,
        Scheduler!StartWorkItem, Scheduler!CompleteWorkItem, Scheduler!SkipWorkItem
  <1>3. QED
    BY <1>1, <1>2
    DEF Step, Next, Crash, Bootstrap, Execute, Create, Interrupt, Approve, Resolve, ManualTick, ManualStart,
        ManualComplete, Elsewhere, schedulerVars, Scheduler!CreateRun, Scheduler!InterruptRun, Scheduler!Move,
        Scheduler!ApproveWorkItem, Scheduler!ResolveDiscussion, Scheduler!Tick, Scheduler!StartWorkItem,
        Scheduler!CompleteWorkItem

\* A coroutine that is in the middle of a reflow does a step of it, and nobody else does any.
LEMMA ReflowGoesOn ==
    ASSUME Base, Next, NEW c \in Callers, co[c].pc \in Reflowing
    PROVE  \/ SkipObsolete(c) \/ Grow(c) \/ SetTerminal(c) \/ Rewire(c) \/ Replace(c)
           \/ RewireRefused(c) /\ Canceled
  <1>1. loop = c /\ NoCaller \notin Callers /\ TypeOK
    BY OneReflow, EngineAssumption DEF Base
  <1>2. PICK d \in Callers : Bootstrap(d) \/ Execute(d) \/ Answered(d) \/ Running(d)
    BY <1>1, OtherSteps DEF Step, Next, Create, Interrupt, Approve, Resolve, ManualTick, ManualStart,
       ManualComplete, Elsewhere
  <1>3. d = c
    BY <1>1, <1>2, OneMoves
  <1>4. QED
    BY <1>1, <1>2, <1>3
    DEF Reflowing, At, Bootstrap, Execute, Answered, Running, Answer, AnswerDiscuss, AnswerDiscussRefused,
        BootstrapItem, BootstrapEnd, PullReady, PullTick, PullEnd, NextRoundOfBatch, StartNext,
        StartRefused, JudgeDrop, JudgeSuccess, JudgeFailure, Complete, Emit, Fail, BeginReflow,
        RewireRefused, RaiseIfCanceled

\* Until bootstrap has returned nobody else finds an item to act on.
LEMMA StepPreparing ==
    ASSUME Base, Preparing, Next
    PROVE  Preparing'
  <1> SUFFICES ASSUME ~confirmed'
               PROVE  /\ \A i \in Items : status'[i] = "pending"
                      /\ \A c \in Callers : co'[c].pc \in {"idle", "bootstrap"}
                      /\ loop' = NoCaller => Created' = {}
                      /\ Created' \subseteq Pipeline
    BY DEF Preparing
  <1>0. TypeOK /\ Step /\ NoCaller \notin Callers
    BY EngineAssumption DEF Step, Base
  <1>1. ~confirmed /\ \A c \in Callers : ~BootstrapEnd(c)
    <2>1. \A c \in Callers : ~BootstrapEnd(c)
      BY DEF BootstrapEnd
    <2>2. QED
      BY <1>0, <2>1, RecordSteps
  <1>2. /\ \A i \in Items : status[i] = "pending"
        /\ \A c \in Callers : co[c].pc \in {"idle", "bootstrap"}
        /\ loop = NoCaller => Created = {}
        /\ Created \subseteq Pipeline
    BY <1>1 DEF Preparing
  <1>3. ASSUME NEW c \in Callers, Bootstrap(c) \/ Execute(c) \/ Answered(c) \/ Running(c)
        PROVE  /\ UNCHANGED status /\ loop' # NoCaller /\ Created' \subseteq Pipeline
               /\ \A d \in Callers : co'[d].pc \in {"idle", "bootstrap"}
    <2>1. UNCHANGED status /\ (Bootstrap(c) \/ BootstrapItem(c))
      BY <1>1, <1>2, <1>3, QuietStep DEF Execute
    <2>2. CASE Bootstrap(c)
      BY <1>0, <1>2, <1>3, <2>1, <2>2, OneMoves, Moves DEF Bootstrap, schedulerVars, Created
    <2>3. CASE BootstrapItem(c)
      <3>1. co'[c].pc = "bootstrap" /\ loop' = c
        BY <1>0, <2>3, Moves DEF BootstrapItem, At
      <3>2. Created' \subseteq Pipeline
        <4>1. PICK i \in Pipeline : Scheduler!AddWorkItem(i, Run, StartsAfter(i), AsksApproval(i))
          BY <2>3 DEF BootstrapItem
        <4>2. runOf' = [runOf EXCEPT ![i] = Run] /\ runOf \in [Items -> {Run, NoRun}]
          BY <4>1, CreatedAgain DEF Scheduler!AddWorkItem
        <4>3. QED
          BY <1>2, <4>2 DEF Created
      <3>3. QED
        BY <1>0, <1>2, <1>3, <2>1, <3>1, <3>2, OneMoves
    <2>4. QED
      BY <2>1, <2>2, <2>3
  <1>4. CASE ~(\E c \in Callers : Bootstrap(c) \/ Execute(c) \/ Answered(c) \/ Running(c))
    <2>1. loop = NoCaller /\ UNCHANGED <<co, loop>>
      BY <1>4 DEF Next, Create, Interrupt, Approve, Resolve, ManualTick, ManualStart, ManualComplete,
         Elsewhere
    <2>2. Created = {} /\ \A i \in Items : i \notin Scheduler!Created /\ runOf[i] = NoRun
      BY <1>2, <2>1, CreatedAgain, EngineAssumption DEF Created
    <2>3. status \in [Items -> Scheduler!ItemStatus]
      BY <1>0 DEF TypeOK, Scheduler!TypeOK
    <2>4. ASSUME Create \/ Interrupt PROVE UNCHANGED runOf /\ \A i \in Items : status'[i] = status[i]
      BY <2>2, <2>3, <2>4, EngineAssumption DEF Create, Interrupt, Elsewhere, Scheduler!CreateRun,
         Scheduler!InterruptRun, Scheduler!itemVars
    <2>5. ~Approve /\ ~Resolve /\ ~ManualStart /\ ~ManualComplete
      BY <2>2 DEF Approve, Resolve, ManualStart, ManualComplete, Elsewhere, Scheduler!ApproveWorkItem,
         Scheduler!ResolveDiscussion, Scheduler!StartWorkItem, Scheduler!CompleteWorkItem
    <2>6. ASSUME ManualTick PROVE UNCHANGED runOf /\ \A i \in Items : status'[i] = status[i]
      <3>1. Scheduler!Releasable(Run) = {}
        BY <2>2, EngineAssumption DEF Scheduler!Releasable, Scheduler!ItemsOf
      <3>2. QED
        BY <2>6, <3>1 DEF ManualTick, Elsewhere, Scheduler!Tick, Scheduler!itemVars
    <2>7. UNCHANGED runOf /\ \A i \in Items : status'[i] = status[i]
      BY <1>4, <2>4, <2>5, <2>6 DEF Next
    <2>8. Created' = {}
      BY <2>2, <2>7 DEF Created
    <2>9. QED
      BY <1>2, <2>1, <2>7, <2>8
  <1>5. QED
    BY <1>2, <1>3, <1>4

\* Dependencies are given once; only the integration test is told of new ones.
LEMMA StepWired ==
    ASSUME Base, Ordered, Next
    PROVE  Wired'
  <1>0. /\ TypeOK /\ Step /\ Wired /\ Preparing /\ (confirmed => confirmed')
        /\ dependsOn \in [Items -> SUBSET Items] /\ runOf \in [Items -> {Run, NoRun}]
    BY CreatedAgain, RecordSteps DEF Step, Base, Ordered, TypeOK, Scheduler!TypeOK, BootstrapEnd
  <1>1. CASE UNCHANGED <<runOf, dependsOn>>
    BY <1>0, <1>1 DEF Wired, Created, StartsAfter
  <1>2. ASSUME NEW i \in Items, NEW ds, NEW approval, Scheduler!AddWorkItem(i, Run, ds, approval)
        PROVE  /\ Created' = Created \cup {i} /\ i \notin Created
               /\ dependsOn'[i] = ds /\ \A j \in Items \ {i} : dependsOn'[j] = dependsOn[j]
    <2>1. runOf' = [runOf EXCEPT ![i] = Run] /\ dependsOn' = [dependsOn EXCEPT ![i] = ds] /\ runOf[i] = NoRun
      BY <1>2 DEF Scheduler!AddWorkItem
    <2>2. QED
      BY <1>0, <2>1, EngineAssumption DEF Created
  <1>3. ASSUME NEW c \in Callers, BootstrapItem(c) PROVE Wired'
    <2>1. PICK i \in Pipeline : Scheduler!AddWorkItem(i, Run, StartsAfter(i), AsksApproval(i))
      BY <1>3 DEF BootstrapItem
    <2>2. i \in Items /\ i.gen = 0
      BY DEF Pipeline
    <2>3. /\ Created' = Created \cup {i}
          /\ dependsOn'[i] = StartsAfter(i) /\ \A j \in Items \ {i} : dependsOn'[j] = dependsOn[j]
      BY <1>2, <2>1, <2>2
    <2>4. \A j : StartsAfter(j)' = StartsAfter(j)
      BY DEF StartsAfter
    <2>5. \A j \in Created : j \in Items
      BY DEF Created
    <2>6. ASSUME NEW j \in Created', j.module \in Modules, j.gen = 0 PROVE dependsOn'[j] = StartsAfter(j)
      BY <1>0, <2>3, <2>5, <2>6 DEF Wired
    <2>7. ASSUME NEW j \in Created', j.gen > 0, j.pos > 1
          PROVE  dependsOn'[j] = {Item(j.module, j.gen, j.pos - 1)}
      BY <1>0, <2>2, <2>3, <2>5, <2>7 DEF Wired
    <2>8. ~confirmed' /\ Integration \in Created' => dependsOn'[Integration] = StartsAfter(Integration)
      BY <1>0, <2>3, <2>5 DEF Wired
    <2>9. QED
      BY <2>4, <2>6, <2>7, <2>8 DEF Wired
  <1>4. ASSUME NEW c \in Callers, Grow(c) PROVE Wired'
    <2> DEFINE i == co[c].item
               chain(k) == Item(i.module, attempts[i.module], k)
    <2>1. PICK k \in DOMAIN ModuleStages :
            Scheduler!AddWorkItem(chain(k), Run, IF k = 1 THEN dependsOn[i] ELSE {chain(k - 1)}, FALSE)
      BY <1>4 DEF Grow
    <2>2. chain(k) \in Items /\ attempts[i.module] \in 1 .. MaxModuleReflows
      <3>1. DOMAIN ModuleStages = 1 .. 4
        BY DEF ModuleStages
      <3>2. QED
        BY <1>4, <3>1, PackageItem DEF Grow, At, Base, ReflowSound
    <2>3. /\ chain(k).module = i.module /\ chain(k).gen = attempts[i.module] /\ chain(k).pos = k
          /\ chain(k).gen > 0
      BY <2>2, EngineAssumption DEF Item
    <2>4. /\ Created' = Created \cup {chain(k)}
          /\ dependsOn'[chain(k)] = (IF k = 1 THEN dependsOn[i] ELSE {chain(k - 1)})
          /\ \A j \in Items \ {chain(k)} : dependsOn'[j] = dependsOn[j]
      BY <1>2, <2>1, <2>2
    <2>5. k > 1 => dependsOn'[chain(k)] = {Item(chain(k).module, chain(k).gen, chain(k).pos - 1)}
      BY <2>3, <2>4
    <2>6. confirmed'
      BY <1>0, <1>4 DEF Grow, At, Preparing
    <2>7. \A j : StartsAfter(j)' = StartsAfter(j)
      BY DEF StartsAfter
    <2>8. \A j \in Created : j \in Items
      BY DEF Created
    <2> HIDE DEF chain
    <2>9. ASSUME NEW j \in Created', j.module \in Modules, j.gen = 0 PROVE dependsOn'[j] = StartsAfter(j)
      BY <1>0, <2>3, <2>4, <2>8, <2>9 DEF Wired
    <2>10. ASSUME NEW j \in Created', j.gen > 0, j.pos > 1
           PROVE  dependsOn'[j] = {Item(j.module, j.gen, j.pos - 1)}
      BY <1>0, <2>3, <2>4, <2>5, <2>8, <2>10 DEF Wired
    <2>11. QED
      BY <2>6, <2>7, <2>9, <2>10 DEF Wired
  <1>5. ASSUME NEW c \in Callers, Rewire(c) PROVE Wired'
    <2>1. CASE UNCHANGED <<runOf, dependsOn>>
      BY <1>1, <2>1
    <2>2. CASE ~UNCHANGED <<runOf, dependsOn>>
      <3>0. PICK i \in co[c].todo : \E ds : Scheduler!UpdateWorkItemDependencies(i, ds)
        BY <1>5, <2>2 DEF Rewire, schedulerVars
      <3>1. PICK ds : Scheduler!UpdateWorkItemDependencies(i, ds)
        BY <3>0
      <3>2. i = Integration
        BY <1>5, <3>1 DEF Rewire, At, Ordered, Retires
      <3>3. dependsOn' = [dependsOn EXCEPT ![Integration] = ds] /\ runOf' = runOf
        BY <3>1, <3>2 DEF Scheduler!UpdateWorkItemDependencies
      <3>4. confirmed'
        BY <1>0, <1>5 DEF Rewire, At, Preparing
      <3>5. \A j \in Created : j \in Items
        BY DEF Created
      <3>6. \A j \in Created : j # Integration => dependsOn'[j] = dependsOn[j]
        BY <1>0, <3>3, <3>5
      <3>7. ~(Integration.module \in Modules) /\ ~(Integration.gen > 0)
        BY IntegrationItem
      <3>8. Created' = Created
        BY <3>3 DEF Created
      <3> HIDE DEF Integration
      <3>9. QED
        BY <1>0, <3>4, <3>6, <3>7, <3>8 DEF Wired, StartsAfter
    <2>3. QED
      BY <2>1, <2>2
  <1>6. QED
    BY <1>0, <1>1, <1>3, <1>4, <1>5, StructureSteps

\* A module of which nothing is being reflowed: its earlier chains are done, its latest one
\* stands, and the integration test waits for it.
AtRest(m) ==
    LET g == terminal[m].gen
    IN  /\ \A i \in Created : i.module = m =>
                /\ ~(i.gen > g)
                /\ i.gen < g => status[i] \in Done
                /\ i.gen = g => status[i] # "skipped"
        /\ terminal[m] \in dependsOn[Integration]
        /\ g = 0 => \A k \in PackageTerminals(m) : Item(m, 0, k) \in dependsOn[Integration]

\* While no caller reflows a module, the integration test waits for its latest chain.
LEMMA Resting ==
    ASSUME Ordered, confirmed, ~Canceled, NEW m \in Modules,
           \A c \in Callers : co[c].pc \in Reflowing => co[c].item.module # m
    PROVE  AtRest(m)
  <1>1. Past(m) /\ Present(m) /\ Future(m) /\ Awaited(m)
    BY DEF Ordered, Lineages
  <1>2. \A c \in Callers : co[c].pc \in {"obsolete", "terminal", "rewire", "replace"} => co[c].item.module # m
    BY DEF Reflowing
  <1>3. ASSUME NEW i \in Created, i.module = m
        PROVE  /\ ~(i.gen > terminal[m].gen)
               /\ i.gen < terminal[m].gen => status[i] \in Done
               /\ i.gen = terminal[m].gen => status[i] # "skipped"
    BY <1>1, <1>2, <1>3 DEF Past, Present, Future
  <1>4. QED
    BY <1>1, <1>2, <1>3 DEF AtRest, Awaited

\* Rest is left only where an item is skipped or created, or the module gets another end.
LEMMA RestKept ==
    ASSUME Base, [Step]_vars, NEW m \in Modules, AtRest(m), terminal[m].module = m,
           terminal'[m] = terminal[m],
           \A i \in Created' : i.module = m => i \in Created,
           \A i \in Created : i.module = m /\ status'[i] = "skipped" => status[i] = "skipped",
           \A d \in dependsOn[Integration] : d.module = m => d \in dependsOn'[Integration]
    PROVE  AtRest(m)'
  <1> DEFINE g == terminal[m].gen
  <1>1. ASSUME NEW i \in Created', i.module = m
        PROVE  /\ ~(i.gen > g)
               /\ i.gen < g => status'[i] \in Done
               /\ i.gen = g => status'[i] # "skipped"
    <2>1. i \in Created /\ i \in Items
      BY <1>1 DEF Created
    <2>2. ~(i.gen > g) /\ (i.gen < g => status[i] \in Done) /\ (i.gen = g => status[i] # "skipped")
      BY <1>1, <2>1 DEF AtRest
    <2>3. status[i] \in Done => status'[i] = status[i]
      BY <2>1, FinishedStays DEF Done
    <2>4. QED
      BY <1>1, <2>1, <2>2, <2>3
  <1>2. terminal'[m] \in dependsOn'[Integration]
    BY DEF AtRest
  <1>3. g = 0 => \A k \in PackageTerminals(m) : Item(m, 0, k) \in dependsOn'[Integration]
    BY DEF AtRest, Item
  <1>4. QED
    BY <1>1, <1>2, <1>3 DEF AtRest

\* The latest chain of a module stays complete while its terminal item stays and attempts only grow.
LEMMA LineageKept ==
    ASSUME Base, NEW m \in Modules, Lineage(m), Created \subseteq Created', terminal[m] \in Items,
           terminal'[m] = terminal[m], attempts'[m] \in Nat, attempts[m] <= attempts'[m]
    PROVE  Lineage(m)'
  <1>1. terminal[m].gen \in Nat
    <2>1. MaxModuleReflows \in Nat
      BY EngineAssumption
    <2>2. QED
      BY <2>1, ItemShape
  <1>2. attempts[m] \in Nat
    BY DEF Base, TypeOK
  <1>3. QED
    BY <1>1, <1>2 DEF Lineage

\* A step that is not part of bootstrap or of a reflow.
LEMMA OrdinaryStep ==
    ASSUME Base, Ordered, Chained, Next,
           \A c \in Callers :
                /\ ~BootstrapItem(c) /\ ~BootstrapEnd(c) /\ ~BeginReflow(c) /\ ~SkipObsolete(c)
                /\ ~Grow(c) /\ ~SetTerminal(c) /\ ~Rewire(c) /\ ~Replace(c)
    PROVE  Lineages' /\ \A c \in Callers : Retires(c)'
  <1>0. /\ TypeOK /\ Step /\ [Step]_vars /\ (Canceled => Canceled') /\ Created \subseteq Created'
        /\ Begun /\ Lineages /\ attempts \in [Modules -> Nat]
    BY SchedulerKept DEF Step, Base, Ordered, TypeOK
  <1>1. UNCHANGED <<runOf, dependsOn, attempts, terminal, confirmed>>
    BY <1>0, StructureSteps, RecordSteps
  <1>2. \A c \in Callers : co'[c].pc \notin Reflowing
    BY <1>0, ReflowStep DEF Reflowing
  <1>3. \A c \in Callers : Retires(c)'
    BY <1>0, <1>2, ReflowCause DEF Retires, Reflowing
  <1>4. Lineages'
    <2> SUFFICES ASSUME confirmed, NEW m \in Modules
                 PROVE  /\ Lineage(m)'
                        /\ ~Canceled' => Past(m)' /\ Present(m)' /\ Future(m)' /\ Awaited(m)'
      BY <1>1 DEF Lineages
    <2>1. terminal[m] \in Items /\ terminal[m].module = m
      BY <1>0 DEF Begun, Created
    <2>2. Lineage(m)'
      BY <1>0, <1>1, <2>1, LineageKept DEF Lineages
    <2>3. ASSUME ~Canceled' PROVE AtRest(m)'
      <3>1. ~Canceled
        BY <1>0, <2>3
      <3>2. AtRest(m)
        BY <3>1, Resting, ReflowGoesOn
      <3>3. ASSUME NEW i \in Created, status'[i] = "skipped", status[i] # "skipped" PROVE FALSE
        <4>1. i \in Items
          BY DEF Created
        <4>2. QED
          BY <1>0, <2>3, <3>3, <4>1, WhoMoves
      <3>4. Created' = Created
        BY <1>1 DEF Created
      <3>5. QED
        BY <1>0, <1>1, <2>1, <3>2, <3>3, <3>4, RestKept
    <2>4. QED
      BY <2>2, <2>3 DEF AtRest, Past, Present, Future, Awaited
  <1>5. QED
    BY <1>3, <1>4

\* The steps of bootstrap.
LEMMA BootstrapStep ==
    ASSUME Base, Ordered, Next, NEW c \in Callers, BootstrapItem(c) \/ BootstrapEnd(c)
    PROVE  Lineages' /\ \A d \in Callers : Retires(d)'
  <1>0. /\ TypeOK /\ Step /\ Preparing /\ Wired /\ Preparing' /\ Begun' /\ loop = c
        /\ terminal \in [Modules -> Items \cup {NoItem}] /\ attempts \in [Modules -> Nat]
        /\ Created = Created
    BY StepPreparing, StepBegun DEF Step, Base, Ordered, TypeOK, BootstrapItem, BootstrapEnd, At
  <1>1. ~confirmed
    BY <1>0 DEF BootstrapItem, BootstrapEnd, At, Ordered, Begun
  <1>2. \A d \in Callers : co'[d].pc \in {"idle", "bootstrap"}
    <2>1. \A d \in Callers : co[d].pc \in {"idle", "bootstrap"}
      BY <1>0, <1>1 DEF Preparing
    <2>2. co'[c].pc \in {"idle", "bootstrap"}
      BY <1>0, Moves DEF BootstrapItem, BootstrapEnd
    <2>3. QED
      BY <1>0, <2>1, <2>2, OneMoves DEF Running
  <1>3. \A d \in Callers : Retires(d)'
    BY <1>2 DEF Retires, Reflowing
  <1>4. CASE BootstrapItem(c)
    BY <1>1, <1>3, <1>4 DEF BootstrapItem, recordVars, Lineages
  <1>5. CASE BootstrapEnd(c)
    <2>1. /\ UNCHANGED <<runOf, dependsOn, status>> /\ Pipeline \subseteq Created
          /\ attempts' = [m \in Modules |-> 0]
          /\ terminal' = [m \in Modules |-> Item(m, 0, Max(PackageTerminals(m)))]
      BY <1>5 DEF BootstrapEnd, schedulerVars
    <2>2. dependsOn[Integration] = StartsAfter(Integration)
      BY <1>0, <1>1, <2>1, IntegrationItem DEF Wired
    <2>3. ASSUME NEW m \in Modules PROVE Lineage(m)' /\ AtRest(m)'
      <3>1. terminal'[m] = Item(m, 0, Max(PackageTerminals(m))) /\ attempts'[m] = 0
        BY <2>1
      <3>2. terminal'[m].gen = 0
        BY <3>1 DEF Item
      <3>3. Lineage(m)'
        BY <3>1, <3>2 DEF Lineage
      <3>4. ASSUME NEW i \in Created' PROVE i.gen = 0 /\ status'[i] = "pending"
        BY <1>0, <1>1, <2>1, <3>4 DEF Preparing, Pipeline, Created
      <3>5. ASSUME NEW k \in PackageTerminals(m) PROVE Item(m, 0, k) \in dependsOn'[Integration]
        <4>1. Item(m, 0, k) \in Items
          BY TerminalPosition, PackageItem
        <4>2. Item(m, 0, k) \in Pipeline /\ Item(m, 0, k).module = m /\ Item(m, 0, k).pos = k
          BY <4>1 DEF Pipeline, Item
        <4>3. m # Global
          BY IntegrationItem
        <4>4. QED
          BY <2>1, <2>2, <4>2, <4>3, IntegrationItem
      <3>6. terminal'[m] \in dependsOn'[Integration]
        BY <3>1, <3>5, TerminalPosition
      <3>7. QED
        BY <3>2, <3>3, <3>4, <3>5, <3>6 DEF AtRest
    <2>4. QED
      BY <1>3, <2>3 DEF Lineages, AtRest, Past, Present, Future, Awaited
  <1>6. QED
    BY <1>4, <1>5

\* While a coroutine is in a reflow the others are idle or await an answer.
LEMMA ReflowContext ==
    ASSUME Base, Ordered, Next, NEW c \in Callers, co[c].pc \in {"reflow"} \cup Reflowing, Running(c)
    PROVE  /\ TypeOK /\ Step /\ [Step]_vars /\ (Canceled => Canceled') /\ Created \subseteq Created'
           /\ confirmed /\ confirmed' /\ Lineages /\ Retires(c) /\ Begun /\ Wired
           /\ attempts \in [Modules -> Nat] /\ terminal \in [Modules -> Items \cup {NoItem}]
           /\ co[c].item \in Items /\ co[c].item \in Created /\ status[co[c].item] = "running"
           /\ \A n \in Modules : terminal[n] \in Items /\ terminal[n].module = n /\ terminal[n].gen \in Nat
           /\ \A d \in Callers \ {c} : /\ co[d].pc \in {"idle", "await"} /\ co'[d].pc \in {"idle", "await"}
                                       /\ Retires(d)'
  <1>1. /\ TypeOK /\ Step /\ [Step]_vars /\ (Canceled => Canceled') /\ Created \subseteq Created'
        /\ attempts \in [Modules -> Nat] /\ terminal \in [Modules -> Items \cup {NoItem}]
    BY SchedulerKept DEF Step, Base, TypeOK
  <1>2. confirmed /\ Lineages /\ Retires(c) /\ Begun /\ Wired
    BY DEF Ordered, Preparing, Reflowing
  <1>3. confirmed'
    <2>1. \A d \in Callers : BootstrapEnd(d) => confirmed'
      BY DEF BootstrapEnd
    <2>2. QED
      BY <1>1, <1>2, <2>1, RecordSteps
  <1>4. loop = c /\ co[c].item \in Items /\ co[c].item \in Created /\ status[co[c].item] = "running"
    BY OneReflow
  <1>5. ASSUME NEW d \in Callers \ {c}
        PROVE  /\ co[d].pc \in {"idle", "await"} /\ co'[d].pc \in {"idle", "await"}
               /\ Retires(d)'
    <2>1. co[d].pc \in {"idle", "await"} /\ co'[d] = co[d]
      BY <1>1, <1>4, WorkingItem, OneMoves
    <2>2. QED
      BY <2>1 DEF Retires, Reflowing
  <1>6. ASSUME NEW n \in Modules
        PROVE  terminal[n] \in Items /\ terminal[n].module = n /\ terminal[n].gen \in Nat
    <2>1. terminal[n] \in Items /\ terminal[n].module = n
      BY <1>2 DEF Begun, Created
    <2>2. MaxModuleReflows \in Nat
      BY EngineAssumption
    <2>3. QED
      BY <2>1, <2>2, ItemShape
  <1>7. QED
    BY <1>1, <1>2, <1>3, <1>4, <1>5, <1>6

\* The reflow of one module does not disturb the others.
LEMMA OthersRest ==
    ASSUME Base, Ordered, Next, NEW c \in Callers, co[c].pc \in Reflowing, Running(c), ~Canceled,
           NEW m \in Modules, m # co[c].item.module,
           terminal'[m] = terminal[m],
           \A i \in Created' : i.module = m => i \in Created,
           \A i \in Created : i.module = m /\ status'[i] = "skipped" => status[i] = "skipped",
           \A d \in dependsOn[Integration] : d.module = m => d \in dependsOn'[Integration]
    PROVE  Past(m)' /\ Present(m)' /\ Future(m)' /\ Awaited(m)'
  <1>1. confirmed /\ [Step]_vars /\ terminal[m].module = m
    BY ReflowContext
  <1>2. \A d \in Callers : co[d].pc \in Reflowing => co[d].item.module # m
    BY OneReflow
  <1>3. AtRest(m)
    BY <1>1, <1>2, Resting
  <1>4. AtRest(m)'
    BY <1>1, <1>3, RestKept
  <1>5. QED
    BY <1>4 DEF AtRest, Past, Present, Future, Awaited

\* A reflow begins only while the integration test waits, and with all that is left of the
\* chain.
LEMMA BeginReflowStep ==
    ASSUME Base, Ordered, Chained, Next, NEW c \in Callers, BeginReflow(c)
    PROVE  Lineages' /\ \A d \in Callers : Retires(d)'
  <1> DEFINE i == co[c].item
             m == i.module
             g == terminal[m].gen
  <1>0. co[c].pc = "reflow" /\ co[c].pc \in {"reflow"} \cup Reflowing /\ Running(c)
    BY DEF BeginReflow, At, Running
  <1>1. /\ TypeOK /\ Step /\ [Step]_vars /\ (Canceled => Canceled') /\ Created \subseteq Created'
        /\ confirmed /\ confirmed' /\ Lineages /\ Retires(c) /\ Begun /\ Wired
        /\ attempts \in [Modules -> Nat]
        /\ i \in Items /\ i \in Created /\ status[i] = "running"
        /\ \A n \in Modules : terminal[n] \in Items /\ terminal[n].module = n /\ terminal[n].gen \in Nat
        /\ \A d \in Callers \ {c} : co[d].pc \in {"idle", "await"} /\ Retires(d)'
    BY <1>0, ReflowContext
  <1>2. /\ UNCHANGED <<runStatus, runOf, status, dependsOn, terminal>>
        /\ attempts' = IF m = Global THEN attempts ELSE [attempts EXCEPT ![m] = @ + 1]
    BY DEF BeginReflow, schedulerVars
  <1>3. Created' = Created /\ (Canceled' <=> Canceled)
    BY <1>2 DEF Created, Canceled
  <1>4. \A d \in Callers : co[d].pc \notin Reflowing
    BY <1>0, OneReflow DEF Reflowing
  <1>5. ASSUME NEW n \in Modules, ~Canceled PROVE AtRest(n)
    BY <1>1, <1>4, <1>5, Resting
  <1>6. Lineages'
    <2> SUFFICES ASSUME NEW n \in Modules
                 PROVE  /\ Lineage(n)'
                        /\ ~Canceled' => Past(n)' /\ Present(n)' /\ Future(n)' /\ Awaited(n)'
      BY DEF Lineages
    <2>1. attempts'[n] \in Nat /\ attempts[n] <= attempts'[n]
      BY <1>1, <1>2
    <2>2. Lineage(n)'
      BY <1>1, <1>2, <2>1, LineageKept DEF Lineages
    <2>3. ~Canceled' => AtRest(n)'
      BY <1>1, <1>2, <1>3, <1>5, RestKept
    <2>4. QED
      BY <2>2, <2>3 DEF AtRest, Past, Present, Future, Awaited
  <1>7. Retires(c)'
    <2>1. CASE co'[c].pc = "fail"
      BY <2>1 DEF Retires, Reflowing
    <2>2. CASE co'[c].pc # "fail"
      <3>1. /\ co'[c].pc = "obsolete" /\ co'[c].item = i /\ co'[c].todo = Obsolete(i)
            /\ m # Global /\ ~GatePasses(i)
        BY <1>0, <1>1, <2>2, ReflowMoves DEF Retires
      <3>2. m \in Modules /\ Chain(m)
        BY <1>1, <3>1, ItemShape DEF Chained
      <3>3. ASSUME ~Canceled
            PROVE  /\ status[Integration] = "pending"
                   /\ i.gen = g /\ i.gen < attempts'[m]
                   /\ \A j \in Created : j.module = m /\ j.gen = i.gen =>
                        /\ j.pos < i.pos => status[j] \in Done
                        /\ j.pos > i.pos => j \in Obsolete(i)
        <4>1. AtRest(m) /\ Lineage(m) /\ Sched!DependenciesBeforeWork /\ GlobalsStand
          BY <1>1, <1>5, <3>2, <3>3 DEF Lineages, Ordered
        <4>2. status[Integration] = "pending"
          <5>1. ASSUME status[Integration] # "pending" PROVE FALSE
            <6>1. Integration \in Items /\ status[Integration] # "skipped"
              BY <3>3, <4>1, IntegrationItem DEF GlobalsStand, Pipeline
            <6>2. \A d \in dependsOn[Integration] : status[d] \in Done
              BY <4>1, <5>1, <6>1, ReleasedAfter
            <6>3. status[i] \in Done
              BY <1>1, <1>4, <3>2, <3>3, <6>2, ModulesDone
            <6>4. QED
              BY <1>1, <6>3 DEF Done
          <5>2. QED
            BY <5>1
        <4>3. i.gen \in Nat
          <5>1. MaxModuleReflows \in Nat
            BY EngineAssumption
          <5>2. QED
            BY <1>1, <5>1, ItemShape
        <4>4. i.gen = g
          <5>1. ~(i.gen > g) /\ ~(i.gen < g)
            BY <1>1, <4>1 DEF AtRest, Done
          <5>2. QED
            BY <1>1, <3>2, <4>3, <5>1
        <4>5. i.gen < attempts'[m]
          <5>1. attempts'[m] = attempts[m] + 1 /\ attempts[m] \in Nat
            BY <1>1, <1>2, <3>1, <3>2
          <5>2. g <= attempts[m]
            BY <4>1 DEF Lineage
          <5>3. QED
            BY <4>3, <4>4, <5>1, <5>2
        <4>6. \A j \in Created : j.module = m /\ j.gen = i.gen => status[j] # "skipped"
          BY <4>1, <4>4 DEF AtRest
        <4>7. \A k \in 1 .. i.pos : Item(m, i.gen, k) \in Created
          <5>1. CASE i.gen = 0
            <6>1. i.pos \in DOMAIN Package[m] /\ DOMAIN Package[m] = 1 .. Len(Package[m])
                  /\ Len(Package[m]) \in Nat
              BY <1>1, <3>1, <3>2, <5>1, ItemShape, PackageShape
            <6>2. ASSUME NEW k \in 1 .. i.pos PROVE Item(m, 0, k) \in Pipeline
              <7>1. k \in DOMAIN Package[m]
                BY <6>1
              <7>2. QED
                BY <3>2, <7>1, PackageItem DEF Pipeline, Item
            <6>3. QED
              BY <1>1, <5>1, <6>2 DEF Begun
          <5>2. CASE i.gen # 0
            <6>1. i.pos \in 1 .. 4
              BY <1>1, <3>1, <5>2, ItemShape
            <6>2. QED
              BY <4>1, <4>3, <4>4, <5>2, <6>1 DEF Lineage
          <5>3. QED
            BY <5>1, <5>2
        <4>8. ASSUME NEW j \in Created, j.module = m, j.gen = i.gen, j.pos < i.pos
              PROVE  status[j] \in Done
          BY <1>1, <3>2, <4>1, <4>6, <4>7, <4>8, EarlierDone
        <4>9. ASSUME NEW j \in Created, j.module = m, j.gen = i.gen, j.pos > i.pos
              PROVE  j \in Obsolete(i)
          BY <1>1, <3>2, <4>1, <4>6, <4>9, LaterObsolete
        <4>10. QED
          BY <4>2, <4>4, <4>5, <4>8, <4>9
      <3>4. QED
        BY <1>2, <1>3, <3>1, <3>3 DEF Retires
    <2>3. QED
      BY <2>1, <2>2
  <1>8. QED
    BY <1>1, <1>6, <1>7

\* What a reflow that is under way works on.
LEMMA ReflowFacts ==
    ASSUME Base, NEW c \in Callers, co[c].pc \in Reflowing
    PROVE  /\ co[c].item.module \in Modules /\ co[c].item.module # Global
           /\ attempts[co[c].item.module] \in 1 .. MaxModuleReflows
           /\ attempts[co[c].item.module] \in Nat
           /\ co[c].pc = "obsolete" =>
                \A j \in co[c].todo : /\ j \in Items /\ j \in Created /\ j # co[c].item
                                      /\ j.module = co[c].item.module
           /\ \A i \in Items : i.gen \in Nat /\ i.pos \in Nat
  <1>1. /\ co[c].item.module \in Modules
        /\ attempts[co[c].item.module] \in 1 .. MaxModuleReflows
        /\ co[c].pc = "obsolete" =>
              co[c].todo \subseteq {j \in Created : j.module = co[c].item.module /\ j # co[c].item}
    BY DEF Base, ReflowSound, Reflowing
  <1>2. ASSUME NEW i \in Items PROVE i.gen \in Nat /\ i.pos \in Nat
    <2>1. MaxModuleReflows \in Nat
      BY EngineAssumption
    <2>2. QED
      BY <2>1, ItemShape, PackageShape
  <1>3. co[c].item.module # Global /\ attempts[co[c].item.module] \in Nat
    <2>1. MaxModuleReflows \in Nat /\ Global \notin Modules
      BY EngineAssumption
    <2>2. QED
      BY <1>1, <2>1
  <1>4. QED
    BY <1>1, <1>2, <1>3 DEF Created

\* The items behind the failed one are skipped before anything else happens.
LEMMA SkipObsoleteStep ==
    ASSUME Base, Ordered, Next, NEW c \in Callers, SkipObsolete(c)
    PROVE  Lineages' /\ \A d \in Callers : Retires(d)'
  <1> DEFINE i == co[c].item
             m == i.module
             g == terminal[m].gen
  <1>0. co[c].pc = "obsolete" /\ co[c].pc \in {"reflow"} \cup Reflowing /\ co[c].pc \in Reflowing /\ Running(c)
    BY DEF SkipObsolete, At, Running, Reflowing
  <1>1. /\ TypeOK /\ Step /\ [Step]_vars /\ (Canceled => Canceled') /\ Created \subseteq Created'
        /\ confirmed /\ confirmed' /\ Lineages /\ Retires(c) /\ Begun /\ Wired
        /\ attempts \in [Modules -> Nat]
        /\ i \in Items /\ i \in Created /\ status[i] = "running"
        /\ \A n \in Modules : terminal[n] \in Items /\ terminal[n].module = n /\ terminal[n].gen \in Nat
        /\ \A d \in Callers \ {c} : co[d].pc \in {"idle", "await"} /\ Retires(d)'
    BY <1>0, ReflowContext
  <1>2. PICK j \in co[c].todo : Scheduler!SkipWorkItem(j) /\ co' = [co EXCEPT ![c].todo = @ \ {j}]
    BY DEF SkipObsolete
  <1>3. /\ co'[c].pc = "obsolete" /\ co'[c].item = i /\ co'[c].todo = co[c].todo \ {j}
        /\ co[c].pc = "obsolete"
    BY <1>0, <1>1, <1>2 DEF TypeOK, Coroutine
  <1>4. /\ j \in Items /\ j \in Created /\ j # i /\ j.module = m /\ m \in Modules /\ m # Global
        /\ \A k \in Items : k.gen \in Nat /\ k.pos \in Nat
    BY <1>0, <1>2, ReflowFacts
  <1>5. /\ UNCHANGED <<runOf, dependsOn, attempts, terminal, confirmed>>
        /\ status' = [status EXCEPT ![j] = "skipped"]
        /\ status \in [Items -> Scheduler!ItemStatus]
    BY <1>1, <1>2 DEF SkipObsolete, recordVars, Scheduler!SkipWorkItem, Scheduler!Move, Scheduler!itemVars,
       TypeOK, Scheduler!TypeOK
  <1>6. Created' = Created /\ \A k \in Created : k \in Items
    BY <1>5 DEF Created
  <1>7. \A d \in Callers : co[d].pc \notin {"rewire", "replace"}
    BY <1>1, <1>3
  <1>8. \A d \in Callers : co[d].pc \in {"obsolete", "terminal"} => d = c
    BY <1>1
  <1>9. ASSUME NEW n \in Modules, n = m, ~Canceled'
        PROVE  Past(n)' /\ Present(n)' /\ Future(n)' /\ Awaited(n)'
    <2> DEFINE h == terminal[n].gen
    <2>1. ~Canceled /\ Past(n) /\ Present(n) /\ Future(n) /\ Awaited(n)
      BY <1>1, <1>9 DEF Lineages
    <2>2. Past(n)'
      <3>1. \A k \in Created : k.module = n /\ k.gen < h => status[k] \in Done
        BY <1>7, <2>1 DEF Past
      <3>2. \A k \in Created : k.module = n /\ k.gen < h => status'[k] \in Done
        BY <1>5, <1>6, <3>1 DEF Done
      <3>3. QED
        BY <1>5, <1>6, <3>2 DEF Past
    <2>3. Present(n)'
      BY <1>3, <1>9 DEF Present
    <2>4. \A k \in Created : ~(k.module = n /\ k.gen > h)
      BY <1>2, <1>8, <2>1 DEF Future
    <2>5. Future(n)'
      BY <1>5, <1>6, <2>4 DEF Future
    <2>6. Awaited(n)'
      <3>1. terminal[n] \in dependsOn[Integration]
        BY <1>7, <2>1 DEF Awaited
      <3>2. QED
        BY <1>5, <2>1, <3>1 DEF Awaited, Item
    <2>7. QED
      BY <2>2, <2>3, <2>5, <2>6
  <1>10. Lineages'
    <2> SUFFICES ASSUME NEW n \in Modules
                 PROVE  /\ Lineage(n)'
                        /\ ~Canceled' => Past(n)' /\ Present(n)' /\ Future(n)' /\ Awaited(n)'
      BY DEF Lineages
    <2>1. Lineage(n)'
      BY <1>1, <1>5, LineageKept DEF Lineages
    <2>2. ASSUME ~Canceled', n # m PROVE Past(n)' /\ Present(n)' /\ Future(n)' /\ Awaited(n)'
      <3>1. ~Canceled
        BY <1>1, <2>2
      <3>2. \A k \in Created : k.module = n /\ status'[k] = "skipped" => status[k] = "skipped"
        BY <1>4, <1>5, <1>6, <2>2
      <3>3. QED
        BY <1>0, <1>5, <1>6, <2>2, <3>1, <3>2, OthersRest
    <2>3. QED
      BY <1>9, <2>1, <2>2
  <1>11. Retires(c)'
    <2>1. ~GatePasses(i)
      BY <1>1, <1>3 DEF Retires, Reflowing
    <2>2. ASSUME ~Canceled'
          PROVE  /\ status'[Integration] = "pending"
                 /\ i.gen = g /\ i.gen < attempts[m]
                 /\ \A k \in Created : k.module = m /\ k.gen = i.gen =>
                        /\ k.pos < i.pos => status'[k] \in Done
                        /\ k.pos > i.pos => status'[k] = "skipped" \/ k \in co'[c].todo
      <3>1. /\ status[Integration] = "pending"
            /\ i.gen = g /\ i.gen < attempts[m]
            /\ \A k \in Created : k.module = m /\ k.gen = i.gen =>
                        /\ k.pos < i.pos => status[k] \in Done
                        /\ k.pos > i.pos => status[k] = "skipped" \/ k \in co[c].todo
        BY <1>1, <1>3, <2>2 DEF Retires, Reflowing
      <3>2. j # Integration
        BY <1>4, IntegrationItem
      <3>3. status'[Integration] = "pending"
        BY <1>5, <3>1, <3>2
      <3>4. \A k \in Created : k.module = m /\ k.gen = i.gen =>
                        /\ k.pos < i.pos => status'[k] \in Done
                        /\ k.pos > i.pos => status'[k] = "skipped" \/ k \in co'[c].todo
        BY <1>3, <1>5, <1>6, <3>1 DEF Done
      <3>5. QED
        BY <3>1, <3>3, <3>4
    <2>3. QED
      BY <1>3, <1>5, <1>6, <2>1, <2>2 DEF Retires
  <1>12. QED
    BY <1>1, <1>10, <1>11

\* The new chain grows behind everything there is of the module.
LEMMA GrowStep ==
    ASSUME Base, Ordered, Next, NEW c \in Callers, Grow(c)
    PROVE  Lineages' /\ \A d \in Callers : Retires(d)'
  <1> DEFINE i == co[c].item
             m == i.module
             a == attempts[m]
  <1>0. co[c].pc = "obsolete" /\ co[c].pc \in {"reflow"} \cup Reflowing /\ co[c].pc \in Reflowing /\ Running(c)
        /\ co[c].todo = {}
    BY DEF Grow, At, Running, Reflowing
  <1>1. /\ TypeOK /\ Step /\ [Step]_vars /\ (Canceled => Canceled') /\ Created \subseteq Created'
        /\ confirmed /\ confirmed' /\ Lineages /\ Retires(c) /\ Begun /\ Wired
        /\ attempts \in [Modules -> Nat]
        /\ i \in Items /\ i \in Created /\ status[i] = "running"
        /\ \A n \in Modules : terminal[n] \in Items /\ terminal[n].module = n /\ terminal[n].gen \in Nat
        /\ \A d \in Callers \ {c} : co[d].pc \in {"idle", "await"} /\ Retires(d)'
    BY <1>0, ReflowContext
  <1>2. PICK k \in DOMAIN ModuleStages :
            /\ \A j \in 1 .. (k - 1) : Item(m, a, j) \in Created
            /\ Scheduler!AddWorkItem(Item(m, a, k), Run,
                    IF k = 1 THEN dependsOn[i] ELSE {Item(m, a, k - 1)}, FALSE)
            /\ GoTo(c, IF k = Len(ModuleStages) THEN "terminal" ELSE "obsolete")
    BY DEF Grow
  <1>3. k \in 1 .. 4 /\ Len(ModuleStages) = 4
    BY DEF ModuleStages
  <1>4. /\ co'[c].pc = (IF k = 4 THEN "terminal" ELSE "obsolete")
        /\ co'[c].item = i /\ co'[c].todo = {}
    BY <1>0, <1>1, <1>2, <1>3, Moves
  <1>5. /\ m \in Modules /\ m # Global /\ a \in 1 .. MaxModuleReflows /\ a \in Nat
        /\ \A j \in Items : j.gen \in Nat /\ j.pos \in Nat
    BY <1>0, ReflowFacts
  <1> DEFINE x == Item(m, a, k)
  <1>6. x \in Items /\ x.module = m /\ x.gen = a
    BY <1>3, <1>5, PackageItem DEF Item
  <1>7. /\ UNCHANGED <<status, runStatus, attempts, terminal, confirmed>>
        /\ \A j \in Items \ {x} : dependsOn'[j] = dependsOn[j]
        /\ Created' = Created \cup {x} /\ status[x] = "pending"
    <2>1. runOf' = [runOf EXCEPT ![x] = Run] /\ runOf[x] = NoRun
          /\ UNCHANGED <<status, runStatus, attempts, terminal, confirmed>>
          /\ \E ds : dependsOn' = [dependsOn EXCEPT ![x] = ds]
      BY <1>2 DEF Grow, recordVars, Scheduler!AddWorkItem
    <2>2. runOf \in [Items -> {Run, NoRun}] /\ dependsOn \in [Items -> SUBSET Items]
      BY <1>1, CreatedAgain DEF TypeOK, Scheduler!TypeOK
    <2>3. x \notin Created
      BY <2>1, EngineAssumption DEF Created
    <2>4. status[x] = "pending"
      BY <1>6, <2>3, CreatedAgain
    <2>5. Created' = Created \cup {x}
      BY <1>6, <2>1, <2>2 DEF Created
    <2> HIDE DEF x
    <2>6. \A j \in Items \ {x} : dependsOn'[j] = dependsOn[j]
      BY <2>1, <2>2
    <2>7. QED
      BY <2>1, <2>4, <2>5, <2>6
  <1>8. \A d \in Callers : co[d].pc \in {"obsolete", "terminal", "rewire", "replace"} => d = c
    BY <1>1
  <1>9. Integration \in Items /\ Integration # x
    BY <1>5, <1>6, IntegrationItem DEF Pipeline
  <1>10. Canceled' = Canceled
    BY <1>7 DEF Canceled
  <1>11. ~Canceled => /\ i.gen = terminal[m].gen /\ i.gen < a
    BY <1>0, <1>1 DEF Retires
  <1>12. \A j \in Created : j \in Items
    BY DEF Created
  <1> HIDE DEF x
  <1>13. ASSUME NEW n \in Modules, n = m, ~Canceled
         PROVE  Past(n)' /\ Present(n)' /\ Future(n)' /\ Awaited(n)'
    <2>1. /\ Past(n) /\ Present(n) /\ Future(n) /\ Awaited(n)
          /\ terminal[n].gen < x.gen /\ terminal[n].gen \in Nat /\ x.gen \in Nat /\ x.gen = attempts[n]
      BY <1>1, <1>5, <1>6, <1>11, <1>13 DEF Lineages
    <2>2. Past(n)'
      <3>1. \A j \in Created : j.module = n /\ j.gen < terminal[n].gen => status[j] \in Done
        BY <1>0, <1>8, <2>1 DEF Past
      <3>2. ~(x.gen < terminal[n].gen)
        BY <2>1
      <3>3. QED
        BY <1>7, <3>1, <3>2 DEF Past
    <2>3. Present(n)'
      BY <1>4, <1>13 DEF Present
    <2>4. \A j \in Created' : j.module = n /\ j.gen > terminal[n].gen => j.gen = attempts[n] /\ status[j] = "pending"
      BY <1>7, <2>1 DEF Future
    <2>5. Future(n)'
      <3>1. /\ co'[c].pc \in {"obsolete", "terminal"} /\ co'[c].item.module = n /\ co'[c].todo = {}
        BY <1>4, <1>13
      <3>2. QED
        BY <1>7, <2>4, <3>1 DEF Future
    <2>6. Awaited(n)'
      <3>1. terminal[n] \in dependsOn[Integration]
        BY <1>0, <1>8, <2>1 DEF Awaited
      <3>2. QED
        BY <1>7, <1>9, <2>1, <3>1 DEF Awaited, Item
    <2>7. QED
      BY <2>2, <2>3, <2>5, <2>6
  <1>14. Lineages'
    <2> SUFFICES ASSUME NEW n \in Modules
                 PROVE  /\ Lineage(n)'
                        /\ ~Canceled => Past(n)' /\ Present(n)' /\ Future(n)' /\ Awaited(n)'
      BY <1>10 DEF Lineages
    <2>1. Lineage(n)'
      BY <1>1, <1>7, LineageKept DEF Lineages
    <2>2. ASSUME ~Canceled, n # m PROVE Past(n)' /\ Present(n)' /\ Future(n)' /\ Awaited(n)'
      <3>1. \A j \in Created' : j.module = n => j \in Created
        BY <1>6, <1>7, <2>2
      <3>2. \A j \in dependsOn[Integration] : j.module = n => j \in dependsOn'[Integration]
        BY <1>7, <1>9
      <3>3. QED
        BY <1>0, <1>7, <2>2, <3>1, <3>2, OthersRest
    <2>3. QED
      BY <1>13, <2>1, <2>2
  <1>15. Retires(c)'
    <2>1. ~GatePasses(i)
      BY <1>0, <1>1 DEF Retires, Reflowing
    <2>2. ASSUME ~Canceled
          PROVE  /\ status[Integration] = "pending"
                 /\ i.gen = terminal[m].gen /\ i.gen < a
                 /\ \A j \in Created' : j.module = m /\ j.gen = i.gen =>
                        /\ j.pos < i.pos => status[j] \in Done
                        /\ j.pos > i.pos => status[j] = "skipped"
      <3>1. /\ status[Integration] = "pending"
            /\ i.gen = terminal[m].gen /\ i.gen < a
            /\ \A j \in Created : j.module = m /\ j.gen = i.gen =>
                        /\ j.pos < i.pos => status[j] \in Done
                        /\ j.pos > i.pos => status[j] = "skipped"
        BY <1>0, <1>1, <2>2 DEF Retires, Reflowing
      <3>2. x.gen # i.gen
        BY <1>1, <1>5, <1>6, <3>1
      <3>3. QED
        BY <1>7, <3>1, <3>2
    <2>3. k = 4 => \A l \in 1 .. 4 : Item(m, a, l) \in Created'
      BY <1>2, <1>7 DEF x
    <2>4. QED
      BY <1>4, <1>7, <1>10, <2>1, <2>2, <2>3 DEF Retires
  <1>16. QED
    BY <1>1, <1>14, <1>15

\* The new chain takes the place of the old one, of which nothing is left but the failed item.
LEMMA SetTerminalStep ==
    ASSUME Base, Ordered, Next, NEW c \in Callers, SetTerminal(c)
    PROVE  Lineages' /\ \A d \in Callers : Retires(d)'
  <1> DEFINE i == co[c].item
             m == i.module
             a == attempts[m]
  <1>0. co[c].pc = "terminal" /\ co[c].pc \in {"reflow"} \cup Reflowing /\ co[c].pc \in Reflowing /\ Running(c)
    BY DEF SetTerminal, At, Running, Reflowing
  <1>1. /\ TypeOK /\ Step /\ [Step]_vars /\ (Canceled => Canceled') /\ Created \subseteq Created'
        /\ confirmed /\ confirmed' /\ Lineages /\ Retires(c) /\ Begun /\ Wired
        /\ attempts \in [Modules -> Nat] /\ terminal \in [Modules -> Items \cup {NoItem}]
        /\ i \in Items /\ i \in Created /\ status[i] = "running"
        /\ \A n \in Modules : terminal[n] \in Items /\ terminal[n].module = n /\ terminal[n].gen \in Nat
        /\ \A d \in Callers \ {c} : co[d].pc \in {"idle", "await"} /\ Retires(d)'
    BY <1>0, ReflowContext
  <1>2. /\ co'[c].pc = "rewire" /\ co'[c].item = i /\ co'[c].old = terminal[m]
        /\ co'[c].todo = {j \in IntegrationItems : terminal[m] \in dependsOn[j]}
    BY <1>1, ReflowMoves
  <1>3. /\ m \in Modules /\ m # Global /\ a \in 1 .. MaxModuleReflows /\ a \in Nat
        /\ \A j \in Items : j.gen \in Nat /\ j.pos \in Nat
    BY <1>0, ReflowFacts
  <1>4. /\ UNCHANGED <<runStatus, runOf, status, dependsOn, attempts, confirmed>>
        /\ terminal' = [terminal EXCEPT ![m] = Item(m, a, 4)]
    BY DEF SetTerminal, schedulerVars, ModuleStages
  <1>5. /\ Created' = Created /\ (\A j \in Created : j \in Items) /\ Canceled' = Canceled
        /\ terminal'[m] = Item(m, a, 4) /\ Item(m, a, 4).gen = a
        /\ \A n \in Modules : n # m => terminal'[n] = terminal[n]
    BY <1>1, <1>3, <1>4 DEF Created, Canceled, Item
  <1>6. \A k \in 1 .. 4 : Item(m, a, k) \in Created
    BY <1>0, <1>1 DEF Retires
  <1>7. \A d \in Callers : co[d].pc \notin {"rewire", "replace"}
    BY <1>0, <1>1
  <1>8. ~Canceled =>
            /\ status[Integration] = "pending" /\ i.gen = terminal[m].gen /\ i.gen < a
            /\ \A j \in Created : j.module = m /\ j.gen = i.gen =>
                    /\ j.pos < i.pos => status[j] \in Done
                    /\ j.pos > i.pos => status[j] = "skipped"
    BY <1>0, <1>1 DEF Retires, Reflowing
  <1>9. Integration \in Created /\ IntegrationItems \subseteq {Integration} /\ Integration \in IntegrationItems
    BY <1>1, IntegrationItem DEF Begun, IntegrationItems, Created
  <1>10. ASSUME NEW n \in Modules, n = m, ~Canceled
         PROVE  Past(n)' /\ Present(n)' /\ Future(n)' /\ Awaited(n)'
    <2>1. /\ Past(n) /\ Future(n) /\ Awaited(n)
          /\ terminal[n].gen = i.gen /\ terminal[n].gen \in Nat /\ i.gen < a /\ i.gen \in Nat
          /\ terminal'[n].gen = a
      BY <1>1, <1>3, <1>5, <1>8, <1>10 DEF Lineages
    <2>2. ASSUME NEW j \in Created, j.module = n
          PROVE  /\ j.gen < a => status[j] \in Done \/ j = i
                 /\ j.gen >= a => j.gen = a /\ status[j] = "pending"
                 /\ j.gen \in Nat
      <3>1. j \in Items /\ j.gen \in Nat /\ j.pos \in Nat /\ i.pos \in Nat
        BY <1>1, <1>3, <1>5
      <3>2. j.gen > i.gen => j.gen = a /\ status[j] = "pending"
        BY <1>10, <2>1, <2>2 DEF Future
      <3>3. j.gen < i.gen => status[j] \in Done
        BY <1>7, <2>1, <2>2 DEF Past
      <3>4. j.gen = i.gen /\ j.pos = i.pos => j = i
        BY <1>1, <1>10, <2>2, <3>1, ItemShape
      <3>5. j.gen = i.gen => status[j] \in Done \/ j = i
        BY <1>8, <1>10, <2>2, <3>1, <3>4 DEF Done
      <3>6. QED
        BY <1>3, <2>1, <3>1, <3>2, <3>3, <3>5
    <2>3. Past(n)'
      <3>1. co'[c].pc \in {"rewire", "replace"} /\ co'[c].item = i
        BY <1>2
      <3>2. QED
        BY <1>4, <1>5, <2>1, <2>2, <3>1 DEF Past
    <2>4. Present(n)'
      BY <1>3, <1>4, <1>5, <2>1, <2>2 DEF Present
    <2>5. Future(n)'
      BY <1>3, <1>4, <1>5, <2>1, <2>2 DEF Future
    <2>6. Awaited(n)'
      <3>1. terminal[n] \in dependsOn[Integration]
        BY <1>7, <2>1 DEF Awaited
      <3>2. co'[c].pc = "rewire" /\ co'[c].item.module = n /\ Integration \in co'[c].todo
        BY <1>2, <1>9, <1>10, <3>1
      <3>3. terminal'[n].gen # 0
        BY <1>3, <2>1
      <3>4. QED
        BY <3>2, <3>3 DEF Awaited
    <2>7. QED
      BY <2>3, <2>4, <2>5, <2>6
  <1>11. Lineages'
    <2> SUFFICES ASSUME NEW n \in Modules
                 PROVE  /\ Lineage(n)'
                        /\ ~Canceled => Past(n)' /\ Present(n)' /\ Future(n)' /\ Awaited(n)'
      BY <1>5 DEF Lineages
    <2>1. ASSUME n # m PROVE Lineage(n)'
      BY <1>1, <1>4, <1>5, <2>1, LineageKept DEF Lineages
    <2>2. ASSUME n = m PROVE Lineage(n)'
      BY <1>3, <1>4, <1>5, <1>6, <2>2 DEF Lineage
    <2>3. ASSUME ~Canceled, n # m PROVE Past(n)' /\ Present(n)' /\ Future(n)' /\ Awaited(n)'
      BY <1>0, <1>4, <1>5, <2>3, OthersRest
    <2>4. QED
      BY <1>10, <2>1, <2>2, <2>3
  <1>12. Retires(c)'
    <2>1. ~GatePasses(i)
      BY <1>0, <1>1 DEF Retires, Reflowing
    <2>2. co'[c].old.module = m /\ co'[c].todo \subseteq {Integration}
      BY <1>1, <1>2, <1>3, <1>9
    <2>3. QED
      BY <1>2, <1>4, <1>5, <1>8, <2>1, <2>2 DEF Retires
  <1>13. QED
    BY <1>1, <1>11, <1>12

\* The integration test is told of the new end of the module, and forgets only the old one.
LEMMA RewireStep ==
    ASSUME Base, Ordered, Next, NEW c \in Callers, Rewire(c)
    PROVE  Lineages' /\ \A d \in Callers : Retires(d)'
  <1> DEFINE i == co[c].item
             m == i.module
             ds == dependsOn[Integration]
  <1>0. co[c].pc = "rewire" /\ co[c].pc \in {"reflow"} \cup Reflowing /\ co[c].pc \in Reflowing /\ Running(c)
    BY DEF Rewire, At, Running, Reflowing
  <1>1. /\ TypeOK /\ Step /\ [Step]_vars /\ (Canceled => Canceled') /\ Created \subseteq Created'
        /\ confirmed /\ confirmed' /\ Lineages /\ Retires(c) /\ Begun /\ Wired
        /\ attempts \in [Modules -> Nat]
        /\ i \in Items /\ i \in Created /\ status[i] = "running"
        /\ \A n \in Modules : terminal[n] \in Items /\ terminal[n].module = n /\ terminal[n].gen \in Nat
        /\ \A d \in Callers \ {c} : co[d].pc \in {"idle", "await"} /\ Retires(d)'
    BY <1>0, ReflowContext
  <1>2. m \in Modules /\ m # Global /\ \A j \in Items : j.gen \in Nat /\ j.pos \in Nat
    BY <1>0, ReflowFacts
  <1>3. co'[c].pc \in {"rewire", "replace"} /\ co'[c].item = i
    BY <1>1, ReflowMoves
  <1>4. /\ ~GatePasses(i) /\ co[c].old.module = m /\ co[c].todo \subseteq {Integration}
        /\ ~Canceled => status[Integration] = "pending" /\ i.gen < terminal[m].gen
    BY <1>0, <1>1 DEF Retires, Reflowing
  <1>5. /\ UNCHANGED <<runOf, status, attempts, terminal, confirmed>>
        /\ \/ /\ co[c].todo = {} /\ co'[c].pc = "replace" /\ UNCHANGED dependsOn
           \/ /\ co[c].todo = {Integration} /\ co'[c].pc = "rewire" /\ co'[c].todo = {}
              /\ co'[c].old = co[c].old
              /\ dependsOn'[Integration] = (ds \ {co[c].old}) \cup {terminal[m]}
    <2>1. CASE co[c].todo = {}
      BY <1>1, <2>1, Moves DEF Rewire, schedulerVars, recordVars
    <2>2. CASE co[c].todo # {}
      <3>1. co[c].todo = {Integration} /\ (CHOOSE j \in co[c].todo : TRUE) = Integration
        BY <1>4, <2>2
      <3>2. /\ Scheduler!UpdateWorkItemDependencies(Integration, (ds \ {co[c].old}) \cup {terminal[m]})
            /\ co' = [co EXCEPT ![c].todo = @ \ {Integration}]
            /\ UNCHANGED recordVars
        BY <2>2, <3>1 DEF Rewire
      <3>3. co'[c].pc = "rewire" /\ co'[c].todo = {} /\ co'[c].old = co[c].old
        BY <1>0, <1>1, <3>1, <3>2 DEF TypeOK, Coroutine
      <3>4. Integration \in Items /\ dependsOn \in [Items -> SUBSET Items]
        BY <1>1, IntegrationItem DEF Pipeline, TypeOK, Scheduler!TypeOK
      <3> HIDE DEF Integration
      <3>5. QED
        BY <3>1, <3>2, <3>3, <3>4 DEF recordVars, Scheduler!UpdateWorkItemDependencies
    <2>3. QED
      BY <2>1, <2>2
  <1>6. Created' = Created /\ \A j \in Created : j \in Items
    BY <1>5 DEF Created
  <1>7. \A d \in Callers : co[d].pc \in {"obsolete", "terminal", "rewire", "replace"} => d = c
    BY <1>1
  <1>8. ASSUME NEW n \in Modules, n = m, ~Canceled
        PROVE  Past(n)' /\ Present(n)' /\ Future(n)' /\ Awaited(n)'
    <2>1. /\ Past(n) /\ Present(n) /\ Future(n) /\ Awaited(n)
          /\ terminal[n].gen # 0
      BY <1>1, <1>2, <1>4, <1>8 DEF Lineages
    <2>2. Past(n)'
      <3>1. \A j \in Created : j.module = n /\ j.gen < terminal[n].gen => status[j] \in Done \/ j = i
        BY <1>7, <2>1 DEF Past
      <3>2. QED
        BY <1>3, <1>5, <1>6, <3>1 DEF Past
    <2>3. Present(n)' /\ Future(n)'
      <3>1. \A j \in Created : j.module = n => ~(j.gen > terminal[n].gen)
                               /\ (j.gen = terminal[n].gen => status[j] # "skipped")
        BY <1>0, <1>7, <2>1 DEF Present, Future
      <3>2. QED
        BY <1>5, <1>6, <3>1 DEF Present, Future
    <2>4. Awaited(n)'
      <3>1. co[c].todo = {} => terminal[n] \in ds
        BY <1>7, <2>1 DEF Awaited
      <3>2. terminal'[n] \in dependsOn'[Integration]
        BY <1>5, <1>8, <3>1
      <3>3. QED
        BY <1>5, <2>1, <3>2 DEF Awaited
    <2>5. QED
      BY <2>2, <2>3, <2>4
  <1>9. Lineages'
    <2> SUFFICES ASSUME NEW n \in Modules
                 PROVE  /\ Lineage(n)'
                        /\ ~Canceled' => Past(n)' /\ Present(n)' /\ Future(n)' /\ Awaited(n)'
      BY DEF Lineages
    <2>1. Lineage(n)'
      BY <1>1, <1>5, LineageKept DEF Lineages
    <2>2. ASSUME ~Canceled, n # m PROVE Past(n)' /\ Present(n)' /\ Future(n)' /\ Awaited(n)'
      <3>1. \A d \in ds : d.module = n => d \in dependsOn'[Integration]
        BY <1>4, <1>5, <2>2
      <3>2. QED
        BY <1>0, <1>5, <1>6, <2>2, <3>1, OthersRest
    <2>3. QED
      BY <1>1, <1>8, <2>1, <2>2
  <1>10. Retires(c)'
    <2>1. ~Canceled' => ~Canceled
      BY <1>1
    <2>2. co'[c].pc = "rewire" => co'[c].old.module = m /\ co'[c].todo \subseteq {Integration}
      BY <1>4, <1>5
    <2>3. QED
      BY <1>3, <1>4, <1>5, <2>1, <2>2 DEF Retires
  <1>11. QED
    BY <1>1, <1>9, <1>10

\* The failed item is skipped last, when another chain stands for it.
LEMMA ReplaceStep ==
    ASSUME Base, Ordered, Next, NEW c \in Callers, Replace(c)
    PROVE  Lineages' /\ \A d \in Callers : Retires(d)'
  <1> DEFINE i == co[c].item
             m == i.module
  <1>0. co[c].pc = "replace" /\ co[c].pc \in {"reflow"} \cup Reflowing /\ co[c].pc \in Reflowing /\ Running(c)
    BY DEF Replace, At, Running, Reflowing
  <1>1. /\ TypeOK /\ Step /\ [Step]_vars /\ (Canceled => Canceled') /\ Created \subseteq Created'
        /\ confirmed /\ confirmed' /\ Lineages /\ Retires(c) /\ Begun /\ Wired
        /\ attempts \in [Modules -> Nat]
        /\ i \in Items /\ i \in Created /\ status[i] = "running"
        /\ \A n \in Modules : terminal[n] \in Items /\ terminal[n].module = n /\ terminal[n].gen \in Nat
        /\ \A d \in Callers \ {c} : co[d].pc \in {"idle", "await"} /\ Retires(d)'
    BY <1>0, ReflowContext
  <1>2. m \in Modules /\ m # Global /\ \A j \in Items : j.gen \in Nat /\ j.pos \in Nat
    BY <1>0, ReflowFacts
  <1>3. co'[c].pc = "next"
    BY <1>1, Moves DEF Replace
  <1>4. ~Canceled => i.gen < terminal[m].gen
    BY <1>0, <1>1 DEF Retires
  <1>5. /\ UNCHANGED <<runOf, dependsOn, attempts, terminal, confirmed>>
        /\ status' = [status EXCEPT ![i] = "skipped"]
        /\ status \in [Items -> Scheduler!ItemStatus]
    BY <1>1 DEF Replace, recordVars, Scheduler!SkipWorkItem, Scheduler!Move, Scheduler!itemVars,
       TypeOK, Scheduler!TypeOK
  <1>6. Created' = Created /\ \A j \in Created : j \in Items
    BY <1>5 DEF Created
  <1>7. \A d \in Callers : co[d].pc \in {"obsolete", "terminal", "rewire", "replace"} => d = c
    BY <1>1
  <1>8. ASSUME NEW n \in Modules, n = m, ~Canceled
        PROVE  Past(n)' /\ Present(n)' /\ Future(n)' /\ Awaited(n)'
    <2>1. /\ Past(n) /\ Present(n) /\ Future(n) /\ Awaited(n)
          /\ i.gen < terminal[n].gen /\ i.gen \in Nat /\ terminal[n].gen \in Nat
      BY <1>1, <1>2, <1>4, <1>8 DEF Lineages
    <2>2. Past(n)'
      <3>1. \A j \in Created : j.module = n /\ j.gen < terminal[n].gen => status[j] \in Done \/ j = i
        BY <1>7, <2>1 DEF Past
      <3>2. \A j \in Created : j.module = n /\ j.gen < terminal[n].gen => status'[j] \in Done
        BY <1>5, <1>6, <3>1 DEF Done
      <3>3. QED
        BY <1>5, <1>6, <3>2 DEF Past
    <2>3. Present(n)' /\ Future(n)'
      <3>1. \A j \in Created : j.module = n => ~(j.gen > terminal[n].gen)
                               /\ (j.gen = terminal[n].gen => status[j] # "skipped")
        BY <1>0, <1>7, <2>1 DEF Present, Future
      <3>2. \A j \in Created : j.module = n /\ j.gen = terminal[n].gen => status'[j] # "skipped"
        BY <1>5, <1>6, <2>1, <3>1
      <3>3. QED
        BY <1>5, <1>6, <3>1, <3>2 DEF Present, Future
    <2>4. Awaited(n)'
      <3>1. terminal[n] \in dependsOn[Integration]
        BY <1>0, <1>7, <2>1 DEF Awaited
      <3>2. QED
        BY <1>5, <2>1, <3>1 DEF Awaited, Item
    <2>5. QED
      BY <2>2, <2>3, <2>4
  <1>9. Lineages'
    <2> SUFFICES ASSUME NEW n \in Modules
                 PROVE  /\ Lineage(n)'
                        /\ ~Canceled' => Past(n)' /\ Present(n)' /\ Future(n)' /\ Awaited(n)'
      BY DEF Lineages
    <2>1. Lineage(n)'
      BY <1>1, <1>5, LineageKept DEF Lineages
    <2>2. ASSUME ~Canceled, n # m PROVE Past(n)' /\ Present(n)' /\ Future(n)' /\ Awaited(n)'
      <3>1. \A j \in Created : j.module = n /\ status'[j] = "skipped" => status[j] = "skipped"
        BY <1>5, <1>6, <2>2
      <3>2. QED
        BY <1>0, <1>5, <1>6, <2>2, <3>1, OthersRest
    <2>3. QED
      BY <1>1, <1>8, <2>1, <2>2
  <1>10. Retires(c)'
    BY <1>3 DEF Retires, Reflowing
  <1>11. QED
    BY <1>1, <1>9, <1>10

\* An item that is rewired is the integration test, which still waits: the engine keeps
\* to what the scheduler's specification allows.
LEMMA StepRefines ==
    ASSUME Base, Ordered, [Next]_vars
    PROVE  [Scheduler!Next]_(Scheduler!vars)
  <1>1. CASE UNCHANGED vars
    BY <1>1 DEF vars, schedulerVars, Scheduler!vars, Scheduler!itemVars, Scheduler!talkVars
  <1>2. CASE Next
    <2>1. TypeOK /\ ReflowSound /\ Step
      BY <1>2 DEF Base, Step
    <2>2. ASSUME NEW c \in Callers, Rewire(c), ~Canceled, NEW i \in co[c].todo, NEW ds \in SUBSET Items,
                 i \in Items, Scheduler!UpdateWorkItemDependencies(i, ds)
          PROVE  Scheduler!Next
      <3>1. co[c].pc = "rewire" /\ Retires(c)
        BY <2>2 DEF Rewire, At, Ordered
      <3>2. i = Integration /\ status[Integration] = "pending"
        BY <2>2, <3>1 DEF Retires, Reflowing
      <3>3. QED
        BY <2>2, <3>2 DEF Scheduler!Next
    <2>3. QED
      BY <2>1, <2>2, EngineCalls
  <1>3. QED
    BY <1>1, <1>2

\* The invariant behind IntegrationAfterModules holds at the start.
LEMMA InitOrdered == Init => Ordered
  <1> SUFFICES ASSUME Init PROVE Ordered
    OBVIOUS
  <1>1. /\ ~confirmed /\ Created = {} /\ \A i \in Items : status[i] = "pending"
        /\ \A c \in Callers : co[c].pc = "idle"
    BY EngineAssumption DEF Init, Created, Idle
  <1>2. Preparing /\ Begun /\ Replacing /\ GlobalsStand /\ Wired /\ Lineages
    BY <1>1, IntegrationItem DEF Preparing, Begun, Replacing, GlobalsStand, Wired, Lineages
  <1>3. \A c \in Callers : Retires(c)
    BY <1>1 DEF Retires, Reflowing
  <1>4. Sched!DependenciesBeforeWork
    BY <1>1 DEF Sched!DependenciesBeforeWork
  <1>5. QED
    BY <1>2, <1>3, <1>4 DEF Ordered

\* Every step of a life of the process keeps the invariant behind IntegrationAfterModules.
LEMMA StepOrdered ==
    ASSUME Base, Ordered, Chained, [Next]_vars
    PROVE  Ordered'
  <1>1. Sched!DependenciesBeforeWork'
    <2>1. Sched!TypeOK /\ Sched!RunsAreIsolated /\ Sched!DependenciesBeforeWork
      BY SameTypeOK DEF Base, TypeOK, Ordered
    <2>2. UNCHANGED Scheduler!vars => UNCHANGED Sched!vars
      BY DEF Scheduler!vars, Sched!vars, Scheduler!itemVars, Sched!itemVars, Scheduler!talkVars,
         Sched!talkVars
    <2>3. [Sched!Next]_(Sched!vars)
      BY <2>2, StepRefines, SameNext
    <2>4. QED
      BY <2>1, <2>3, SchedulerMeets, Sched!NextOrder
  <1>2. CASE Next
    <2>1. Step
      BY <1>2 DEF Step
    <2>2. Preparing' /\ Begun' /\ Replacing' /\ GlobalsStand' /\ Wired'
      BY <1>2, <2>1, StepPreparing, StepBegun, StepReplacing, StepGlobals, StepWired DEF Ordered
    <2>3. Lineages' /\ \A c \in Callers : Retires(c)'
      BY <1>2, OrdinaryStep, BootstrapStep, BeginReflowStep, SkipObsoleteStep, GrowStep, SetTerminalStep,
         RewireStep, ReplaceStep
    <2>4. QED
      BY <1>1, <2>2, <2>3 DEF Ordered
  <1>3. CASE UNCHANGED vars
    <2>1. UNCHANGED <<runStatus, runOf, status, dependsOn, confirmed, attempts, terminal, loop, co>>
      BY <1>3 DEF vars, schedulerVars, recordVars
    <2>2. Created' = Created /\ Canceled' = Canceled
      BY <2>1 DEF Created, Canceled
    <2>3. Preparing' /\ Begun' /\ Replacing' /\ GlobalsStand' /\ Wired'
      BY <2>1, <2>2 DEF Ordered, Preparing, Begun, Replacing, GlobalsStand, Wired, StartsAfter
    <2>4. Lineages'
      <3>1. ASSUME NEW m \in Modules, Lineage(m) PROVE Lineage(m)'
        BY <2>1, <2>2, <3>1 DEF Lineage
      <3>2. ASSUME NEW m \in Modules, Past(m) /\ Present(m) /\ Future(m) /\ Awaited(m)
            PROVE  Past(m)' /\ Present(m)' /\ Future(m)' /\ Awaited(m)'
        BY <2>1, <2>2, <3>2 DEF Past, Present, Future, Awaited
      <3>3. QED
        BY <2>1, <2>2, <3>1, <3>2 DEF Ordered, Lineages
    <2>5. \A c \in Callers : Retires(c)'
      BY <2>1, <2>2 DEF Ordered, Retires
    <2>6. QED
      BY <1>1, <2>3, <2>4, <2>5 DEF Ordered
  <1>4. QED
    BY <1>2, <1>3

\* What IntegrationAfterModules needs holds of every state of a process that lives.
LEMMA OrderedAlways == ASSUME Chained PROVE Spec => [](Base /\ Ordered)
  <1>1. Init => Base /\ Ordered
    BY InitBase, InitOrdered
  <1>2. Base /\ Ordered /\ [Next]_vars => (Base /\ Ordered)'
    <2>1. [Next]_vars => [Step]_vars
      BY DEF Step
    <2>2. QED
      BY <2>1, StepBase, StepOrdered
  <1>3. QED
    BY <1>1, <1>2, PTL DEF Spec

\* The integration test is released only when every module is done and has an end that
\* succeeded, however often its modules have been reflowed.
THEOREM IntegrationOrder ==
    ASSUME Chained
    PROVE  Spec => []IntegrationAfterModules
  <1>1. ASSUME Base, Ordered PROVE IntegrationAfterModules
    <2> SUFFICES ASSUME loop = NoCaller, ~Canceled, NEW i \in IntegrationItems, status[i] # "pending",
                        NEW m \in Modules
                 PROVE  Settled(m) /\ status[terminal[m]] = "succeeded"
      BY DEF IntegrationAfterModules
    <2>1. i = Integration /\ i \in Items /\ i.module = Global
      BY IntegrationItem DEF IntegrationItems, Created
    <2>2. confirmed
      BY <1>1, <2>1 DEF Ordered, Preparing
    <2>3. \A c \in Callers : co[c].pc \notin Reflowing
      BY <1>1, WorkingItem, EngineAssumption DEF Reflowing
    <2>4. status[i] # "skipped"
      BY <1>1, <2>1 DEF Ordered, GlobalsStand
    <2>5. \A d \in dependsOn[Integration] : status[d] \in Done
      BY <1>1, <2>1, <2>4, ReleasedAfter DEF Ordered
    <2>6. QED
      BY <1>1, <2>2, <2>3, <2>5, ModulesDone DEF Settled, Done
  <1>2. QED
    BY <1>1, OrderedAlways, PTL

\* The engine, its clients and its reflows use the scheduler as WorkflowScheduler specifies
\* it: in particular what it rewires has not been released.
THEOREM EngineRefinement ==
    ASSUME Chained
    PROVE  Spec => ImplementsScheduler
  <1>1. Init => Scheduler!Init
    BY DEF Init, Scheduler!Init
  <1>2. QED
    BY <1>1, StepRefines, OrderedAlways, PTL DEF Spec, ImplementsScheduler, Scheduler!Spec

-----------------------------------------------------------------------------
(* A call that returns leaves a run that is blocked or worked on           *)

\* The order in which the items of a run come: global stages after those of the modules, and
\* within a module, or among the global stages, chain by chain, each from its start to its end.
Precedes(j, i) ==
    \/ j.module # Global /\ i.module = Global
    \/ j.module = i.module /\ (j.gen < i.gen \/ (j.gen = i.gen /\ j.pos < i.pos))

\* What an item depends on comes before it: there are no cycles, however often a module has
\* been reflowed, because a reflow adds a later chain than any the module has.
Acyclic == \A i \in Created : \A j \in dependsOn[i] : Precedes(j, i)
Attempted ==
    /\ \A i \in Created : i.module \in Modules => i.gen <= attempts[i.module]
    /\ \A c \in Callers : co[c].pc \in Reflowing =>
            /\ co[c].item.gen < attempts[co[c].item.module]
            /\ co[c].pc = "rewire" => co[c].todo \subseteq {Integration}

Progressing == Preparing /\ Begun /\ Replacing /\ Owned /\ Acyclic /\ Attempted

\* Of any items, one comes before all the others or unrelated to them.
LEMMA LeastItem ==
    ASSUME NEW P \in SUBSET Items, P # {}
    PROVE  \E x \in P : \A j \in P : ~Precedes(j, x)
  <1>0. \A i \in Items : i.gen \in Nat /\ i.pos \in Nat
    BY ItemShape, PackageShape, EngineAssumption
  <1>1. PICK y \in P : y.module = Global => \A j \in P : j.module = Global
    OBVIOUS
  <1> DEFINE m == y.module
             G == {i.gen : i \in {k \in P : k.module = m}}
  <1>2. G \in SUBSET Nat /\ G # {}
    BY <1>0
  <1>3. PICK g \in G : \A h \in G : g <= h
    BY <1>2, LeastExists
  <1> DEFINE K == {i.pos : i \in {k \in P : k.module = m /\ k.gen = g}}
  <1>4. K \in SUBSET Nat /\ K # {}
    BY <1>0
  <1>5. PICK p \in K : \A q \in K : p <= q
    BY <1>4, LeastExists
  <1>6. PICK x \in P : x.module = m /\ x.gen = g /\ x.pos = p
    OBVIOUS
  <1>7. ASSUME NEW j \in P PROVE ~Precedes(j, x)
    <2>1. CASE j.module # m
      BY <1>1, <1>6, <2>1 DEF Precedes
    <2>2. CASE j.module = m
      <3>1. g <= j.gen /\ (j.gen = g => p <= j.pos)
        BY <1>3, <1>5, <2>2
      <3>2. j.gen \in Nat /\ j.pos \in Nat /\ x.gen \in Nat /\ x.pos \in Nat
        BY <1>0
      <3>3. QED
        BY <1>6, <2>2, <3>1, <3>2 DEF Precedes
    <2>3. QED
      BY <2>1, <2>2
  <1>8. QED
    BY <1>7

\* A tick that makes nothing ready, in a run that is then said to be running, has found an
\* item that is running.
LEMMA WorkLeft ==
    ASSUME Base, Acyclic, Scheduler!Tick(Run), With("ready")' = {}, runStatus'[Run] = "running"
    PROVE  \E i \in With("running") : status'[i] = "running"
  <1>0. /\ status \in [Items -> Scheduler!ItemStatus] /\ status' \in [Items -> Scheduler!ItemStatus]
        /\ runStatus \in [{Run} -> Scheduler!RunStatus \cup {"absent"}]
        /\ dependsOn \in [Items -> SUBSET Items]
    BY DEF Base, TypeOK, Scheduler!TypeOK, Scheduler!Tick, Scheduler!ItemStatus
  <1>1. /\ Created' = Created /\ Created \in SUBSET Items
        /\ Created = Scheduler!ItemsOf(Run)
    BY CreatedAgain DEF Scheduler!Tick, Scheduler!itemVars, Created
  <1>2. \A i \in Items : status'[i] = IF i \notin Scheduler!Releasable(Run) THEN status[i]
                                      ELSE IF requiresApproval[i] THEN "waiting_approval" ELSE "ready"
    BY DEF Scheduler!Tick
  <1>3. Scheduler!DerivedStatus(Created, status') = "running"
    BY <1>0, <1>1 DEF Scheduler!Tick, Scheduler!Refresh
  <1>4. /\ \A i \in Created : status'[i] \notin {"failed", "needs_discussion", "waiting_approval"}
        /\ \E i \in Created : status'[i] \notin Done
    BY <1>3 DEF Scheduler!DerivedStatus, Scheduler!Done, Done
  <1>5. \A i \in Created : status'[i] # "ready"
    BY <1>1 DEF With
  <1>6. \A i \in Created : status'[i] \in {"pending", "running"} \cup Done
    BY <1>0, <1>1, <1>4, <1>5 DEF Done, Scheduler!ItemStatus
  <1>7. \A i \in Created : status'[i] = "running" => status[i] = "running"
    BY <1>1, <1>2
  <1> DEFINE P == {i \in Created : status'[i] = "pending"}
  <1>8. CASE P = {}
    BY <1>4, <1>6, <1>7, <1>8 DEF With
  <1>9. CASE P # {}
    <2>1. PICK x \in P : \A j \in P : ~Precedes(j, x)
      BY <1>1, <1>9, LeastItem
    <2>2. x \in Created /\ x \in Items /\ status'[x] = "pending"
      BY <1>1
    <2>3. status[x] = "pending" /\ x \notin Scheduler!Releasable(Run)
      BY <1>2, <2>2
    <2>4. PICK d \in dependsOn[x] : status[d] \notin Done
      BY <1>1, <2>2, <2>3 DEF Scheduler!Releasable, Scheduler!DependenciesSatisfied, Scheduler!Done, Done
    <2>5. d \in Items /\ d \in Created /\ Precedes(d, x)
      BY <1>0, <2>2, <2>4 DEF Acyclic, Base, Sched!RunsAreIsolated, Created
    <2>6. status'[d] # "pending"
      BY <2>1, <2>5
    <2>7. status'[d] \notin Done
      BY <1>2, <2>4, <2>5 DEF Done
    <2>8. status'[d] = "running"
      BY <1>6, <2>5, <2>6, <2>7
    <2>9. QED
      BY <1>7, <2>5, <2>8 DEF With
  <1>10. QED
    BY <1>8, <1>9

\* A call that returns from its loop for another reason than its bound leaves a run that has
\* been canceled, that is not running any more, or an item of which somebody awaits the result.
LEMMA ReturnBlocked ==
    ASSUME Base, Progressing, Next, NEW c \in Callers,
           At(c, "pull"), co[c].rounds > 0, loop' = NoCaller, co'[c] = Idle
    PROVE  runStatus'[Run] # "running" \/ \E d \in Callers : co'[d].pc = "await"
  <1>0. TypeOK /\ NoCaller \notin Callers /\ loop = c /\ co[c].pc = "pull"
    BY EngineAssumption DEF Base, At
  <1>1. PICK d \in Callers : Bootstrap(d) \/ Execute(d) \/ Answered(d) \/ Running(d)
    BY <1>0 DEF Next, Create, Interrupt, Approve, Resolve, ManualTick, ManualStart, ManualComplete, Elsewhere
  <1>2. d = c /\ \A e \in Callers \ {c} : co'[e] = co[e]
    BY <1>0, <1>1, OneMoves
  <1>3. PullEnd(c) \/ PullTick(c)
    <2>1. PullReady(c) \/ PullEnd(c) \/ PullTick(c)
      BY <1>0, <1>1, <1>2
      DEF At, Bootstrap, Execute, Answered, Running, Answer, AnswerDiscuss, AnswerDiscussRefused,
          BootstrapItem, BootstrapEnd, NextRoundOfBatch, StartNext,
          StartRefused, JudgeDrop, JudgeSuccess, JudgeFailure, Complete, Emit, Fail, BeginReflow,
          SkipObsolete, Grow, SetTerminal, Rewire, RewireRefused, Replace, RaiseIfCanceled
    <2>2. ~PullReady(c)
      BY <1>0 DEF PullReady
    <2>3. QED
      BY <2>1, <2>2
  <1>4. CASE PullEnd(c)
    <2>1. co[c].rounds \in 0 .. MaxLoops /\ MaxLoops \in Nat
      BY <1>0, EngineAssumption DEF TypeOK, Coroutine
    <2>2. Canceled /\ UNCHANGED runStatus
      BY <1>4, <2>1 DEF PullEnd, schedulerVars
    <2>3. QED
      BY <2>2 DEF Canceled
  <1>5. CASE PullTick(c)
    <2> SUFFICES ASSUME runStatus'[Run] = "running" PROVE \E e \in Callers : co'[e].pc = "await"
      OBVIOUS
    <2>1. With("ready")' = {} /\ Scheduler!Tick(Run) /\ ~Canceled
      BY <1>0, <1>5 DEF PullTick
    <2>2. PICK i \in With("running") : status'[i] = "running"
      BY <2>1, WorkLeft DEF Progressing
    <2>3. PICK e \in Callers : co[e].pc \in Owning /\ co[e].item = i
      BY <2>1, <2>2 DEF Progressing, Owned
    <2>4. e # c /\ loop # e
      BY <1>0, <2>3 DEF Owning, Acting
    <2>5. co[e].pc = "await"
      BY <1>0, <2>3, <2>4 DEF TypeOK, Owning, Acting
    <2>6. QED
      BY <1>2, <2>4, <2>5
  <1>6. QED
    BY <1>3, <1>4, <1>5

\* The dependencies an item of the pipeline is created with come before it.
LEMMA StartsEarlier ==
    ASSUME NEW i \in Pipeline, NEW j \in StartsAfter(i)
    PROVE  Precedes(j, i)
  <1>0. i \in Items /\ i.gen = 0 /\ Global \notin Modules
    BY EngineAssumption DEF Pipeline
  <1>1. CASE i.module # Global
    <2>1. i.module \in Modules /\ i.pos \in DOMAIN Package[i.module]
      BY <1>0, <1>1, ItemShape
    <2>2. PICK k \in PackageAfter(i.module, i.pos) : j = Item(i.module, 0, k)
      BY <1>1 DEF StartsAfter
    <2>3. k \in 1 .. (i.pos - 1) /\ i.pos \in Nat
      BY <2>1, PackageAfterEarlier, PackageShape
    <2>4. j.module = i.module /\ j.gen = i.gen /\ j.pos = k
      BY <1>0, <2>2 DEF Item
    <2>5. QED
      BY <2>3, <2>4 DEF Precedes
  <1>2. CASE i.module = Global
    <2>1. i.pos \in 1 .. 3
      BY <1>0, <1>2, ItemShape
    <2>2. CASE i.pos > 1
      <3>1. j = GlobalItem(i.pos - 1)
        BY <1>2, <2>2 DEF StartsAfter
      <3>2. j.module = i.module /\ j.gen = i.gen /\ j.pos = i.pos - 1
        BY <1>0, <1>2, <3>1 DEF GlobalItem, Item
      <3>3. QED
        BY <2>1, <3>2 DEF Precedes
    <2>3. CASE ~(i.pos > 1)
      BY <1>2, <2>3 DEF StartsAfter, Precedes
    <2>4. QED
      BY <2>2, <2>3
  <1>3. QED
    BY <1>1, <1>2

\* Whatever is created or rewired, dependencies come before what depends on them.
LEMMA StepAcyclic ==
    ASSUME Base, Progressing, Next
    PROVE  Acyclic'
  <1>0. /\ TypeOK /\ Step /\ Acyclic /\ Attempted /\ Begun /\ Preparing
        /\ dependsOn \in [Items -> SUBSET Items] /\ runOf \in [Items -> {Run, NoRun}]
        /\ Created \in SUBSET Items /\ Global \notin Modules
    BY CreatedAgain, EngineAssumption DEF Step, Base, Progressing, TypeOK, Scheduler!TypeOK, Created
  <1>1. CASE UNCHANGED <<runOf, dependsOn>>
    BY <1>0, <1>1 DEF Acyclic, Created
  <1>2. ASSUME NEW i \in Items, NEW ds, NEW approval, Scheduler!AddWorkItem(i, Run, ds, approval),
               \A j \in ds : Precedes(j, i)
        PROVE  Acyclic'
    <2>1. runOf' = [runOf EXCEPT ![i] = Run] /\ dependsOn' = [dependsOn EXCEPT ![i] = ds]
      BY <1>2 DEF Scheduler!AddWorkItem
    <2>2. Created' = Created \cup {i}
      BY <1>0, <2>1 DEF Created
    <2>3. dependsOn'[i] = ds /\ \A k \in Items \ {i} : dependsOn'[k] = dependsOn[k]
      BY <1>0, <2>1
    <2>4. ASSUME NEW k \in Created', NEW j \in dependsOn'[k] PROVE Precedes(j, k)
      BY <1>0, <1>2, <2>2, <2>3, <2>4 DEF Acyclic
    <2>5. QED
      BY <2>4 DEF Acyclic, Precedes
  <1>3. ASSUME NEW c \in Callers, BootstrapItem(c) PROVE Acyclic'
    <2>1. PICK i \in Pipeline : Scheduler!AddWorkItem(i, Run, StartsAfter(i), AsksApproval(i))
      BY <1>3 DEF BootstrapItem
    <2>2. i \in Items /\ \A j \in StartsAfter(i) : Precedes(j, i)
      BY StartsEarlier DEF Pipeline
    <2>3. QED
      BY <1>2, <2>1, <2>2
  <1>4. ASSUME NEW c \in Callers, Grow(c) PROVE Acyclic'
    <2> DEFINE i == co[c].item
               m == i.module
               chain(k) == Item(m, attempts[m], k)
    <2>1. PICK k \in DOMAIN ModuleStages :
            Scheduler!AddWorkItem(chain(k), Run, IF k = 1 THEN dependsOn[i] ELSE {chain(k - 1)}, FALSE)
      BY <1>4 DEF Grow
    <2>2. /\ k \in 1 .. 4 /\ m \in Modules /\ attempts[m] \in 1 .. MaxModuleReflows
          /\ i \in Created /\ i.gen < attempts[m] /\ MaxModuleReflows \in Nat
      <3>1. DOMAIN ModuleStages = 1 .. 4
        BY DEF ModuleStages
      <3>2. co[c].pc = "obsolete" /\ i \in Created
        BY <1>0, <1>4 DEF Grow, At, TypeOK, Working, PC
      <3>3. QED
        BY <1>0, <2>1, <3>1, <3>2, EngineAssumption DEF Base, ReflowSound, Attempted, Reflowing
    <2>3. chain(k) \in Items /\ chain(k).module = m /\ chain(k).gen = attempts[m] /\ chain(k).pos = k
      BY <2>2, PackageItem DEF Item
    <2>4. ASSUME NEW j \in dependsOn[i] PROVE Precedes(j, chain(k))
      <3>1. j \in Items /\ Precedes(j, i)
        BY <1>0, <2>2, <2>4 DEF Acyclic
      <3>2. j.gen \in Nat /\ i.gen \in Nat
        BY <1>0, <2>2, <3>1, ItemShape, EngineAssumption
      <3>3. j.module = m /\ j.gen <= i.gen
        BY <1>0, <2>2, <3>1, <3>2 DEF Precedes
      <3>4. QED
        BY <2>2, <2>3, <3>2, <3>3 DEF Precedes
    <2>5. k # 1 => Precedes(chain(k - 1), chain(k))
      BY <2>2 DEF Precedes, Item
    <2> DEFINE ds == IF k = 1 THEN dependsOn[i] ELSE {chain(k - 1)}
    <2>6. Scheduler!AddWorkItem(chain(k), Run, ds, FALSE)
      BY <2>1
    <2>7. \A j \in ds : Precedes(j, chain(k))
      BY <2>4, <2>5
    <2> HIDE DEF chain, ds
    <2>8. QED
      BY <1>2, <2>3, <2>6, <2>7
  <1>5. ASSUME NEW c \in Callers, Rewire(c) PROVE Acyclic'
    <2>1. CASE UNCHANGED <<runOf, dependsOn>>
      BY <1>1, <2>1
    <2>2. CASE ~UNCHANGED <<runOf, dependsOn>>
      <3> DEFINE m == co[c].item.module
      <3>0. co[c].todo # {}
        BY <1>5, <2>2 DEF Rewire, schedulerVars
      <3>1. PICK i \in co[c].todo : Scheduler!UpdateWorkItemDependencies(i,
                                        (dependsOn[i] \ {co[c].old}) \cup {terminal[m]})
        BY <1>5, <3>0 DEF Rewire
      <3>2. i = Integration
        BY <1>0, <1>5, <3>1 DEF Rewire, At, Attempted, Reflowing
      <3>3. Integration \in Items /\ Integration.module = Global
        BY IntegrationItem DEF Pipeline
      <3>4. /\ dependsOn' = [dependsOn EXCEPT ![Integration] =
                                (dependsOn[Integration] \ {co[c].old}) \cup {terminal[m]}]
            /\ runOf' = runOf
        BY <3>1, <3>2 DEF Scheduler!UpdateWorkItemDependencies
      <3>5. terminal[m].module # Global
        <4>1. confirmed /\ m \in Modules
          BY <1>0, <1>5 DEF Rewire, At, Preparing, Base, ReflowSound
        <4>2. QED
          BY <1>0, <4>1 DEF Begun
      <3>6. Created' = Created
        BY <3>4 DEF Created
      <3> HIDE DEF m, Integration
      <3>7. /\ dependsOn'[Integration] = (dependsOn[Integration] \ {co[c].old}) \cup {terminal[m]}
            /\ \A k \in Items \ {Integration} : dependsOn'[k] = dependsOn[k]
        BY <1>0, <3>3, <3>4
      <3>8. Precedes(terminal[m], Integration)
        BY <3>3, <3>5 DEF Precedes
      <3>9. ASSUME NEW k \in Created', NEW j \in dependsOn'[k] PROVE Precedes(j, k)
        BY <1>0, <3>6, <3>7, <3>8, <3>9 DEF Acyclic
      <3>10. QED
        BY <3>9 DEF Acyclic, Precedes
    <2>3. QED
      BY <2>1, <2>2
  <1>6. QED
    BY <1>0, <1>1, <1>3, <1>4, <1>5, StructureSteps

\* A reflow raises the number of its module's attempts above any chain the module has, before
\* it creates the items of the next one.
LEMMA StepAttempted ==
    ASSUME Base, Progressing, Next
    PROVE  Attempted'
  <1>0. /\ TypeOK /\ Step /\ Attempted /\ Begun /\ Preparing
        /\ runOf \in [Items -> {Run, NoRun}] /\ attempts \in [Modules -> Nat]
        /\ Created \in SUBSET Items /\ Global \notin Modules /\ [Step]_vars
        /\ \A i \in Items : i.gen \in Nat
    BY CreatedAgain, ItemShape, EngineAssumption DEF Step, Base, Progressing, TypeOK, Created
  <1>1. /\ \A i \in Created : i.module \in Modules => i.gen <= attempts[i.module]
        /\ \A c \in Callers : co[c].pc \in Reflowing =>
                /\ co[c].item.gen < attempts[co[c].item.module]
                /\ co[c].pc = "rewire" => co[c].todo \subseteq {Integration}
    BY <1>0 DEF Attempted
  <1>2. ASSUME NEW c \in Callers, BootstrapEnd(c) PROVE Created \subseteq Pipeline
    BY <1>0, <1>2 DEF BootstrapEnd, At, Begun, Preparing
  <1>3. ASSUME NEW i \in Created', i.module \in Modules PROVE i.gen <= attempts'[i.module]
    <2>1. i \in Items
      BY <1>3 DEF Created
    <2>2. ASSUME i \in Created PROVE i.gen <= attempts'[i.module]
      <3>1. CASE \E c \in Callers : BootstrapEnd(c)
        <4>1. i.gen = 0
          BY <1>2, <2>2, <3>1 DEF Pipeline
        <4>2. attempts'[i.module] = 0
          BY <1>3, <3>1 DEF BootstrapEnd
        <4>3. QED
          BY <4>1, <4>2
      <3>2. ASSUME NEW c \in Callers, BeginReflow(c) PROVE i.gen <= attempts'[i.module]
        <4>1. \/ attempts' = attempts
              \/ attempts' = [attempts EXCEPT ![co[c].item.module] = @ + 1]
          BY <3>2 DEF BeginReflow
        <4>2. QED
          BY <1>0, <1>1, <1>3, <2>1, <2>2, <4>1
      <3>3. CASE UNCHANGED attempts
        BY <1>1, <1>3, <2>2, <3>3
      <3>4. QED
        BY <1>0, <3>1, <3>2, <3>3, RecordSteps
    <2>3. ASSUME i \notin Created PROVE i.gen <= attempts'[i.module]
      <3>1. CASE UNCHANGED <<runOf, dependsOn>>
        BY <1>3, <2>3, <3>1 DEF Created
      <3>2. ASSUME NEW j \in Items, NEW ds, NEW approval, Scheduler!AddWorkItem(j, Run, ds, approval)
            PROVE  i = j
        <4>1. runOf' = [runOf EXCEPT ![j] = Run]
          BY <3>2 DEF Scheduler!AddWorkItem
        <4>2. QED
          BY <1>0, <1>3, <2>1, <2>3, <4>1 DEF Created
      <3>3. ASSUME NEW c \in Callers, BootstrapItem(c) PROVE i.gen <= attempts'[i.module]
        <4>1. PICK j \in Pipeline : Scheduler!AddWorkItem(j, Run, StartsAfter(j), AsksApproval(j))
          BY <3>3 DEF BootstrapItem
        <4>2. i.gen = 0
          BY <3>2, <4>1 DEF Pipeline
        <4>3. attempts'[i.module] \in Nat
          BY <1>0, <1>3, <3>3 DEF BootstrapItem, recordVars
        <4>4. QED
          BY <4>2, <4>3
      <3>4. ASSUME NEW c \in Callers, Grow(c) PROVE i.gen <= attempts'[i.module]
        <4> DEFINE m == co[c].item.module
        <4>1. PICK k \in DOMAIN ModuleStages : \E ds :
                Scheduler!AddWorkItem(Item(m, attempts[m], k), Run, ds, FALSE)
          BY <3>4 DEF Grow
        <4>2. Item(m, attempts[m], k) \in Items
          <5>1. DOMAIN ModuleStages = 1 .. 4
            BY DEF ModuleStages
          <5>2. QED
            BY <1>0, <3>4, <5>1, PackageItem DEF Grow, At, Base, ReflowSound
        <4>3. i = Item(m, attempts[m], k) /\ UNCHANGED attempts
          BY <3>2, <3>4, <4>1, <4>2 DEF Grow, recordVars
        <4>4. i.gen = attempts'[i.module]
          BY <4>3 DEF Item
        <4>5. QED
          BY <1>0, <2>1, <4>4
      <3>5. ASSUME NEW c \in Callers, Rewire(c) PROVE i.gen <= attempts'[i.module]
        <4>1. UNCHANGED runOf
          BY <3>5 DEF Rewire, schedulerVars, Scheduler!UpdateWorkItemDependencies
        <4>2. QED
          BY <1>3, <2>3, <4>1 DEF Created
      <3>6. QED
        BY <1>0, <3>1, <3>3, <3>4, <3>5, StructureSteps
    <2>4. QED
      BY <2>2, <2>3
  <1>4. ASSUME NEW c \in Callers, co'[c].pc \in Reflowing
        PROVE  /\ co'[c].item.gen < attempts'[co'[c].item.module]
               /\ co'[c].pc = "rewire" => co'[c].todo \subseteq {Integration}
    <2> DEFINE i == co[c].item
    <2>1. /\ co'[c].item = i /\ i \in Items
          /\ BeginReflow(c) \/ SkipObsolete(c) \/ Grow(c) \/ SetTerminal(c) \/ Rewire(c)
      BY <1>0, <1>4, ReflowStep
      DEF Reflowing, BeginReflow, SkipObsolete, Grow, SetTerminal, Rewire, At, TypeOK, Working, PC
    <2>2. CASE BeginReflow(c)
      <3>1. i \in Created /\ co'[c].pc # "rewire" /\ i.module # Global
        BY <1>0, <1>4, <2>2, ReflowMoves DEF BeginReflow, At, TypeOK, Working, PC, Reflowing
      <3>2. i.module \in Modules
        BY <2>1, <3>1, ItemShape
      <3>3. attempts'[i.module] = attempts[i.module] + 1
        BY <1>0, <2>2, <3>1, <3>2 DEF BeginReflow
      <3>4. QED
        BY <1>0, <1>1, <2>1, <3>1, <3>2, <3>3
    <2>3. CASE SkipObsolete(c) \/ Grow(c) \/ SetTerminal(c) \/ Rewire(c)
      <3>1. UNCHANGED attempts /\ co[c].pc \in Reflowing
        BY <2>3 DEF SkipObsolete, Grow, SetTerminal, Rewire, recordVars, At, Reflowing
      <3>2. co'[c].pc = "rewire" => co'[c].todo \subseteq {Integration}
        <4>1. CASE SetTerminal(c)
          <5>1. co'[c].todo \subseteq IntegrationItems
            BY <1>0, <4>1, ReflowMoves
          <5>2. IntegrationItems \subseteq {Integration}
            BY <1>0, IntegrationItem DEF IntegrationItems
          <5>3. QED
            BY <5>1, <5>2
        <4>2. CASE Rewire(c)
          BY <1>0, <1>1, <3>1, <4>2, ReflowMoves DEF Rewire, At
        <4>3. CASE SkipObsolete(c) \/ Grow(c)
          BY <1>0, <4>3, ReflowMoves
        <4>4. QED
          BY <2>3, <4>1, <4>2, <4>3
      <3>3. QED
        BY <1>1, <2>1, <3>1, <3>2
    <2>4. QED
      BY <2>1, <2>2, <2>3
  <1>5. QED
    BY <1>3, <1>4 DEF Attempted

\* A coroutine that gives up the event loop for good has left the run blocked or to another
\* one, in every step of a life of the process.
THEOREM BlockedReturn == ASSUME ~ManualApi PROVE Spec => ReturnsOnlyWhenBlocked
  <1>1. Init => Base /\ Progressing
    <2> SUFFICES ASSUME Init PROVE Base /\ Progressing
      OBVIOUS
    <2>1. Base /\ Ordered
      BY InitBase, InitOrdered
    <2>2. Created = {} /\ \A c \in Callers : co[c].pc = "idle"
      BY EngineAssumption DEF Init, Created, Idle
    <2>3. Owned /\ Acyclic /\ Attempted
      BY <2>2 DEF Owned, With, Acyclic, Attempted, Reflowing
    <2>4. QED
      BY <2>1, <2>3 DEF Ordered, Progressing
  <1>2. Base /\ Progressing /\ [Next]_vars => (Base /\ Progressing)'
    <2>1. [Next]_vars => [Step]_vars
      BY DEF Step
    <2>2. ASSUME Base, Progressing, Next PROVE Progressing'
      BY <2>2, StepPreparing, StepBegun, StepReplacing, NextOwned, StepAcyclic, StepAttempted
      DEF Progressing, Step
    <2>3. ASSUME Base, Progressing, UNCHANGED vars PROVE Progressing'
      <3>1. UNCHANGED <<runStatus, runOf, status, dependsOn, confirmed, attempts, terminal, loop, co>>
        BY <2>3 DEF vars, schedulerVars, recordVars
      <3>2. Created' = Created /\ Canceled' = Canceled
        BY <3>1 DEF Created, Canceled
      <3>3. Preparing' /\ Begun' /\ Replacing'
        BY <2>3, <3>1, <3>2 DEF Progressing, Preparing, Begun, Replacing
      <3>4. Owned' /\ Acyclic' /\ Attempted'
        BY <2>3, <3>1, <3>2 DEF Progressing, Owned, With, Acyclic, Attempted
      <3>5. QED
        BY <3>3, <3>4 DEF Progressing
    <2>4. QED
      BY <2>1, <2>2, <2>3, StepBase
  <1> DEFINE Blocked ==
        \A c \in Callers :
            At(c, "pull") /\ co[c].rounds > 0 /\ loop' = NoCaller /\ co'[c] = Idle
            => \/ runStatus'[Run] # "running"
               \/ \E d \in Callers : co'[d].pc = "await"
  <1>3. Base /\ Progressing /\ [Next]_vars => [Blocked]_vars
    BY ReturnBlocked
  <1>4. Spec => [][Blocked]_vars
    <2> HIDE DEF Blocked
    <2>1. QED
      BY <1>1, <1>2, <1>3, PTL DEF Spec
  <1>5. QED
    BY <1>4 DEF ReturnsOnlyWhenBlocked

=============================================================================

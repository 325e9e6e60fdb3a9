------------------------ MODULE CommandOrchestrator ------------------------
(***************************************************************************)
(* Projects, tasks and commands (services/orchestrator.py): their derived  *)
(* status and counters, kept in memory and written to sqlite row by row.   *)
(*                                                                         *)
(* Every method holds one lock, also while it awaits the executor.  What a *)
(* method does between two awaits is one step, which changes the memory    *)
(* and puts the rows it persists into `outbox', in the order of the code;  *)
(* each row is a transaction of its own (Flush).  Nothing else runs until  *)
(* they are written, but the process may die between any two of them.      *)
(***************************************************************************)
EXTENDS Naturals, Sequences, FiniteSets

CONSTANTS
    Projects, NoProject,
    Tasks, NoTask,
    Commands, NoCommand,
    Clients, NoClient,   \* who calls; nobody
    MaxCrashes           \* bound: deaths of the process

ASSUME OrchestratorAssumption ==
    /\ NoProject \notin Projects /\ NoTask \notin Tasks
    /\ NoCommand \notin Commands /\ NoClient \notin Clients
    /\ IsFiniteSet(Projects) /\ IsFiniteSet(Tasks) /\ IsFiniteSet(Commands)
    /\ MaxCrashes \in Nat

VARIABLES
    projects, tasks, commands,  \* the memory
    disk,      \* the rows of sqlite, by kind of entity
    outbox,    \* rows the current step has still to write
    lock,      \* who holds the lock
    co,        \* of each client: commands to advance, command that is being executed
    up,        \* the process runs
    calls,     \* of each command: calls of the executor
    crashes

memory == <<projects, tasks, commands>>
vars == <<memory, disk, outbox, lock, co, up, calls, crashes>>

NewProject == [exists |-> FALSE, taskCount |-> 0, active |-> 0]
NewTask == [project |-> NoProject, status |-> "none", count |-> 0, success |-> 0, failed |-> 0]
NewCommand == [task |-> NoTask, status |-> "none", needs |-> FALSE, approved |-> FALSE]
Idle == [todo |-> {}, awaits |-> NoCommand]

Finished == {"success", "failed"}
ActiveStatus == {"todo", "in_progress", "waiting_approval"}

-----------------------------------------------------------------------------
(* Derived data                                                            *)

CommandsOf(cs, t) == {c \in Commands : cs[c].task = t}
WithStatus(cs, t, s) == {c \in CommandsOf(cs, t) : cs[c].status = s}
TasksOf(ts, p) == {t \in Tasks : ts[t].project = p}
ActiveTasks(ts, p) == {t \in TasksOf(ts, p) : ts[t].status \in ActiveStatus}

\* _derive_task_status_locked; no code cancels a command.
DerivedStatus(cs, t) ==
    LET statuses == {cs[c].status : c \in CommandsOf(cs, t)} IN
    IF statuses = {} THEN "todo"
    ELSE IF "waiting_approval" \in statuses THEN "waiting_approval"
    ELSE IF {"running", "queued"} \cap statuses # {} THEN "in_progress"
    ELSE IF "failed" \in statuses THEN "failed"
    ELSE "done"

\* The counters and the status of a task, and those of a project, are what its commands
\* and tasks say.
TaskAgrees(t) ==
    /\ tasks[t].status = DerivedStatus(commands, t)
    /\ tasks[t].count = Cardinality(CommandsOf(commands, t))
    /\ \A s \in Finished : tasks[t][s] = Cardinality(WithStatus(commands, t, s))

ProjectAgrees(p) ==
    /\ projects[p].taskCount = Cardinality(TasksOf(tasks, p))
    /\ projects[p].active = Cardinality(ActiveTasks(tasks, p))

-----------------------------------------------------------------------------
(* The store                                                               *)

Row(kind, id, row) == [kind |-> kind, id |-> id, row |-> row]

Upsert(store, r) == [store EXCEPT ![r.kind] = [@ EXCEPT ![r.id] = r.row]]

\* The models refuse counters that contradict each other, and with them the start.
Loads ==
    /\ \A t \in Tasks : disk.task[t].success + disk.task[t].failed <= disk.task[t].count
    /\ \A p \in Projects : disk.project[p].active <= disk.project[p].taskCount

\* Mutant: the project is not written.
RefreshTaskOnly(rows, t, cs, ts, ps) ==
    LET refreshed == [ts EXCEPT ![t].status = DerivedStatus(cs, t)]
        p == ts[t].project
    IN  /\ commands' = cs /\ tasks' = refreshed
        /\ projects' = [ps EXCEPT ![p].active = Cardinality(ActiveTasks(refreshed, p))]
        /\ outbox' = Append(rows, Row("task", t, refreshed[t]))

\* A step that makes the memory (cs, ts, ps), persists `rows', and ends with
\* _refresh_task_and_project_state_locked on task t.
Refresh(rows, t, cs, ts, ps) ==
    LET refreshed == [ts EXCEPT ![t].status = DerivedStatus(cs, t)]
        p == ts[t].project
        recounted == [ps EXCEPT ![p].active = Cardinality(ActiveTasks(refreshed, p))]
    IN  /\ commands' = cs /\ tasks' = refreshed /\ projects' = recounted
        /\ outbox' = rows \o <<Row("task", t, refreshed[t]), Row("project", p, recounted[p])>>

Flush ==
    /\ outbox # <<>>
    /\ disk' = Upsert(disk, Head(outbox))
    /\ outbox' = Tail(outbox)
    /\ UNCHANGED <<memory, lock, co, up, calls, crashes>>

\* The process dies and is started again, if _load_state lets it.
Crash ==
    /\ up /\ crashes < MaxCrashes
    /\ crashes' = crashes + 1
    /\ projects' = disk.project /\ tasks' = disk.task /\ commands' = disk.command
    /\ outbox' = <<>>
    /\ lock' = NoClient
    /\ co' = [c \in Clients |-> Idle]
    /\ up' = Loads
    /\ UNCHANGED <<disk, calls>>

-----------------------------------------------------------------------------
(* Methods that do not await                                               *)

EventLoopFree == up /\ outbox = <<>>
Unlocked == EventLoopFree /\ lock = NoClient

CreateProject(p) ==
    /\ Unlocked /\ ~projects[p].exists
    /\ projects' = [projects EXCEPT ![p].exists = TRUE]
    /\ outbox' = <<Row("project", p, projects'[p])>>
    /\ UNCHANGED <<tasks, commands, disk, lock, co, up, calls, crashes>>

CreateTask(t, p) ==
    LET ts == [tasks EXCEPT ![t] = [NewTask EXCEPT !.project = p, !.status = "todo"]]
        ps == [projects EXCEPT ![p].taskCount = @ + 1]
    IN  /\ Unlocked /\ projects[p].exists /\ tasks[t].status = "none"
        /\ Refresh(<<Row("task", t, ts[t]), Row("project", p, ps[p])>>, t, commands, ts, ps)
        /\ UNCHANGED <<disk, lock, co, up, calls, crashes>>

Created(t, needs) ==
    [task |-> t, status |-> IF needs THEN "waiting_approval" ELSE "queued",
     needs |-> needs, approved |-> FALSE]

\* Mutant: the task is persisted before its command.
CreateCommandTaskFirst(c, t, needs) ==
    LET cs == [commands EXCEPT ![c] = Created(t, needs)]
        ts == [tasks EXCEPT ![t].count = @ + 1]
    IN  /\ Unlocked /\ tasks[t].status # "none" /\ commands[c].status = "none"
        /\ Refresh(<<Row("task", t, ts[t]), Row("command", c, cs[c])>>, t, cs, ts, projects)
        /\ UNCHANGED <<disk, lock, co, up, calls, crashes>>

CreateCommand(c, t, needs) ==
    LET cs == [commands EXCEPT ![c] = Created(t, needs)]
        ts == [tasks EXCEPT ![t].count = @ + 1]
    IN  /\ Unlocked /\ tasks[t].status # "none" /\ commands[c].status = "none"
        /\ Refresh(<<Row("command", c, cs[c]), Row("task", t, ts[t])>>, t, cs, ts, projects)
        /\ UNCHANGED <<disk, lock, co, up, calls, crashes>>

ApproveCommand(c) ==
    LET cs == [commands EXCEPT ![c].status = "queued", ![c].approved = TRUE]
    IN  /\ Unlocked /\ commands[c].needs /\ commands[c].status = "waiting_approval"
        /\ Refresh(<<Row("command", c, cs[c])>>, cs[c].task, cs, tasks, projects)
        /\ UNCHANGED <<disk, lock, co, up, calls, crashes>>

-----------------------------------------------------------------------------
(* Methods that read: they advance the commands they are about to show     *)

\* get_command; get_task and list_commands; list_tasks and get_project_detail;
\* list_projects and the metrics.
Scopes ==
    {{c} : c \in Commands}
        \cup {CommandsOf(commands, t) : t \in Tasks}
        \cup {UNION {CommandsOf(commands, t) : t \in TasksOf(tasks, p)} : p \in Projects}
        \cup {Commands}

Existing == {c \in Commands : commands[c].status # "none"}

\* Takes the lock.
Read(client, scope) ==
    /\ Unlocked
    /\ scope \cap Existing # {}
    /\ lock' = client
    /\ co' = [co EXCEPT ![client].todo = scope \cap Existing]
    /\ UNCHANGED <<memory, disk, outbox, up, calls, crashes>>

\* The client's coroutine may go on, and c is among what it has left to advance.
Advancing(client, c) ==
    /\ EventLoopFree /\ lock = client
    /\ co[client].awaits = NoCommand
    /\ c \in co[client].todo

\* A command that waits or is finished is left alone, and a running one for 200 ms.
AdvanceSkip(client, c) ==
    /\ Advancing(client, c)
    /\ commands[c].status \in Finished \cup {"waiting_approval", "running"}
    /\ co' = [co EXCEPT ![client].todo = @ \ {c}]
    /\ UNCHANGED <<memory, disk, outbox, lock, up, calls, crashes>>

\* Mutant: a command that waits for approval is started like a queued one.
StartWaiting(client, c) ==
    LET cs == [commands EXCEPT ![c].status = "running"] IN
    /\ Advancing(client, c) /\ commands[c].status \in {"queued", "waiting_approval"}
    /\ Refresh(<<Row("command", c, cs[c])>>, cs[c].task, cs, tasks, projects)
    /\ co' = [co EXCEPT ![client].todo = @ \ {c}]
    /\ UNCHANGED <<disk, lock, up, calls, crashes>>

AdvanceStart(client, c) ==
    LET cs == [commands EXCEPT ![c].status = "running"] IN
    /\ Advancing(client, c) /\ commands[c].status = "queued"
    /\ Refresh(<<Row("command", c, cs[c])>>, cs[c].task, cs, tasks, projects)
    /\ co' = [co EXCEPT ![client].todo = @ \ {c}]
    /\ UNCHANGED <<disk, lock, up, calls, crashes>>

\* Mutant: the lock is given up for the time of the execution.
ExecuteUnlocked(client, c) ==
    /\ Advancing(client, c) /\ commands[c].status = "running"
    /\ co' = [co EXCEPT ![client].todo = @ \ {c}, ![client].awaits = c]
    /\ calls' = [calls EXCEPT ![c] = @ + 1]
    /\ lock' = NoClient
    /\ UNCHANGED <<memory, disk, outbox, up, crashes>>

\* Mutant: a queued command is executed at once, without being marked as running.
ExecuteQueued(client, c) ==
    /\ Advancing(client, c) /\ commands[c].status \in {"queued", "running"}
    /\ co' = [co EXCEPT ![client].todo = @ \ {c}, ![client].awaits = c]
    /\ calls' = [calls EXCEPT ![c] = @ + 1]
    /\ UNCHANGED <<memory, disk, outbox, lock, up, crashes>>

\* The executor is awaited with the lock held.
AdvanceExecute(client, c) ==
    /\ Advancing(client, c) /\ commands[c].status = "running"
    /\ co' = [co EXCEPT ![client].todo = @ \ {c}, ![client].awaits = c]
    /\ calls' = [calls EXCEPT ![c] = @ + 1]
    /\ UNCHANGED <<memory, disk, outbox, lock, up, crashes>>

\* The executor answers, or raises, which is a failure.  The command is persisted twice;
\* the second row differs in its times.
Answer(client, outcome) ==
    LET c == co[client].awaits
        t == commands[c].task
        cs == [commands EXCEPT ![c].status = outcome]
    IN  /\ EventLoopFree /\ c # NoCommand
        /\ Refresh(<<Row("command", c, cs[c]), Row("command", c, cs[c])>>, t, cs,
                   [tasks EXCEPT ![t][outcome] = @ + 1], projects)
        /\ co' = [co EXCEPT ![client].awaits = NoCommand]
        /\ UNCHANGED <<disk, lock, up, calls, crashes>>

Release(client) ==
    /\ EventLoopFree /\ lock = client
    /\ co[client] = Idle
    /\ lock' = NoClient
    /\ UNCHANGED <<memory, disk, outbox, co, up, calls, crashes>>

-----------------------------------------------------------------------------
Init ==
    /\ projects = [p \in Projects |-> NewProject]
    /\ tasks = [t \in Tasks |-> NewTask]
    /\ commands = [c \in Commands |-> NewCommand]
    /\ disk = [project |-> projects, task |-> tasks, command |-> commands]
    /\ outbox = <<>>
    /\ lock = NoClient
    /\ co = [c \in Clients |-> Idle]
    /\ up = TRUE
    /\ calls = [c \in Commands |-> 0]
    /\ crashes = 0

Handle(client) ==
    \/ \E scope \in Scopes : Read(client, scope)
    \/ \E c \in Commands : AdvanceSkip(client, c) \/ AdvanceStart(client, c)
                                \/ AdvanceExecute(client, c)
    \/ \E outcome \in Finished : Answer(client, outcome)
    \/ Release(client)

Next ==
    \/ \E p \in Projects : CreateProject(p)
    \/ \E t \in Tasks, p \in Projects : CreateTask(t, p)
    \/ \E c \in Commands, t \in Tasks, needs \in BOOLEAN : CreateCommand(c, t, needs)
    \/ \E c \in Commands : ApproveCommand(c)
    \/ \E client \in Clients : Handle(client)
    \/ Flush \/ Crash

Spec == Init /\ [][Next]_vars

-----------------------------------------------------------------------------
(* Properties                                                              *)

ProjectRow == [exists : BOOLEAN, taskCount : Nat, active : Nat]
TaskRow ==
    {r \in [project : Projects \cup {NoProject}, count : Nat, success : Nat, failed : Nat,
            status : ActiveStatus \cup {"none", "done", "failed"}] :
        r.status # "none" => r.project \in Projects}
CommandRow ==
    {r \in [task : Tasks \cup {NoTask}, needs : BOOLEAN, approved : BOOLEAN,
            status : Finished \cup {"none", "queued", "running", "waiting_approval"}] :
        r.status # "none" => r.task \in Tasks}
Store == [project : [Projects -> ProjectRow], task : [Tasks -> TaskRow],
          command : [Commands -> CommandRow]]
Rows == [kind : {"project"}, id : Projects, row : ProjectRow]
            \cup [kind : {"task"}, id : Tasks, row : TaskRow]
            \cup [kind : {"command"}, id : Commands, row : CommandRow]

Memory == [project |-> projects, task |-> tasks, command |-> commands]

\* Every variable stays within its type, and who advances commands holds the lock.
TypeOK ==
    /\ Memory \in Store /\ disk \in Store
    /\ outbox \in Seq(Rows)
    /\ lock \in Clients \cup {NoClient}
    /\ co \in [Clients -> [todo : SUBSET Commands, awaits : Commands \cup {NoCommand}]]
    /\ \A client \in Clients : co[client] # Idle => lock = client
    /\ up \in BOOLEAN
    /\ calls \in [Commands -> Nat]
    /\ crashes \in Nat

\* What a client can see is what sqlite has: when the event loop is free, whatever a
\* method has changed has been persisted, so that no death of the process takes it back.
StoreIsMemory == outbox = <<>> => disk = Memory

\* Wherever the process dies, the counters lag behind the commands and tasks that they
\* count, and never run ahead of them.  Status and counters are repaired by what follows
\* or stay wrong, but the damage does not spread: a death of the process leaves at most
\* one task or project that disagrees with what it consists of, and without one they
\* always agree.
CountersLag ==
    /\ \A t \in Tasks :
        /\ tasks[t].count <= Cardinality(CommandsOf(commands, t))
        /\ \A s \in Finished : tasks[t][s] <= Cardinality(WithStatus(commands, t, s))
    /\ \A p \in Projects : projects[p].taskCount <= Cardinality(TasksOf(tasks, p))
    /\ Cardinality({t \in Tasks : tasks[t].status # "none" /\ ~TaskAgrees(t)})
         + Cardinality({p \in Projects : projects[p].exists /\ ~ProjectAgrees(p)}) <= crashes

\* The result of a command that a client has seen, or could have seen, is never changed
\* or taken back, by no later reader and by no restart.
FinishedIsFinal ==
    [][\A c \in Commands : outbox = <<>> /\ commands[c].status \in Finished
        => commands'[c] = commands[c]]_vars

\* However many clients poll it at a time, a command is executed once in the life of the
\* process; it is executed again only if the process died before its result was stored.
ExecutedOncePerLife == \A c \in Commands : calls[c] <= crashes + 1

\* The executor has seen no command that lacks the approval it needs, according to what
\* is known now: no restart forgets an approval that was acted on.
ApprovedBeforeExecution ==
    \A c \in Commands : calls[c] > 0 /\ commands[c].needs => commands[c].approved

\* What is stored can be loaded: the counters satisfy the validators of the models.
StoreLoads == Loads

EntryOf(r) == [state |-> r.status, guarded |-> r.needs, cleared |-> r.approved]

\* What the store says of the commands is a ledger of jobs (JobLedger): a command is
\* stored as running before the executor sees it, its result is stored after that, and
\* nothing that clients, readers and deaths of the process do to the memory takes a
\* stored command back or moves it past a step (InMemoryOrchestrator, SQLiteStateStore).
Ledger == INSTANCE JobLedger WITH
    Jobs <- Commands, entry <- [c \in Commands |-> EntryOf(disk.command[c])],
    runs <- calls, deaths <- crashes
ImplementsLedger == Ledger!Spec
=============================================================================

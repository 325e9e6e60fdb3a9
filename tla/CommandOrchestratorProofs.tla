---------------------- MODULE CommandOrchestratorProofs ----------------------
(***************************************************************************)
(* Invariants of CommandOrchestrator for any projects, tasks, commands and *)
(* clients and any number of crashes.  What the operations share, Refresh  *)
(* and Upsert, has its own lemmas; then there is one step per action.  The *)
(* counters come last, with an invariant and one step per action of their  *)
(* own.                                                                    *)
(***************************************************************************)
EXTENDS CommandOrchestrator, FiniteSetTheorems, TLAPS

-----------------------------------------------------------------------------
(* Types                                                                   *)

\* The derived status of a task is one of the statuses of tasks.
LEMMA DerivedStatusType ==
    ASSUME NEW cs, NEW t
    PROVE  DerivedStatus(cs, t) \in ActiveStatus \cup {"done", "failed"}
  BY DEF DerivedStatus, ActiveStatus

\* The number of active tasks of a project is a number.
LEMMA ActiveCountType ==
    ASSUME NEW ts, NEW p
    PROVE  Cardinality(ActiveTasks(ts, p)) \in Nat
  <1>1. ActiveTasks(ts, p) \in SUBSET Tasks
    BY DEF ActiveTasks, TasksOf
  <1>2. QED
    BY <1>1, OrchestratorAssumption, FS_Subset, FS_CardinalityType

\* Rows of each kind are rows.
LEMMA RowTypes ==
    /\ \A p \in Projects, r \in ProjectRow : Row("project", p, r) \in Rows
    /\ \A t \in Tasks, r \in TaskRow : Row("task", t, r) \in Rows
    /\ \A c \in Commands, r \in CommandRow : Row("command", c, r) \in Rows
  BY DEF Row, Rows

\* A refresh of an existing task makes a memory and rows of their types.
LEMMA RefreshTypes ==
    ASSUME NEW cs \in [Commands -> CommandRow], NEW ts \in [Tasks -> TaskRow],
           NEW ps \in [Projects -> ProjectRow], NEW t \in Tasks, ts[t].status # "none",
           NEW rows \in Seq(Rows), Refresh(rows, t, cs, ts, ps)
    PROVE  Memory' \in Store /\ outbox' \in Seq(Rows)
  <1> DEFINE refreshed == [ts EXCEPT ![t].status = DerivedStatus(cs, t)]
             p == ts[t].project
             recounted == [ps EXCEPT ![p].active = Cardinality(ActiveTasks(refreshed, p))]
  <1>1. p \in Projects
    BY DEF TaskRow
  <1>2. refreshed \in [Tasks -> TaskRow]
    <2>1. [ts[t] EXCEPT !.status = DerivedStatus(cs, t)] \in TaskRow
      BY DerivedStatusType, <1>1 DEF TaskRow
    <2>2. QED
      BY <2>1
  <1>3. recounted \in [Projects -> ProjectRow]
    <2>1. \A n \in Nat : [ps[p] EXCEPT !.active = n] \in ProjectRow
      BY <1>1 DEF ProjectRow
    <2>2. Cardinality(ActiveTasks(refreshed, p)) \in Nat
      BY ActiveCountType
    <2> HIDE DEF refreshed, p
    <2>3. [ps[p] EXCEPT !.active = Cardinality(ActiveTasks(refreshed, p))] \in ProjectRow
      BY <2>1, <2>2
    <2>4. QED
      BY <2>3, <1>1
  <1>4. /\ commands' = cs /\ tasks' = refreshed /\ projects' = recounted
        /\ outbox' = rows \o <<Row("task", t, refreshed[t]), Row("project", p, recounted[p])>>
    BY DEF Refresh
  <1> HIDE DEF refreshed, p, recounted
  <1>5. Memory' \in Store
    BY <1>2, <1>3, <1>4 DEF Memory, Store
  <1>6. refreshed[t] \in TaskRow /\ recounted[p] \in ProjectRow
    BY <1>1, <1>2, <1>3
  <1>7. Row("task", t, refreshed[t]) \in Rows /\ Row("project", p, recounted[p]) \in Rows
    BY <1>1, <1>6, RowTypes
  <1>8. <<Row("task", t, refreshed[t]), Row("project", p, recounted[p])>> \in Seq(Rows)
    BY <1>7
  <1>9. QED
    BY <1>4, <1>5, <1>8

\* An upsert of a row keeps the store a store.
LEMMA UpsertType ==
    ASSUME NEW store \in Store, NEW r \in Rows
    PROVE  Upsert(store, r) \in Store
  <1>1. CASE r \in [kind : {"project"}, id : Projects, row : ProjectRow]
    BY <1>1 DEF Upsert, Store
  <1>2. CASE r \in [kind : {"task"}, id : Tasks, row : TaskRow]
    BY <1>2 DEF Upsert, Store
  <1>3. CASE r \in [kind : {"command"}, id : Commands, row : CommandRow]
    BY <1>3 DEF Upsert, Store
  <1>4. QED
    BY <1>1, <1>2, <1>3 DEF Rows

-----------------------------------------------------------------------------
(* The invariant                                                           *)

Is(r, kind, id) == r.kind = kind /\ r.id = id

\* Once the rows of `out' are written, the stored row of this entity is `value'.
Kept(out, kind, id, stored, value) ==
    \/ \E i \in DOMAIN out :
            /\ Is(out[i], kind, id) /\ out[i].row = value
            /\ \A j \in DOMAIN out : j > i => ~Is(out[j], kind, id)
    \/ (\A i \in DOMAIN out : ~Is(out[i], kind, id)) /\ stored = value

\* What is in memory is stored, or will be when the outbox is empty.
Persisting ==
    /\ \A p \in Projects : Kept(outbox, "project", p, disk.project[p], projects[p])
    /\ \A t \in Tasks : Kept(outbox, "task", t, disk.task[t], tasks[t])
    /\ \A c \in Commands : Kept(outbox, "command", c, disk.command[c], commands[c])

\* What holds of every version of a command, in memory, stored, or about to be, if `stored'
\* are the stored tasks and n its executions: its task is stored; it is past the approval
\* it needs unless it waits for it; once executed, it never goes back to the queue.
Sound(stored, n, r) ==
    /\ r.status # "none" => stored[r.task].status # "none"
    /\ r.status \notin {"none", "waiting_approval"} /\ r.needs => r.approved
    /\ n > 0 => r.status \in Finished \cup {"running"}

RowsSound ==
    /\ \A c \in Commands : /\ Sound(disk.task, calls[c], commands[c])
                           /\ Sound(disk.task, calls[c], disk.command[c])
    /\ \A i \in DOMAIN outbox :
        /\ outbox[i].kind = "command" => Sound(disk.task, calls[outbox[i].id], outbox[i].row)
        /\ outbox[i].kind = "task" => outbox[i].row.status # "none"

Awaited(c) == \E client \in Clients : co[client].awaits = c

\* A command that is being executed is running; one that is neither being executed nor
\* finished has been executed in earlier lives of the process only.
ExecutionSound ==
    \A c \in Commands :
        /\ Awaited(c) => commands[c].status = "running"
        /\ ~Awaited(c) /\ commands[c].status \notin Finished => calls[c] <= crashes

Inv == TypeOK /\ Persisting /\ RowsSound /\ ExecutionSound /\ ExecutedOncePerLife

\* When nothing is left to be written, the store is the memory.
LEMMA PersistedIsStored ==
    ASSUME TypeOK, Persisting
    PROVE  StoreIsMemory
  <1> SUFFICES ASSUME outbox = <<>> PROVE disk = Memory
    BY DEF StoreIsMemory
  <1>1. /\ \A p \in Projects : disk.project[p] = projects[p]
        /\ \A t \in Tasks : disk.task[t] = tasks[t]
        /\ \A c \in Commands : disk.command[c] = commands[c]
    BY DEF Persisting, Kept
  <1>2. disk.project = projects /\ disk.task = tasks /\ disk.command = commands
    BY <1>1 DEF TypeOK, Memory, Store
  <1>3. QED
    BY <1>2 DEF TypeOK, Memory, Store

\* Between two steps, a command that exists belongs to a task that exists.
LEMMA NoDanglingCommand ==
    ASSUME Inv, outbox = <<>>, NEW c \in Commands, commands[c].status # "none"
    PROVE  commands[c].task \in Tasks /\ tasks[commands[c].task].status # "none"
  <1>1. commands[c] \in CommandRow
    BY DEF Inv, TypeOK, Memory, Store
  <1>2. commands[c].task \in Tasks
    BY <1>1 DEF CommandRow
  <1>3. disk = Memory
    BY PersistedIsStored DEF Inv, StoreIsMemory
  <1>4. disk.task[commands[c].task].status # "none"
    BY DEF Inv, RowsSound, Sound
  <1>5. QED
    BY <1>2, <1>3, <1>4 DEF Memory

\* What Refresh appends, seen row by row.
LEMMA RefreshRows ==
    ASSUME NEW cs, NEW ts \in [Tasks -> TaskRow], NEW ps \in [Projects -> ProjectRow],
           NEW t \in Tasks, ts[t].project \in Projects,
           NEW rows \in Seq(Rows), Refresh(rows, t, cs, ts, ps)
    PROVE  /\ DOMAIN outbox' = 1 .. Len(rows) + 2
           /\ \A i \in 1 .. Len(rows) : outbox'[i] = rows[i]
           /\ outbox'[Len(rows) + 1] = Row("task", t, tasks'[t])
           /\ outbox'[Len(rows) + 2] = Row("project", ts[t].project, projects'[ts[t].project])
           /\ tasks'[t].status = DerivedStatus(cs, t)
           /\ \A u \in Tasks \ {t} : tasks'[u] = ts[u]
           /\ \A q \in Projects \ {ts[t].project} : projects'[q] = ps[q]
           /\ commands' = cs
  <1> DEFINE refreshed == [ts EXCEPT ![t].status = DerivedStatus(cs, t)]
             p == ts[t].project
             recounted == [ps EXCEPT ![p].active = Cardinality(ActiveTasks(refreshed, p))]
             more == <<Row("task", t, refreshed[t]), Row("project", p, recounted[p])>>
  <1>1. /\ commands' = cs /\ tasks' = refreshed /\ projects' = recounted
        /\ outbox' = rows \o more
    BY DEF Refresh
  <1>2. /\ \A u \in Tasks \ {t} : refreshed[u] = ts[u]
        /\ \A q \in Projects \ {p} : recounted[q] = ps[q]
    OBVIOUS
  <1>3. refreshed[t].status = DerivedStatus(cs, t)
    BY DEF TaskRow
  <1> HIDE DEF refreshed, recounted
  <1>4. /\ DOMAIN outbox' = 1 .. Len(rows) + 2
        /\ \A i \in 1 .. Len(rows) : outbox'[i] = rows[i]
        /\ outbox'[Len(rows) + 1] = more[1]
        /\ outbox'[Len(rows) + 2] = more[2]
    <2> HIDE DEF p
    <2>1. Len(more) = 2 /\ Len(rows) \in Nat
      OBVIOUS
    <2>2. more \in Seq({more[1], more[2]})
      OBVIOUS
    <2>3. QED
      BY <1>1, <2>1
  <1>5. QED
    BY <1>1, <1>2, <1>3, <1>4

\* `rows' (at most two) and the memory (cs, ts, ps) that a method hands to Refresh for task t:
\* the rows belong to t, to its project and to the commands that change, nothing else
\* changes, and every version of a command is sound.
Changes(rows, t, cs, ts, ps) ==
    /\ rows \in Seq(Rows) /\ Len(rows) <= 2
    /\ cs \in [Commands -> CommandRow] /\ ts \in [Tasks -> TaskRow]
    /\ ps \in [Projects -> ProjectRow]
    /\ t \in Tasks /\ ts[t].status # "none"
    /\ \A u \in Tasks \ {t} : ts[u] = tasks[u]
    /\ \A q \in Projects \ {ts[t].project} : ps[q] = projects[q]
    /\ \A i \in 1 .. Len(rows) :
        \/ rows[i].kind = "task" /\ rows[i].id = t /\ rows[i].row.status # "none"
        \/ rows[i].kind = "project" /\ rows[i].id = ts[t].project
        \/ rows[i].kind = "command" /\ rows[i].row = cs[rows[i].id]
    /\ \A c \in Commands : \/ \E i \in 1 .. Len(rows) : Is(rows[i], "command", c)
                           \/ cs[c] = commands[c]
    /\ \A c \in Commands : Sound(tasks, calls[c], cs[c])

\* A step that ends with Refresh: all that it has changed is on its way to the store.
LEMMA RefreshKeeps ==
    ASSUME Inv, outbox = <<>>, UNCHANGED <<disk, calls>>,
           NEW rows, NEW t, NEW cs, NEW ts, NEW ps,
           Changes(rows, t, cs, ts, ps), Refresh(rows, t, cs, ts, ps)
    PROVE  /\ Memory' \in Store /\ outbox' \in Seq(Rows)
           /\ Persisting' /\ RowsSound'
  <1> USE DEF Changes
  <1> DEFINE p == ts[t].project
             n == Len(rows)
  <1>1. Memory' \in Store /\ outbox' \in Seq(Rows)
    BY RefreshTypes
  <1>2. p \in Projects /\ n \in Nat
    BY DEF TaskRow
  <1>3. /\ DOMAIN outbox' = 1 .. n + 2
        /\ \A i \in 1 .. n : outbox'[i] = rows[i]
        /\ outbox'[n + 1] = Row("task", t, tasks'[t])
        /\ outbox'[n + 2] = Row("project", p, projects'[p])
        /\ tasks'[t].status = DerivedStatus(cs, t)
        /\ \A u \in Tasks \ {t} : tasks'[u] = ts[u]
        /\ \A q \in Projects \ {p} : projects'[q] = ps[q]
        /\ commands' = cs
    BY RefreshRows, <1>2
  <1>4. /\ \A u \in Tasks : disk'.task[u] = tasks[u]
        /\ \A q \in Projects : disk'.project[q] = projects[q]
        /\ \A c \in Commands : disk'.command[c] = commands[c]
    BY PersistedIsStored DEF Inv, StoreIsMemory, Memory
  <1> HIDE DEF p, n
  <1>5. \A i \in DOMAIN outbox' : i \in 1 .. n \/ i = n + 1 \/ i = n + 2
    <2>1. DOMAIN outbox' = 1 .. n + 2
      BY <1>3
    <2>2. \A i \in 1 .. n + 2 : i \in 1 .. n \/ i = n + 1 \/ i = n + 2
      BY <1>2
    <2>3. QED
      BY <2>1, <2>2
  <1>6. \A q \in Projects : Kept(outbox', "project", q, disk'.project[q], projects'[q])
    <2>1. Kept(outbox', "project", p, disk'.project[p], projects'[p])
      <3>1. n + 2 \in DOMAIN outbox' /\ \A j \in DOMAIN outbox' : ~(j > n + 2)
        BY <1>2, <1>3
      <3>2. QED
        BY <3>1, <1>3 DEF Kept, Is, Row
    <2>2. ASSUME NEW q \in Projects \ {p}
          PROVE  Kept(outbox', "project", q, disk'.project[q], projects'[q])
      <3>1. \A i \in DOMAIN outbox' : ~Is(outbox'[i], "project", q)
        BY <1>3, <1>5 DEF Is, Row, p, n
      <3>2. disk'.project[q] = projects'[q]
        BY <1>3, <1>4 DEF p
      <3>3. QED
        BY <3>1, <3>2 DEF Kept
    <2>3. QED
      BY <2>1, <2>2
  <1>7. \A u \in Tasks : Kept(outbox', "task", u, disk'.task[u], tasks'[u])
    <2>1. Kept(outbox', "task", t, disk'.task[t], tasks'[t])
      <3>1. /\ n + 1 \in DOMAIN outbox'
            /\ \A j \in DOMAIN outbox' : j > n + 1 => j = n + 2
        BY <1>2, <1>3
      <3>2. QED
        BY <3>1, <1>3 DEF Kept, Is, Row
    <2>2. ASSUME NEW u \in Tasks \ {t}
          PROVE  Kept(outbox', "task", u, disk'.task[u], tasks'[u])
      <3>1. \A i \in DOMAIN outbox' : ~Is(outbox'[i], "task", u)
        BY <1>3, <1>5 DEF Is, Row, n
      <3>2. QED
        BY <3>1, <1>3, <1>4 DEF Kept
    <2>3. QED
      BY <2>1, <2>2
  <1>8. ASSUME NEW c \in Commands
        PROVE  Kept(outbox', "command", c, disk'.command[c], commands'[c])
    <2>1. \A i \in DOMAIN outbox' :
            Is(outbox'[i], "command", c) => i \in 1 .. n /\ outbox'[i].row = cs[c]
      BY <1>3, <1>5 DEF Is, Row, n
    <2>2. CASE \E i \in 1 .. n : Is(rows[i], "command", c)
      <3>1. PICK k \in 1 .. n : /\ Is(rows[k], "command", c)
                                /\ \A j \in 1 .. n : Is(rows[j], "command", c) => j <= k
        <4>1. CASE 2 \in 1 .. n /\ Is(rows[2], "command", c)
          BY <1>2, <4>1 DEF n
        <4>2. CASE ~(2 \in 1 .. n /\ Is(rows[2], "command", c))
          <5>1. \A j \in 1 .. n : Is(rows[j], "command", c) => j = 1
            BY <1>2, <4>2 DEF n
          <5>2. QED
            BY <2>2, <5>1
        <4>3. QED
          BY <4>1, <4>2
      <3>2. k \in DOMAIN outbox' /\ Is(outbox'[k], "command", c) /\ outbox'[k].row = cs[c]
        BY <1>2, <1>3, <2>1, <3>1
      <3>3. \A j \in DOMAIN outbox' : j > k => ~Is(outbox'[j], "command", c)
        BY <1>2, <1>3, <2>1, <3>1
      <3>4. QED
        BY <1>3, <3>2, <3>3 DEF Kept
    <2>3. CASE ~\E i \in 1 .. n : Is(rows[i], "command", c)
      <3>1. \A i \in DOMAIN outbox' : ~Is(outbox'[i], "command", c)
        BY <1>3, <2>1, <2>3
      <3>2. cs[c] = commands[c]
        BY <2>3 DEF n
      <3>3. QED
        BY <1>3, <1>4, <3>1, <3>2 DEF Kept
    <2>4. QED
      BY <2>2, <2>3
  <1>9. RowsSound'
    <2>1. \A c \in Commands : /\ Sound(disk'.task, calls'[c], commands'[c])
                              /\ Sound(disk'.task, calls'[c], disk'.command[c])
      <3>1. disk'.task = tasks
        BY PersistedIsStored DEF Inv, StoreIsMemory, Memory
      <3>2. QED
        BY <1>3, <3>1 DEF Inv, RowsSound
    <2>2. ASSUME NEW i \in DOMAIN outbox', outbox'[i].kind = "command"
          PROVE  Sound(disk'.task, calls'[outbox'[i].id], outbox'[i].row)
      <3>1. outbox'[i] \in Rows
        BY <1>1
      <3>2. outbox'[i].id \in Commands
        BY <2>2, <3>1 DEF Rows
      <3>3. outbox'[i].row = commands'[outbox'[i].id]
        BY <1>3, <1>5, <2>2 DEF Row, n
      <3>4. QED
        BY <2>1, <3>2, <3>3
    <2>3. ASSUME NEW i \in DOMAIN outbox', outbox'[i].kind = "task"
          PROVE  outbox'[i].row.status # "none"
      <3>1. CASE i \in 1 .. n
        BY <1>3, <2>3, <3>1 DEF n
      <3>2. CASE i = n + 1
        BY <1>3, <3>2, DerivedStatusType DEF Row, ActiveStatus
      <3>3. CASE i = n + 2
        BY <1>3, <2>3, <3>3 DEF Row
      <3>4. QED
        BY <1>5, <3>1, <3>2, <3>3
    <2>4. QED
      BY <2>1, <2>2, <2>3 DEF RowsSound
  <1>10. QED
    BY <1>1, <1>6, <1>7, <1>8, <1>9 DEF Persisting

-----------------------------------------------------------------------------
(* The store                                                               *)

\* Writing the first row of the outbox.
LEMMA FlushKept ==
    ASSUME NEW out \in Seq(Rows), out # <<>>, NEW kind, NEW id, NEW stored, NEW value,
           Kept(out, kind, id, stored, value)
    PROVE  Kept(Tail(out), kind, id,
                IF Is(Head(out), kind, id) THEN Head(out).row ELSE stored, value)
  <1>1. /\ Len(out) \in Nat \ {0} /\ DOMAIN out = 1 .. Len(out)
        /\ DOMAIN Tail(out) = 1 .. Len(out) - 1
        /\ \A i \in 1 .. Len(out) - 1 : Tail(out)[i] = out[i + 1]
        /\ Head(out) = out[1]
    OBVIOUS
  <1>2. \A i \in DOMAIN Tail(out) : i + 1 \in DOMAIN out /\ i \in Nat /\ Tail(out)[i] = out[i + 1]
    BY <1>1
  <1>3. CASE \E i \in DOMAIN out : /\ Is(out[i], kind, id) /\ out[i].row = value
                                   /\ \A j \in DOMAIN out : j > i => ~Is(out[j], kind, id)
    <2>1. PICK i \in DOMAIN out : /\ Is(out[i], kind, id) /\ out[i].row = value
                                  /\ \A j \in DOMAIN out : j > i => ~Is(out[j], kind, id)
      BY <1>3
    <2>2. CASE i = 1
      <3>1. \A j \in DOMAIN Tail(out) : ~Is(Tail(out)[j], kind, id)
        <4>1. \A j \in DOMAIN Tail(out) : j + 1 > 1
          BY <1>1
        <4>2. QED
          BY <1>2, <2>1, <2>2, <4>1
      <3>2. QED
        BY <1>1, <2>1, <2>2, <3>1 DEF Kept
    <2>3. CASE i # 1
      <3>1. i - 1 \in DOMAIN Tail(out) /\ Tail(out)[i - 1] = out[i]
        BY <1>1, <2>3
      <3>2. ASSUME NEW j \in DOMAIN Tail(out), j > i - 1
            PROVE  ~Is(Tail(out)[j], kind, id)
        <4>1. j + 1 \in DOMAIN out /\ j + 1 > i /\ Tail(out)[j] = out[j + 1]
          BY <1>1, <3>2
        <4>2. QED
          BY <2>1, <4>1
      <3>3. QED
        BY <2>1, <3>1, <3>2 DEF Kept
    <2>4. QED
      BY <2>2, <2>3
  <1>4. CASE (\A i \in DOMAIN out : ~Is(out[i], kind, id)) /\ stored = value
    <2>1. ~Is(Head(out), kind, id)
      BY <1>1, <1>4
    <2>2. \A j \in DOMAIN Tail(out) : ~Is(Tail(out)[j], kind, id)
      BY <1>2, <1>4
    <2>3. QED
      BY <1>4, <2>1, <2>2 DEF Kept
  <1>5. QED
    BY <1>3, <1>4 DEF Kept

\* What an upsert makes of each row.
LEMMA UpsertRow ==
    ASSUME NEW store \in Store, NEW r \in Rows
    PROVE  /\ \A p \in Projects : Upsert(store, r).project[p] =
                    IF Is(r, "project", p) THEN r.row ELSE store.project[p]
           /\ \A t \in Tasks : Upsert(store, r).task[t] =
                    IF Is(r, "task", t) THEN r.row ELSE store.task[t]
           /\ \A c \in Commands : Upsert(store, r).command[c] =
                    IF Is(r, "command", c) THEN r.row ELSE store.command[c]
  <1>1. CASE r \in [kind : {"project"}, id : Projects, row : ProjectRow]
    BY <1>1 DEF Upsert, Store, Is
  <1>2. CASE r \in [kind : {"task"}, id : Tasks, row : TaskRow]
    BY <1>2 DEF Upsert, Store, Is
  <1>3. CASE r \in [kind : {"command"}, id : Commands, row : CommandRow]
    BY <1>3 DEF Upsert, Store, Is
  <1>4. QED
    BY <1>1, <1>2, <1>3 DEF Rows

\* Flush writes the row that the memory has been waiting for.
LEMMA FlushInv ==
    ASSUME Inv, Flush PROVE Inv'
  <1>1. /\ outbox \in Seq(Rows) /\ outbox # <<>> /\ disk \in Store
        /\ disk' = Upsert(disk, Head(outbox)) /\ outbox' = Tail(outbox)
    BY DEF Inv, TypeOK, Flush
  <1>2. Head(outbox) \in Rows /\ outbox' \in Seq(Rows)
    BY <1>1
  <1>3. /\ \A p \in Projects : disk'.project[p] =
              IF Is(Head(outbox), "project", p) THEN Head(outbox).row ELSE disk.project[p]
        /\ \A t \in Tasks : disk'.task[t] =
              IF Is(Head(outbox), "task", t) THEN Head(outbox).row ELSE disk.task[t]
        /\ \A c \in Commands : disk'.command[c] =
              IF Is(Head(outbox), "command", c) THEN Head(outbox).row ELSE disk.command[c]
    BY <1>1, <1>2, UpsertRow
  <1>4. /\ UNCHANGED <<projects, tasks, commands, lock, co, up, calls, crashes>>
    BY DEF Flush, memory
  <1>5. TypeOK'
    BY <1>1, <1>2, <1>4, UpsertType DEF Inv, TypeOK, Memory
  <1>6. Persisting'
    <2>1. ASSUME NEW p \in Projects
          PROVE  Kept(outbox', "project", p, disk'.project[p], projects[p])
      BY <1>1, <1>3, FlushKept DEF Inv, Persisting
    <2>2. ASSUME NEW t \in Tasks
          PROVE  Kept(outbox', "task", t, disk'.task[t], tasks[t])
      BY <1>1, <1>3, FlushKept DEF Inv, Persisting
    <2>3. ASSUME NEW c \in Commands
          PROVE  Kept(outbox', "command", c, disk'.command[c], commands[c])
      BY <1>1, <1>3, FlushKept DEF Inv, Persisting
    <2>4. QED
      BY <1>4, <2>1, <2>2, <2>3 DEF Persisting
  <1>7. RowsSound'
    <2>1. 1 \in DOMAIN outbox /\ Head(outbox) = outbox[1]
      BY <1>1
    <2>2. \A t \in Tasks : disk.task[t].status # "none" => disk'.task[t].status # "none"
      BY <1>3, <2>1 DEF Inv, RowsSound, Is
    <2>3. ASSUME NEW r \in CommandRow, NEW n, Sound(disk.task, n, r)
          PROVE  Sound(disk'.task, n, r)
      BY <2>2, <2>3 DEF Sound, CommandRow
    <2>4. ASSUME NEW c \in Commands
          PROVE  Sound(disk'.task, calls[c], commands[c]) /\ Sound(disk'.task, calls[c], disk'.command[c])
      <3>1. commands[c] \in CommandRow /\ disk.command[c] \in CommandRow
        BY DEF Inv, TypeOK, Memory, Store
      <3>2. CASE Is(Head(outbox), "command", c)
        <4>1. Head(outbox).row \in CommandRow
          BY <1>2, <3>2 DEF Rows, Is
        <4>2. Sound(disk.task, calls[c], Head(outbox).row)
          BY <2>1, <3>2 DEF Inv, RowsSound, Is
        <4>3. QED
          BY <1>3, <2>3, <3>1, <3>2, <4>1, <4>2 DEF Inv, RowsSound
      <3>3. CASE ~Is(Head(outbox), "command", c)
        BY <1>3, <2>3, <3>1, <3>3 DEF Inv, RowsSound
      <3>4. QED
        BY <3>2, <3>3
    <2>5. ASSUME NEW i \in DOMAIN outbox'
          PROVE  /\ outbox'[i].kind = "command" =>
                        Sound(disk'.task, calls[outbox'[i].id], outbox'[i].row)
                 /\ outbox'[i].kind = "task" => outbox'[i].row.status # "none"
      <3>1. PICK k \in DOMAIN outbox : outbox'[i] = outbox[k]
        <4>1. i + 1 \in DOMAIN outbox /\ outbox'[i] = outbox[i + 1]
          BY <1>1
        <4>2. QED
          BY <4>1
      <3>2. outbox[k] \in Rows
        BY <1>1
      <3>3. outbox[k].kind = "command" => outbox[k].row \in CommandRow
        BY <3>2 DEF Rows
      <3>4. QED
        BY <2>3, <3>1, <3>3 DEF Inv, RowsSound
    <2>6. QED
      BY <1>4, <2>4, <2>5 DEF RowsSound
  <1>8. QED
    BY <1>4, <1>5, <1>6, <1>7 DEF Inv, ExecutionSound, Awaited, ExecutedOncePerLife

\* A restart finds in the store what the invariant allows of a memory.
LEMMA CrashInv ==
    ASSUME Inv, Crash PROVE Inv'
  <1>1. /\ projects' = disk.project /\ tasks' = disk.task /\ commands' = disk.command
        /\ outbox' = <<>> /\ lock' = NoClient /\ co' = [c \in Clients |-> Idle]
        /\ disk' = disk /\ calls' = calls /\ crashes' = crashes + 1 /\ up' = Loads
    BY DEF Crash
  <1>2. /\ disk \in Store /\ calls \in [Commands -> Nat] /\ crashes \in Nat
    BY DEF Inv, TypeOK
  <1>3. TypeOK'
    <2>1. Memory' \in Store
      BY <1>1, <1>2 DEF Memory, Store
    <2>2. co' \in [Clients -> [todo : SUBSET Commands, awaits : Commands \cup {NoCommand}]]
      BY <1>1 DEF Idle
    <2>3. up' \in BOOLEAN
      BY <1>1 DEF Loads
    <2>4. QED
      BY <1>1, <1>2, <2>1, <2>2, <2>3 DEF TypeOK
  <1>4. Persisting'
    BY <1>1 DEF Persisting, Kept
  <1>5. RowsSound'
    BY <1>1 DEF Inv, RowsSound
  <1>6. \A c \in Commands : ~Awaited(c)'
    BY <1>1, OrchestratorAssumption DEF Awaited, Idle
  <1>7. \A c \in Commands : calls'[c] <= crashes'
    BY <1>1, <1>2 DEF Inv, ExecutedOncePerLife
  <1>8. ExecutionSound'
    BY <1>6, <1>7 DEF ExecutionSound
  <1>9. ExecutedOncePerLife'
    BY <1>1, <1>2, <1>7 DEF ExecutedOncePerLife
  <1>10. QED
    BY <1>3, <1>4, <1>5, <1>8, <1>9 DEF Inv

-----------------------------------------------------------------------------
(* Methods that do not await                                               *)

\* While nobody holds the lock, no command is being executed.
LEMMA UnlockedNotAwaited ==
    ASSUME Inv, lock = NoClient
    PROVE  \A c \in Commands : ~Awaited(c)
  <1>1. \A client \in Clients : co[client] = Idle
    BY OrchestratorAssumption DEF Inv, TypeOK
  <1>2. QED
    BY <1>1, OrchestratorAssumption DEF Awaited, Idle

\* A new row is of the type of rows, and sound if its task is stored.
LEMMA CreatedRow ==
    ASSUME NEW t \in Tasks, NEW needs \in BOOLEAN
    PROVE  /\ Created(t, needs) \in CommandRow
           /\ Created(t, needs).status \in {"queued", "waiting_approval"}
           /\ tasks[t].status # "none" => Sound(tasks, 0, Created(t, needs))
  BY DEF Created, CommandRow, Sound, Finished

\* The types of the memory and the counters, for citing.
LEMMA Types ==
    ASSUME Inv
    PROVE  /\ projects \in [Projects -> ProjectRow] /\ tasks \in [Tasks -> TaskRow]
           /\ commands \in [Commands -> CommandRow]
           /\ calls \in [Commands -> Nat] /\ crashes \in Nat
           /\ co \in [Clients -> [todo : SUBSET Commands, awaits : Commands \cup {NoCommand}]]
  BY DEF Inv, TypeOK, Memory, Store

\* A new project changes and persists nothing but its own row.
LEMMA CreateProjectInv ==
    ASSUME Inv, NEW p \in Projects, CreateProject(p) PROVE Inv'
  <1> DEFINE row == [projects[p] EXCEPT !.exists = TRUE]
  <1>1. /\ outbox = <<>> /\ projects' = [projects EXCEPT ![p] = row]
        /\ outbox' = <<Row("project", p, projects'[p])>>
        /\ UNCHANGED <<tasks, commands, disk, lock, co, up, calls, crashes>>
    BY DEF CreateProject, Unlocked, EventLoopFree
  <1>2. row \in ProjectRow
    <2>1. projects[p] \in ProjectRow
      BY Types
    <2>2. QED
      BY <2>1 DEF ProjectRow
  <1> HIDE DEF row
  <1>3. /\ projects' \in [Projects -> ProjectRow] /\ projects'[p] = row
        /\ \A q \in Projects \ {p} : projects'[q] = projects[q]
    BY <1>1, <1>2, Types
  <1>4. Row("project", p, row) \in Rows
    BY <1>2, RowTypes
  <1>5. outbox' \in Seq(Rows) /\ DOMAIN outbox' = {1} /\ outbox'[1] = Row("project", p, row)
    BY <1>1, <1>3, <1>4
  <1>6. TypeOK'
    BY <1>1, <1>3, <1>5 DEF Inv, TypeOK, Memory, Store
  <1>7. disk = Memory
    BY <1>1, PersistedIsStored DEF Inv, StoreIsMemory
  <1>8. Persisting'
    <2>1. \A q \in Projects : Kept(outbox', "project", q, disk.project[q], projects'[q])
      BY <1>3, <1>5, <1>7 DEF Kept, Is, Row, Memory
    <2>2. \A t \in Tasks : Kept(outbox', "task", t, disk.task[t], tasks[t])
      BY <1>5, <1>7 DEF Kept, Is, Row, Memory
    <2>3. \A c \in Commands : Kept(outbox', "command", c, disk.command[c], commands[c])
      BY <1>5, <1>7 DEF Kept, Is, Row, Memory
    <2>4. QED
      BY <1>1, <2>1, <2>2, <2>3 DEF Persisting
  <1>9. RowsSound'
    BY <1>1, <1>5 DEF Inv, RowsSound, Row
  <1>10. QED
    BY <1>1, <1>6, <1>8, <1>9 DEF Inv, ExecutionSound, Awaited, ExecutedOncePerLife

\* A new task persists itself and its counted project before the refresh does.
LEMMA CreateTaskInv ==
    ASSUME Inv, NEW t \in Tasks, NEW p \in Projects, CreateTask(t, p) PROVE Inv'
  <1> DEFINE row == [NewTask EXCEPT !.project = p, !.status = "todo"]
             ts == [tasks EXCEPT ![t] = row]
             ps == [projects EXCEPT ![p].taskCount = @ + 1]
             rows == <<Row("task", t, ts[t]), Row("project", p, ps[p])>>
  <1>1. /\ outbox = <<>> /\ lock = NoClient /\ Refresh(rows, t, commands, ts, ps)
        /\ UNCHANGED <<disk, lock, co, up, calls, crashes>>
    BY DEF CreateTask, Unlocked, EventLoopFree
  <1>2. row \in TaskRow /\ row.status = "todo" /\ row.project = p
    BY DEF NewTask, TaskRow, ActiveStatus
  <1>3. ps \in [Projects -> ProjectRow] /\ \A q \in Projects \ {p} : ps[q] = projects[q]
    <2>1. [projects[p] EXCEPT !.taskCount = @ + 1] \in ProjectRow
      BY Types DEF ProjectRow
    <2>2. QED
      BY <2>1, Types
  <1> HIDE DEF row, ps
  <1>4. /\ ts \in [Tasks -> TaskRow] /\ ts[t] = row
        /\ \A u \in Tasks \ {t} : ts[u] = tasks[u]
    BY <1>2, Types
  <1> HIDE DEF ts
  <1>5. Row("task", t, ts[t]) \in Rows /\ Row("project", p, ps[p]) \in Rows
    BY <1>2, <1>3, <1>4, RowTypes
  <1>6. /\ rows \in Seq(Rows) /\ Len(rows) = 2
        /\ rows[1] = Row("task", t, ts[t]) /\ rows[2] = Row("project", p, ps[p])
    BY <1>5
  <1> HIDE DEF rows
  <1>7. \A i \in 1 .. Len(rows) :
            \/ rows[i].kind = "task" /\ rows[i].id = t /\ rows[i].row.status # "none"
            \/ rows[i].kind = "project" /\ rows[i].id = ts[t].project
            \/ rows[i].kind = "command" /\ rows[i].row = commands[rows[i].id]
    BY <1>2, <1>4, <1>6 DEF Row
  <1>8. \A c \in Commands : Sound(tasks, calls[c], commands[c])
    BY <1>1, PersistedIsStored DEF Inv, StoreIsMemory, Memory, RowsSound
  <1>9. Memory' \in Store /\ outbox' \in Seq(Rows) /\ Persisting' /\ RowsSound'
    <2>1. /\ commands \in [Commands -> CommandRow] /\ ts[t].status # "none" /\ Len(rows) <= 2
          /\ \A q \in Projects \ {ts[t].project} : ps[q] = projects[q]
      BY <1>2, <1>3, <1>4, <1>6, Types
    <2>2. Changes(rows, t, commands, ts, ps)
      BY <1>3, <1>4, <1>6, <1>7, <1>8, <2>1 DEF Changes
    <2>3. QED
      BY <1>1, <2>2, RefreshKeeps
  <1>10. commands' = commands
    BY <1>1 DEF Refresh
  <1>11. TypeOK'
    BY <1>1, <1>9 DEF Inv, TypeOK
  <1>12. QED
    BY <1>1, <1>9, <1>10, <1>11 DEF Inv, ExecutionSound, Awaited, ExecutedOncePerLife

\* What every change of one command c to row `row' by a step on its task has in common.
LEMMA CommandStep ==
    ASSUME Inv, outbox = <<>>, NEW c \in Commands, NEW row \in CommandRow,
           row.status # "none", tasks[row.task].status # "none",
           NEW ts \in [Tasks -> TaskRow], ts[row.task].status # "none",
           \A u \in Tasks \ {row.task} : ts[u] = tasks[u],
           NEW rows \in Seq(Rows), rows[1] = Row("command", c, row),
           \/ Len(rows) = 1
           \/ Len(rows) = 2 /\ rows[2] = Row("command", c, row)
           \/ Len(rows) = 2 /\ rows[2] = Row("task", row.task, ts[row.task]),
           Refresh(rows, row.task, [commands EXCEPT ![c] = row], ts, projects),
           UNCHANGED <<disk, calls>>, Sound(tasks, calls[c], row)
    PROVE  /\ Memory' \in Store /\ outbox' \in Seq(Rows) /\ Persisting' /\ RowsSound'
           /\ commands' = [commands EXCEPT ![c] = row]
  <1> DEFINE cs == [commands EXCEPT ![c] = row]
  <1>1. /\ cs \in [Commands -> CommandRow] /\ cs[c] = row
        /\ \A d \in Commands \ {c} : cs[d] = commands[d]
    BY Types
  <1>2. commands' = cs
    BY DEF Refresh
  <1> HIDE DEF cs
  <1>3. row.task \in Tasks
    BY DEF CommandRow
  <1>4. \A d \in Commands : Sound(tasks, calls[d], commands[d])
    BY PersistedIsStored DEF Inv, StoreIsMemory, Memory, RowsSound
  <1>5. \A d \in Commands : Sound(tasks, calls[d], cs[d])
    BY <1>1, <1>4
  <1>6. \A i \in 1 .. Len(rows) :
            \/ /\ rows[i].kind = "task" /\ rows[i].id = row.task
               /\ rows[i].row.status # "none"
            \/ rows[i].kind = "project" /\ rows[i].id = ts[row.task].project
            \/ rows[i].kind = "command" /\ rows[i].row = cs[rows[i].id]
    BY <1>1 DEF Row
  <1>7. \A d \in Commands : \/ \E i \in 1 .. Len(rows) : Is(rows[i], "command", d)
                            \/ cs[d] = commands[d]
    BY <1>1 DEF Row, Is
  <1>8. Refresh(rows, row.task, cs, ts, projects)
    BY DEF cs
  <1>9. Len(rows) <= 2
    <2>1. 1 <= 2 /\ 2 <= 2
      OBVIOUS
    <2>2. CASE Len(rows) = 1
      BY <2>1, <2>2, Zenon
    <2>3. CASE Len(rows) = 2
      BY <2>1, <2>3, Zenon
    <2>4. QED
      BY <2>2, <2>3, Zenon
  <1>10. projects \in [Projects -> ProjectRow]
    BY Types
  <1>11. Memory' \in Store /\ outbox' \in Seq(Rows) /\ Persisting' /\ RowsSound'
    <2>1. Changes(rows, row.task, cs, ts, projects)
      BY <1>1, <1>3, <1>5, <1>6, <1>7, <1>9, <1>10 DEF Changes
    <2>2. QED
      BY <1>8, <2>1, RefreshKeeps
  <1>12. QED
    BY <1>2, <1>11 DEF cs

\* A command that waits, for approval or in the queue, has never been executed.
LEMMA NotExecuted ==
    ASSUME Inv, NEW c \in Commands, commands[c].status \in {"none", "queued", "waiting_approval"}
    PROVE  calls[c] = 0
  <1>1. ~(calls[c] > 0)
    BY DEF Inv, RowsSound, Sound, Finished
  <1>2. QED
    BY <1>1, Types

\* A new command has never been executed, and its task is stored.
LEMMA CreateCommandInv ==
    ASSUME Inv, NEW c \in Commands, NEW t \in Tasks, NEW needs \in BOOLEAN,
           CreateCommand(c, t, needs)
    PROVE  Inv'
  <1> DEFINE row == Created(t, needs)
             ts == [tasks EXCEPT ![t].count = @ + 1]
             cs == [commands EXCEPT ![c] = row]
             rows == <<Row("command", c, cs[c]), Row("task", t, ts[t])>>
  <1>1. /\ outbox = <<>> /\ lock = NoClient /\ commands[c].status = "none"
        /\ tasks[t].status # "none" /\ Refresh(rows, t, cs, ts, projects)
        /\ UNCHANGED <<disk, lock, co, up, calls, crashes>>
    BY DEF CreateCommand, Unlocked, EventLoopFree
  <1>2. row \in CommandRow /\ row.task = t /\ row.status \in {"queued", "waiting_approval"}
    BY CreatedRow DEF Created
  <1>3. /\ ts \in [Tasks -> TaskRow] /\ ts[t].status = tasks[t].status
        /\ \A u \in Tasks \ {t} : ts[u] = tasks[u]
    <2>1. tasks[t] \in TaskRow
      BY Types
    <2>2. /\ [tasks[t] EXCEPT !.count = @ + 1] \in TaskRow
          /\ [tasks[t] EXCEPT !.count = @ + 1].status = tasks[t].status
      BY <2>1 DEF TaskRow
    <2>3. QED
      BY <2>2, Types
  <1>4. calls[c] = 0 /\ Sound(tasks, calls[c], row)
    <2>1. calls[c] = 0
      BY <1>1, NotExecuted
    <2>2. QED
      BY <1>1, <2>1, CreatedRow
  <1>5. cs[c] = row
    BY Types
  <1> HIDE DEF row, ts
  <1>6. Row("command", c, row) \in Rows /\ Row("task", t, ts[t]) \in Rows
    BY <1>2, <1>3, RowTypes
  <1>7. /\ rows \in Seq(Rows) /\ Len(rows) = 2
        /\ rows[1] = Row("command", c, row) /\ rows[2] = Row("task", t, ts[t])
    BY <1>5, <1>6
  <1> HIDE DEF rows
  <1>8. row.status # "none"
    BY <1>2
  <1>9. /\ Memory' \in Store /\ outbox' \in Seq(Rows) /\ Persisting' /\ RowsSound'
        /\ commands' = cs
    BY <1>1, <1>2, <1>3, <1>4, <1>7, <1>8, CommandStep
  <1>10. \A d \in Commands : ~Awaited(d) /\ ~Awaited(d)'
    BY <1>1, UnlockedNotAwaited DEF Awaited
  <1>11. ExecutionSound'
    <2>1. \A d \in Commands : calls[d] <= crashes \/ commands'[d].status \in Finished
      <3>1. calls[c] <= crashes
        BY <1>4, Types
      <3>2. \A d \in Commands \ {c} : commands'[d] = commands[d]
        BY <1>9
      <3>3. \A d \in Commands \ {c} : calls[d] <= crashes \/ commands[d].status \in Finished
        BY <1>10 DEF Inv, ExecutionSound
      <3>4. QED
        BY <3>1, <3>2, <3>3
    <2>2. QED
      BY <1>1, <1>10, <2>1 DEF ExecutionSound
  <1>12. QED
    BY <1>1, <1>9, <1>11 DEF Inv, TypeOK, ExecutedOncePerLife

\* A command may change its status: to another of those it has before it is finished.
LEMMA MoveRow ==
    ASSUME Inv, outbox = <<>>, NEW c \in Commands, NEW row \in CommandRow,
           commands[c].status # "none", row.task = commands[c].task, row.status # "none"
    PROVE  /\ row.task \in Tasks /\ tasks[row.task].status # "none"
           /\ Row("command", c, row) \in Rows
  BY NoDanglingCommand, RowTypes

\* Approval puts a command that was never executed into the queue, approved.
LEMMA ApproveCommandInv ==
    ASSUME Inv, NEW c \in Commands, ApproveCommand(c) PROVE Inv'
  <1> DEFINE row == [commands[c] EXCEPT !.status = "queued", !.approved = TRUE]
             cs == [commands EXCEPT ![c].status = "queued", ![c].approved = TRUE]
             rows == <<Row("command", c, cs[c])>>
  <1>1. /\ outbox = <<>> /\ lock = NoClient /\ commands[c].status = "waiting_approval"
        /\ Refresh(rows, cs[c].task, cs, tasks, projects)
        /\ UNCHANGED <<disk, lock, co, up, calls, crashes>>
    BY DEF ApproveCommand, Unlocked, EventLoopFree
  <1>2. /\ row \in CommandRow /\ row.task = commands[c].task
        /\ row.status = "queued" /\ row.approved
    <2>1. commands[c] \in CommandRow
      BY Types
    <2>2. QED
      BY <1>1, <2>1 DEF CommandRow
  <1>3. cs = [commands EXCEPT ![c] = row] /\ cs[c] = row
    BY Types
  <1>4. calls[c] = 0
    BY <1>1, NotExecuted
  <1> HIDE DEF row, cs
  <1>5. /\ row.task \in Tasks /\ tasks[row.task].status # "none"
        /\ Row("command", c, row) \in Rows
    BY <1>1, <1>2, MoveRow
  <1>6. Sound(tasks, calls[c], row)
    BY <1>2, <1>4, <1>5 DEF Sound
  <1>7. rows \in Seq(Rows) /\ Len(rows) = 1 /\ rows[1] = Row("command", c, row)
    BY <1>3, <1>5
  <1> HIDE DEF rows
  <1>8. /\ Memory' \in Store /\ outbox' \in Seq(Rows) /\ Persisting' /\ RowsSound'
        /\ commands' = cs
    <2>1. row.status # "none" /\ Refresh(rows, row.task, [commands EXCEPT ![c] = row], tasks, projects)
      BY <1>1, <1>2, <1>3
    <2>2. tasks \in [Tasks -> TaskRow]
      BY Types
    <2>3. QED
      BY <1>1, <1>2, <1>3, <1>5, <1>6, <1>7, <2>1, <2>2, CommandStep
  <1>9. \A d \in Commands : ~Awaited(d) /\ ~Awaited(d)'
    BY <1>1, UnlockedNotAwaited DEF Awaited
  <1>10. ExecutionSound'
    <2>1. \A d \in Commands \ {c} : commands'[d] = commands[d]
      BY <1>3, <1>8
    <2>2. calls[c] <= crashes
      BY <1>4, Types
    <2>3. QED
      BY <1>1, <1>9, <2>1, <2>2 DEF Inv, ExecutionSound
  <1>11. QED
    BY <1>1, <1>8, <1>10 DEF Inv, TypeOK, ExecutedOncePerLife

-----------------------------------------------------------------------------
(* Methods that advance commands                                           *)

\* The coroutine that holds the lock and does not await is the only one at work.
LEMMA HolderNotAwaited ==
    ASSUME Inv, NEW client \in Clients, lock = client, co[client].awaits = NoCommand
    PROVE  \A c \in Commands : ~Awaited(c)
  <1>1. \A other \in Clients \ {client} : co[other] = Idle
    BY OrchestratorAssumption DEF Inv, TypeOK
  <1>2. QED
    BY <1>1, OrchestratorAssumption DEF Awaited, Idle

\* A step that changes nothing but the lock and what is left to be advanced.
LEMMA BookkeepingInv ==
    ASSUME Inv, UNCHANGED <<memory, disk, outbox, up, calls, crashes>>,
           lock' \in Clients \cup {NoClient},
           co' \in [Clients -> [todo : SUBSET Commands, awaits : Commands \cup {NoCommand}]],
           \A client \in Clients : co'[client] # Idle => lock' = client,
           \A client \in Clients : co'[client].awaits = co[client].awaits
    PROVE  Inv'
  <1>1. UNCHANGED <<projects, tasks, commands>>
    BY DEF memory
  <1>2. TypeOK'
    BY <1>1 DEF Inv, TypeOK, Memory
  <1>3. Persisting' /\ RowsSound'
    BY <1>1 DEF Inv, Persisting, RowsSound
  <1>4. \A c \in Commands : Awaited(c)' <=> Awaited(c)
    BY DEF Awaited
  <1>5. QED
    BY <1>1, <1>2, <1>3, <1>4 DEF Inv, ExecutionSound, ExecutedOncePerLife

\* Taking the lock, while nobody else is at work.
LEMMA ReadInv ==
    ASSUME Inv, NEW client \in Clients, NEW scope \in Scopes, Read(client, scope) PROVE Inv'
  <1>1. /\ lock = NoClient /\ lock' = client
        /\ co' = [co EXCEPT ![client].todo = scope \cap Existing]
        /\ UNCHANGED <<memory, disk, outbox, up, calls, crashes>>
    BY DEF Read, Unlocked
  <1>2. scope \cap Existing \in SUBSET Commands
    BY DEF Existing
  <1>3. \A other \in Clients : co[other] = Idle
    BY <1>1, OrchestratorAssumption DEF Inv, TypeOK
  <1>4. /\ co' \in [Clients -> [todo : SUBSET Commands, awaits : Commands \cup {NoCommand}]]
        /\ \A other \in Clients \ {client} : co'[other] = co[other]
        /\ co'[client].awaits = co[client].awaits
    BY <1>1, <1>2, Types
  <1>5. QED
    BY <1>1, <1>3, <1>4, BookkeepingInv

\* A command that is left alone.
LEMMA AdvanceSkipInv ==
    ASSUME Inv, NEW client \in Clients, NEW c \in Commands, AdvanceSkip(client, c) PROVE Inv'
  <1>1. /\ lock = client /\ co' = [co EXCEPT ![client].todo = @ \ {c}]
        /\ UNCHANGED <<memory, disk, outbox, lock, up, calls, crashes>>
    BY DEF AdvanceSkip, Advancing
  <1>2. /\ co' \in [Clients -> [todo : SUBSET Commands, awaits : Commands \cup {NoCommand}]]
        /\ \A other \in Clients \ {client} : co'[other] = co[other]
        /\ co'[client].awaits = co[client].awaits
    BY <1>1, Types
  <1>3. QED
    BY <1>1, <1>2, BookkeepingInv DEF Inv, TypeOK

\* Giving back the lock when nothing is left to advance.
LEMMA ReleaseInv ==
    ASSUME Inv, NEW client \in Clients, Release(client) PROVE Inv'
  <1>1. /\ lock = client /\ lock' = NoClient /\ co[client] = Idle
        /\ UNCHANGED <<memory, disk, outbox, co, up, calls, crashes>>
    BY DEF Release
  <1>2. \A other \in Clients : co'[other] = Idle
    BY <1>1 DEF Inv, TypeOK
  <1>3. QED
    BY <1>1, <1>2, Types, BookkeepingInv

\* Execution starts with the lock held, so that nobody else executes the command: this is
\* where the bound on the executions comes from.
LEMMA AdvanceExecuteInv ==
    ASSUME Inv, NEW client \in Clients, NEW c \in Commands, AdvanceExecute(client, c)
    PROVE  Inv'
  <1>1. /\ lock = client /\ co[client].awaits = NoCommand /\ commands[c].status = "running"
        /\ co' = [co EXCEPT ![client].todo = @ \ {c}, ![client].awaits = c]
        /\ calls' = [calls EXCEPT ![c] = @ + 1]
        /\ UNCHANGED <<projects, tasks, commands, disk, outbox, lock, up, crashes>>
        /\ outbox = <<>>
    BY DEF AdvanceExecute, Advancing, EventLoopFree, memory
  <1>2. \A d \in Commands : ~Awaited(d)
    BY <1>1, HolderNotAwaited
  <1>3. /\ co' \in [Clients -> [todo : SUBSET Commands, awaits : Commands \cup {NoCommand}]]
        /\ \A other \in Clients \ {client} : co'[other] = co[other]
        /\ co'[client].awaits = c
    BY <1>1, Types
  <1>4. /\ calls' \in [Commands -> Nat] /\ calls'[c] = calls[c] + 1
        /\ \A d \in Commands \ {c} : calls'[d] = calls[d]
    BY <1>1, Types
  <1>5. TypeOK'
    BY <1>1, <1>3, <1>4 DEF Inv, TypeOK, Memory
  <1>6. Persisting'
    BY <1>1 DEF Inv, Persisting
  <1>7. RowsSound'
    <2>1. disk = Memory
      BY <1>1, PersistedIsStored DEF Inv, StoreIsMemory
    <2>2. \A d \in Commands : Sound(disk.task, calls'[d], commands[d])
      BY <1>1, <1>4 DEF Inv, RowsSound, Sound
    <2>3. DOMAIN outbox' = {}
      BY <1>1
    <2>4. QED
      BY <1>1, <2>1, <2>2, <2>3 DEF RowsSound, Memory
  <1>8. calls[c] <= crashes
    BY <1>1, <1>2 DEF Inv, ExecutionSound, Finished
  <1>9. \A d \in Commands : Awaited(d)' => d = c
    <2>1. ASSUME NEW d \in Commands, Awaited(d)' PROVE d = c
      <3>1. PICK other \in Clients : co'[other].awaits = d
        BY <2>1 DEF Awaited
      <3>2. other = client
        BY <1>2, <1>3, <3>1 DEF Awaited
      <3>3. QED
        BY <1>3, <3>1, <3>2
    <2>2. QED
      BY <2>1
  <1>10. Awaited(c)'
    BY <1>3 DEF Awaited
  <1>11. ExecutionSound'
    <2>1. ASSUME NEW d \in Commands, ~Awaited(d)', commands[d].status \notin Finished
          PROVE  calls'[d] <= crashes
      <3>1. d # c
        BY <1>10, <2>1
      <3>2. calls[d] <= crashes
        BY <1>2, <2>1 DEF Inv, ExecutionSound
      <3>3. QED
        BY <1>4, <3>1, <3>2
    <2>2. QED
      BY <1>1, <1>9, <2>1 DEF ExecutionSound
  <1>12. ExecutedOncePerLife'
    BY <1>1, <1>4, <1>8, Types DEF Inv, ExecutedOncePerLife
  <1>13. QED
    BY <1>5, <1>6, <1>7, <1>11, <1>12 DEF Inv

\* A queued command starts to run; if it needs approval it has it.
LEMMA AdvanceStartInv ==
    ASSUME Inv, NEW client \in Clients, NEW c \in Commands, AdvanceStart(client, c)
    PROVE  Inv'
  <1> DEFINE row == [commands[c] EXCEPT !.status = "running"]
             cs == [commands EXCEPT ![c].status = "running"]
             rows == <<Row("command", c, cs[c])>>
  <1>1. /\ outbox = <<>> /\ lock = client /\ commands[c].status = "queued"
        /\ co[client].awaits = NoCommand
        /\ Refresh(rows, cs[c].task, cs, tasks, projects)
        /\ co' = [co EXCEPT ![client].todo = @ \ {c}]
        /\ UNCHANGED <<disk, lock, up, calls, crashes>>
    BY DEF AdvanceStart, Advancing, EventLoopFree
  <1>2. /\ row \in CommandRow /\ row.task = commands[c].task /\ row.status = "running"
        /\ row.needs = commands[c].needs /\ row.approved = commands[c].approved
    <2>1. commands[c] \in CommandRow
      BY Types
    <2>2. QED
      BY <1>1, <2>1 DEF CommandRow
  <1>3. cs = [commands EXCEPT ![c] = row] /\ cs[c] = row
    BY Types
  <1>4. calls[c] = 0
    BY <1>1, NotExecuted
  <1> HIDE DEF row, cs
  <1>5. /\ row.task \in Tasks /\ tasks[row.task].status # "none"
        /\ Row("command", c, row) \in Rows
    BY <1>1, <1>2, MoveRow
  <1>6. Sound(tasks, calls[c], row)
    <2>1. row.needs => row.approved
      BY <1>1, <1>2 DEF Inv, RowsSound, Sound
    <2>2. QED
      BY <1>2, <1>5, <2>1 DEF Sound
  <1>7. rows \in Seq(Rows) /\ Len(rows) = 1 /\ rows[1] = Row("command", c, row)
    BY <1>3, <1>5
  <1> HIDE DEF rows
  <1>8. /\ Memory' \in Store /\ outbox' \in Seq(Rows) /\ Persisting' /\ RowsSound'
        /\ commands' = cs
    <2>1. row.status # "none" /\ Refresh(rows, row.task, [commands EXCEPT ![c] = row], tasks, projects)
      BY <1>1, <1>2, <1>3
    <2>2. tasks \in [Tasks -> TaskRow]
      BY Types
    <2>3. QED
      BY <1>1, <1>2, <1>3, <1>5, <1>6, <1>7, <2>1, <2>2, CommandStep
  <1>9. /\ co' \in [Clients -> [todo : SUBSET Commands, awaits : Commands \cup {NoCommand}]]
        /\ \A other \in Clients \ {client} : co'[other] = co[other]
        /\ \A other \in Clients : co'[other].awaits = co[other].awaits
    BY <1>1, Types
  <1>10. \A d \in Commands : ~Awaited(d) /\ ~Awaited(d)'
    BY <1>1, <1>9, HolderNotAwaited DEF Awaited
  <1>11. ExecutionSound'
    <2>1. \A d \in Commands \ {c} : commands'[d] = commands[d]
      BY <1>3, <1>8
    <2>2. calls[c] <= crashes
      BY <1>4, Types
    <2>3. QED
      BY <1>1, <1>10, <2>1, <2>2 DEF Inv, ExecutionSound
  <1>12. TypeOK'
    BY <1>1, <1>8, <1>9 DEF Inv, TypeOK
  <1>13. QED
    BY <1>1, <1>8, <1>11, <1>12 DEF Inv, ExecutedOncePerLife

\* The answer ends a running command and counts it once.
LEMMA AnswerInv ==
    ASSUME Inv, NEW client \in Clients, NEW outcome \in Finished, Answer(client, outcome)
    PROVE  Inv'
  <1> DEFINE c == co[client].awaits
             t == commands[c].task
             row == [commands[c] EXCEPT !.status = outcome]
             cs == [commands EXCEPT ![c].status = outcome]
             ts == [tasks EXCEPT ![t][outcome] = @ + 1]
             rows == <<Row("command", c, cs[c]), Row("command", c, cs[c])>>
  <1>1. /\ outbox = <<>> /\ c # NoCommand /\ Refresh(rows, t, cs, ts, projects)
        /\ co' = [co EXCEPT ![client].awaits = NoCommand]
        /\ UNCHANGED <<disk, lock, up, calls, crashes>>
    BY DEF Answer, EventLoopFree
  <1>2. c \in Commands
    BY <1>1, Types
  <1>3. commands[c].status = "running"
    <2>1. Awaited(c)
      BY DEF Awaited
    <2>2. QED
      BY <1>2, <2>1 DEF Inv, ExecutionSound
  <1>4. lock = client /\ \A other \in Clients \ {client} : co[other].awaits = NoCommand
    <2>1. co[client] # Idle
      <3>1. Idle.awaits = NoCommand
        BY DEF Idle
      <3>2. co[client].awaits # NoCommand
        BY <1>1
      <3>3. QED
        BY <3>1, <3>2, Zenon
    <2>2. lock = client /\ \A other \in Clients \ {client} : co[other] = Idle
      BY <2>1 DEF Inv, TypeOK
    <2>3. QED
      BY <2>2 DEF Idle
  <1> HIDE DEF c
  <1>5. /\ row \in CommandRow /\ row.task = t /\ row.status = outcome
        /\ row.needs = commands[c].needs /\ row.approved = commands[c].approved
    <2>1. commands[c] \in CommandRow
      BY <1>2, Types
    <2>2. QED
      BY <1>3, <2>1 DEF CommandRow, Finished
  <1>6. cs = [commands EXCEPT ![c] = row] /\ cs[c] = row
    BY <1>2, Types
  <1> HIDE DEF row, cs
  <1>7. row.status # "none" /\ row.status \in Finished
    BY <1>5 DEF Finished
  <1>8. /\ t \in Tasks /\ tasks[t].status # "none" /\ Row("command", c, row) \in Rows
    BY <1>1, <1>2, <1>3, <1>5, <1>7, MoveRow
  <1>9. /\ ts \in [Tasks -> TaskRow] /\ ts[t].status = tasks[t].status
        /\ \A u \in Tasks \ {t} : ts[u] = tasks[u]
    <2>1. tasks[t] \in TaskRow
      BY <1>8, Types
    <2> HIDE DEF t
    <2>2. CASE outcome = "success"
      <3>1. /\ [tasks[t] EXCEPT !["success"] = @ + 1] \in TaskRow
            /\ [tasks[t] EXCEPT !["success"] = @ + 1].status = tasks[t].status
        BY <2>1 DEF TaskRow
      <3>2. QED
        BY <1>8, <2>2, <3>1, Types
    <2>3. CASE outcome = "failed"
      <3>1. /\ [tasks[t] EXCEPT !["failed"] = @ + 1] \in TaskRow
            /\ [tasks[t] EXCEPT !["failed"] = @ + 1].status = tasks[t].status
        BY <2>1 DEF TaskRow
      <3>2. QED
        BY <1>8, <2>3, <3>1, Types
    <2>4. QED
      BY <2>2, <2>3 DEF Finished
  <1>10. Sound(tasks, calls[c], row)
    <2>1. row.needs => row.approved
      BY <1>2, <1>3, <1>5 DEF Inv, RowsSound, Sound
    <2>2. QED
      BY <1>5, <1>7, <1>8, <2>1 DEF Sound
  <1>11. /\ rows \in Seq(Rows) /\ Len(rows) = 2
         /\ rows[1] = Row("command", c, row) /\ rows[2] = Row("command", c, row)
    BY <1>6, <1>8
  <1> HIDE DEF rows, ts, t
  <1>12. /\ Memory' \in Store /\ outbox' \in Seq(Rows) /\ Persisting' /\ RowsSound'
         /\ commands' = cs
    <2>1. Refresh(rows, row.task, [commands EXCEPT ![c] = row], ts, projects)
      BY <1>1, <1>5, <1>6
    <2>2. \A u \in Tasks \ {row.task} : ts[u] = tasks[u]
      BY <1>5, <1>9
    <2>3. tasks[row.task].status # "none" /\ ts[row.task].status # "none"
      BY <1>5, <1>8, <1>9
    <2>4. QED
      BY <1>1, <1>2, <1>5, <1>6, <1>7, <1>9, <1>10, <1>11, <2>1, <2>2, <2>3, CommandStep
  <1>13. /\ co' \in [Clients -> [todo : SUBSET Commands, awaits : Commands \cup {NoCommand}]]
         /\ \A other \in Clients : co'[other].awaits = NoCommand
         /\ \A other \in Clients \ {client} : co'[other] = co[other]
    BY <1>1, <1>4, Types
  <1>14. \A d \in Commands : ~Awaited(d)'
    BY <1>13, OrchestratorAssumption DEF Awaited
  <1>15. ExecutionSound'
    <2>1. ASSUME NEW d \in Commands, commands'[d].status \notin Finished
          PROVE  calls[d] <= crashes
      <3>1. d # c
        BY <1>2, <1>6, <1>7, <1>12, <2>1, Types
      <3>2. commands'[d] = commands[d]
        BY <1>6, <1>12, <3>1
      <3>3. ~Awaited(d)
        BY <1>4, <3>1, OrchestratorAssumption DEF Awaited, c
      <3>4. QED
        BY <2>1, <3>2, <3>3 DEF Inv, ExecutionSound
    <2>2. QED
      BY <1>1, <1>14, <2>1 DEF ExecutionSound
  <1>16. TypeOK'
    BY <1>1, <1>4, <1>12, <1>13 DEF Inv, TypeOK
  <1>17. QED
    BY <1>1, <1>12, <1>15, <1>16 DEF Inv, ExecutedOncePerLife

-----------------------------------------------------------------------------
(* The theorems                                                            *)

\* The invariant holds of the empty store.
LEMMA InitInv ==
    ASSUME Init PROVE Inv
  <1>1. NewProject \in ProjectRow /\ NewTask \in TaskRow /\ NewCommand \in CommandRow
    BY DEF NewProject, ProjectRow, NewTask, TaskRow, NewCommand, CommandRow
  <1>2. Memory \in Store /\ disk = Memory
    BY <1>1 DEF Init, Memory, Store
  <1>3. outbox = <<>> /\ lock = NoClient /\ up = TRUE /\ crashes = 0
    BY DEF Init
  <1>4. /\ co = [client \in Clients |-> Idle] /\ calls = [c \in Commands |-> 0]
        /\ commands = [c \in Commands |-> NewCommand]
    BY DEF Init
  <1>5. TypeOK
    BY <1>2, <1>3, <1>4 DEF TypeOK, Idle
  <1>6. Persisting
    BY <1>2, <1>3 DEF Persisting, Kept, Memory
  <1>7. RowsSound
    BY <1>2, <1>3, <1>4 DEF RowsSound, Sound, NewCommand, Memory
  <1>8. ExecutionSound /\ ExecutedOncePerLife
    BY <1>3, <1>4, OrchestratorAssumption
    DEF ExecutionSound, ExecutedOncePerLife, Awaited, Idle, NewCommand
  <1>9. QED
    BY <1>5, <1>6, <1>7, <1>8 DEF Inv

\* Every step keeps the invariant.
LEMMA NextInv ==
    ASSUME Inv, [Next]_vars PROVE Inv'
  <1>1. CASE \E p \in Projects : CreateProject(p)
    BY <1>1, CreateProjectInv
  <1>2. CASE \E t \in Tasks, p \in Projects : CreateTask(t, p)
    BY <1>2, CreateTaskInv
  <1>3. CASE \E c \in Commands, t \in Tasks, needs \in BOOLEAN : CreateCommand(c, t, needs)
    BY <1>3, CreateCommandInv
  <1>4. CASE \E c \in Commands : ApproveCommand(c)
    BY <1>4, ApproveCommandInv
  <1>5. ASSUME NEW client \in Clients, Handle(client) PROVE Inv'
    BY <1>5, ReadInv, AdvanceSkipInv, AdvanceStartInv, AdvanceExecuteInv, AnswerInv, ReleaseInv
    DEF Handle
  <1>6. CASE Flush
    BY <1>6, FlushInv
  <1>7. CASE Crash
    BY <1>7, CrashInv
  <1>8. CASE UNCHANGED vars
    BY <1>8 DEF vars, memory, Inv, TypeOK, Memory, Persisting, RowsSound, ExecutionSound,
                Awaited, ExecutedOncePerLife
  <1>9. QED
    BY <1>1, <1>2, <1>3, <1>4, <1>5, <1>6, <1>7, <1>8 DEF Next

\* The invariant, from which the rest follows.
THEOREM Invariance == Spec => []Inv
  BY InitInv, NextInv, PTL DEF Spec

\* Rows and memory are of the types of the models, and whoever advances commands holds
\* the lock, whatever crashes.
THEOREM TypeCorrect == Spec => []TypeOK
  BY Invariance, PTL DEF Inv

\* Whatever a method has changed is stored when the event loop is free again.
THEOREM Durability == Spec => []StoreIsMemory
  <1>1. Inv => StoreIsMemory
    BY PersistedIsStored DEF Inv
  <1>2. QED
    BY <1>1, Invariance, PTL

\* A command is executed at most once in each life of the process.
THEOREM SingleExecution == Spec => []ExecutedOncePerLife
  BY Invariance, PTL DEF Inv

\* What the executor has seen is approved, if it needs approval.
THEOREM ApprovalFirst == Spec => []ApprovedBeforeExecution
  <1>1. Inv => ApprovedBeforeExecution
    BY DEF Inv, RowsSound, Sound, ApprovedBeforeExecution, Finished
  <1>2. QED
    BY <1>1, Invariance, PTL

\* No step touches a finished command, and no restart takes its result back.
LEMMA FinishedStays ==
    ASSUME Inv, [Next]_vars, NEW c \in Commands,
           outbox = <<>>, commands[c].status \in Finished
    PROVE  commands'[c] = commands[c]
  <1> DEFINE status == commands[c].status
  <1>1. status \notin {"none", "queued", "running", "waiting_approval"}
    BY DEF Finished
  <1>2. CASE \E p \in Projects : CreateProject(p)
    BY <1>2 DEF CreateProject
  <1>3. CASE \E t \in Tasks, p \in Projects : CreateTask(t, p)
    BY <1>3 DEF CreateTask, Refresh
  <1>4. CASE \E d \in Commands, t \in Tasks, needs \in BOOLEAN : CreateCommand(d, t, needs)
    <2>1. PICK d \in Commands, t \in Tasks, needs \in BOOLEAN : CreateCommand(d, t, needs)
      BY <1>4
    <2>2. d # c /\ commands' = [commands EXCEPT ![d] = Created(t, needs)]
      BY <1>1, <2>1 DEF CreateCommand, Refresh
    <2>3. QED
      BY <2>2, Types
  <1>5. CASE \E d \in Commands : ApproveCommand(d)
    <2>1. PICK d \in Commands : ApproveCommand(d)
      BY <1>5
    <2>2. /\ d # c
          /\ commands' = [commands EXCEPT ![d].status = "queued", ![d].approved = TRUE]
      BY <1>1, <2>1 DEF ApproveCommand, Refresh
    <2>3. QED
      BY <2>2, Types
  <1>6. ASSUME NEW client \in Clients, Handle(client)
        PROVE  commands'[c] = commands[c]
    <2>1. ASSUME NEW outcome \in Finished, Answer(client, outcome)
          PROVE  commands'[c] = commands[c]
      <3>1. Awaited(c) => status = "running"
        BY DEF Inv, ExecutionSound
      <3>2. co[client].awaits # c
        BY <1>1, <3>1 DEF Awaited
      <3>3. commands' = [commands EXCEPT ![co[client].awaits].status = outcome]
        BY <2>1 DEF Answer, Refresh
      <3>4. QED
        BY <3>2, <3>3, Types
    <2>2. ASSUME NEW d \in Commands, AdvanceStart(client, d)
          PROVE  commands'[c] = commands[c]
      <3>1. d # c /\ commands' = [commands EXCEPT ![d].status = "running"]
        BY <1>1, <2>2 DEF AdvanceStart, Refresh
      <3>2. QED
        BY <3>1, Types
    <2>3. QED
      BY <1>6, <2>1, <2>2 DEF Handle, Read, AdvanceSkip, AdvanceExecute, Release, memory
  <1>7. CASE Flush
    BY <1>7 DEF Flush
  <1>8. CASE Crash
    BY <1>8, PersistedIsStored DEF Crash, Inv, StoreIsMemory, Memory
  <1>9. CASE UNCHANGED vars
    BY <1>9 DEF vars, memory
  <1>10. QED
    BY <1>2, <1>3, <1>4, <1>5, <1>6, <1>7, <1>8, <1>9 DEF Next

\* Results are final.
THEOREM Finality == Spec => FinishedIsFinal
  <1>1. Inv /\ [Next]_vars => [\A c \in Commands : outbox = <<>> /\ commands[c].status \in Finished
                                    => commands'[c] = commands[c]]_vars
    BY FinishedStays
  <1>2. QED
    BY <1>1, Invariance, PTL DEF Spec, FinishedIsFinal

-----------------------------------------------------------------------------
(* The store implements JobLedger                                          *)

\* A command with row `old' that has been executed n times may get row `new': submitted,
\* approved, started, or finished once it was executed.
Follows(old, new, n) ==
    \/ /\ old.status = "none" /\ ~new.approved
       /\ new.status = (IF new.needs THEN "waiting_approval" ELSE "queued")
    \/ /\ old.status = "waiting_approval" /\ new.status = "queued"
       /\ new.approved /\ new.needs = old.needs
    \/ /\ old.status = "queued" /\ new.status = "running"
       /\ new.approved = old.approved /\ new.needs = old.needs
    \/ /\ old.status = "running" /\ new.status \in Finished /\ n > 0
       /\ new.approved = old.approved /\ new.needs = old.needs

\* The store is at most one move of one command behind the memory, and it is that move
\* which is on its way; what is being executed counts as executed.
LedgerInv ==
    /\ \A i \in DOMAIN outbox : outbox[i].kind = "command" => outbox[i].row = commands[outbox[i].id]
    /\ \A c \in Commands : commands[c] = disk.command[c] \/ Follows(disk.command[c], commands[c], calls[c])
    /\ \A c \in Commands : Awaited(c) => calls[c] > 0

\* Of the rows that Refresh puts into the outbox, those of commands were handed to it.
LEMMA RefreshCommands ==
    ASSUME NEW S, NEW rows \in Seq(S), NEW t, NEW cs, NEW ts, NEW ps, Refresh(rows, t, cs, ts, ps)
    PROVE  \A i \in DOMAIN outbox' : outbox'[i].kind = "command" =>
                \E k \in DOMAIN rows : outbox'[i] = rows[k]
  <1>1. PICK a, b : outbox' = rows \o <<Row("task", t, a), Row("project", ts[t].project, b)>>
    BY DEF Refresh
  <1> DEFINE more == <<Row("task", t, a), Row("project", ts[t].project, b)>>
  <1>2. /\ Len(more) = 2 /\ more \in Seq({more[1], more[2]})
        /\ more[1].kind = "task" /\ more[2].kind = "project"
    BY DEF Row
  <1> HIDE DEF more
  <1>3. /\ Len(rows) \in Nat /\ DOMAIN outbox' = 1 .. Len(rows) + 2 /\ DOMAIN rows = 1 .. Len(rows)
        /\ \A i \in 1 .. Len(rows) : outbox'[i] = rows[i]
        /\ outbox'[Len(rows) + 1] = more[1] /\ outbox'[Len(rows) + 2] = more[2]
    BY <1>1, <1>2 DEF more
  <1>4. QED
    BY <1>2, <1>3

\* A step between two awaits that moves command c to `row', and puts no other row of a
\* command into the outbox.
LEMMA MoveLedger ==
    ASSUME Inv, LedgerInv, outbox = <<>>, NEW c \in Commands, NEW row,
           commands' = [commands EXCEPT ![c] = row], UNCHANGED <<disk, calls>>,
           Follows(commands[c], row, calls[c]),
           \A i \in DOMAIN outbox' : outbox'[i].kind = "command" => outbox'[i] = Row("command", c, row),
           \A d \in Commands : Awaited(d)' => Awaited(d)
    PROVE  LedgerInv'
  <1>1. disk.command = commands
    BY PersistedIsStored DEF Inv, StoreIsMemory, Memory
  <1>2. commands'[c] = row /\ \A d \in Commands \ {c} : commands'[d] = commands[d]
    BY Types
  <1>3. \A i \in DOMAIN outbox' : outbox'[i].kind = "command" => outbox'[i].row = commands'[outbox'[i].id]
    BY <1>2 DEF Row
  <1>4. \A d \in Commands : commands'[d] = disk'.command[d]
                            \/ Follows(disk'.command[d], commands'[d], calls'[d])
    BY <1>1, <1>2
  <1>5. \A d \in Commands : Awaited(d)' => calls'[d] > 0
    BY DEF LedgerInv
  <1>6. QED
    BY <1>3, <1>4, <1>5 DEF LedgerInv

\* What Refresh makes of the outbox when only the row of one command, perhaps twice, and
\* that of its task are handed to it.
LEMMA RowsOfOne ==
    ASSUME NEW c, NEW row, NEW t, NEW cs, NEW ts, NEW ps, NEW other,
           NEW rows \in {<<Row("command", c, row)>>,
                         <<Row("command", c, row), Row("command", c, row)>>,
                         <<Row("command", c, row), Row("task", t, other)>>},
           Refresh(rows, t, cs, ts, ps)
    PROVE  \A i \in DOMAIN outbox' : outbox'[i].kind = "command" => outbox'[i] = Row("command", c, row)
  <1> DEFINE S == {Row("command", c, row), Row("task", t, other)}
  <1>1. rows \in Seq(S)
    <2>1. /\ <<Row("command", c, row)>> \in Seq(S)
          /\ <<Row("command", c, row), Row("command", c, row)>> \in Seq(S)
          /\ <<Row("command", c, row), Row("task", t, other)>> \in Seq(S)
      OBVIOUS
    <2>2. QED
      BY <2>1
  <1>2. \A k \in DOMAIN rows : rows[k].kind = "command" => rows[k] = Row("command", c, row)
    BY DEF Row
  <1> HIDE DEF S
  <1>3. \A i \in DOMAIN outbox' : outbox'[i].kind = "command" => \E k \in DOMAIN rows : outbox'[i] = rows[k]
    BY <1>1, RefreshCommands
  <1>4. QED
    BY <1>2, <1>3

\* Every step keeps the store at most one move behind.
LEMMA NextLedger ==
    ASSUME Inv, LedgerInv, [Next]_vars PROVE LedgerInv'
  <1>1. ASSUME NEW p \in Projects, CreateProject(p) PROVE LedgerInv'
    <2>1. /\ outbox' = <<Row("project", p, projects'[p])>>
          /\ UNCHANGED <<commands, disk, co, calls>>
      BY <1>1 DEF CreateProject
    <2>2. \A i \in DOMAIN outbox' : outbox'[i].kind = "project"
      BY <2>1 DEF Row
    <2>3. QED
      BY <2>1, <2>2 DEF LedgerInv, Awaited
  <1>2. ASSUME NEW t \in Tasks, NEW p \in Projects, CreateTask(t, p) PROVE LedgerInv'
    <2>1. PICK a, b, ts, ps : Refresh(<<Row("task", t, a), Row("project", p, b)>>, t, commands, ts, ps)
      BY <1>2 DEF CreateTask
    <2> DEFINE rows == <<Row("task", t, a), Row("project", p, b)>>
    <2>2. rows \in Seq({rows[1], rows[2]}) /\ \A k \in DOMAIN rows : rows[k].kind # "command"
      BY DEF Row
    <2>3. Refresh(rows, t, commands, ts, ps)
      BY <2>1
    <2> HIDE DEF rows
    <2>4. \A i \in DOMAIN outbox' : outbox'[i].kind # "command"
      BY <2>2, <2>3, RefreshCommands
    <2>5. commands' = commands /\ UNCHANGED <<disk, co, calls>>
      BY <1>2 DEF CreateTask, Refresh
    <2>6. QED
      BY <2>4, <2>5 DEF LedgerInv, Awaited
  <1>3. ASSUME NEW c \in Commands, NEW t \in Tasks, NEW needs \in BOOLEAN, CreateCommand(c, t, needs)
        PROVE  LedgerInv'
    <2> DEFINE row == Created(t, needs)
               cs == [commands EXCEPT ![c] = row]
               ts == [tasks EXCEPT ![t].count = @ + 1]
               rows == <<Row("command", c, cs[c]), Row("task", t, ts[t])>>
    <2>1. /\ outbox = <<>> /\ commands[c].status = "none" /\ UNCHANGED <<disk, co, calls>>
          /\ Refresh(rows, t, cs, ts, projects)
      BY <1>3 DEF CreateCommand, Unlocked, EventLoopFree
    <2>2. cs[c] = row
      BY Types
    <2>3. Follows(commands[c], row, calls[c])
      BY <2>1 DEF Follows, Created
    <2> HIDE DEF row, ts
    <2>4. commands' = cs
      BY <2>1 DEF Refresh
    <2>5. \A i \in DOMAIN outbox' : outbox'[i].kind = "command" => outbox'[i] = Row("command", c, row)
      BY <2>1, <2>2, RowsOfOne
    <2>6. QED
      BY <2>1, <2>3, <2>4, <2>5, MoveLedger DEF Awaited
  <1>4. ASSUME NEW c \in Commands, ApproveCommand(c) PROVE LedgerInv'
    <2> DEFINE row == [commands[c] EXCEPT !.status = "queued", !.approved = TRUE]
               cs == [commands EXCEPT ![c].status = "queued", ![c].approved = TRUE]
    <2>1. /\ outbox = <<>> /\ commands[c].status = "waiting_approval" /\ UNCHANGED <<disk, co, calls>>
          /\ Refresh(<<Row("command", c, cs[c])>>, cs[c].task, cs, tasks, projects)
      BY <1>4 DEF ApproveCommand, Unlocked, EventLoopFree
    <2>2. cs = [commands EXCEPT ![c] = row] /\ cs[c] = row
      BY Types
    <2>3. Follows(commands[c], row, calls[c])
      BY <2>1, Types DEF Follows, CommandRow
    <2> HIDE DEF row, cs
    <2>4. commands' = cs
      BY <2>1 DEF Refresh
    <2>5. \A i \in DOMAIN outbox' : outbox'[i].kind = "command" => outbox'[i] = Row("command", c, row)
      BY <2>1, <2>2, RowsOfOne
    <2>6. QED
      BY <2>1, <2>2, <2>3, <2>4, <2>5, MoveLedger DEF Awaited
  <1>5. ASSUME NEW client \in Clients, NEW c \in Commands, AdvanceStart(client, c) PROVE LedgerInv'
    <2> DEFINE row == [commands[c] EXCEPT !.status = "running"]
               cs == [commands EXCEPT ![c].status = "running"]
    <2>1. /\ outbox = <<>> /\ commands[c].status = "queued" /\ UNCHANGED <<disk, calls>>
          /\ Refresh(<<Row("command", c, cs[c])>>, cs[c].task, cs, tasks, projects)
          /\ co' = [co EXCEPT ![client].todo = @ \ {c}]
      BY <1>5 DEF AdvanceStart, Advancing, EventLoopFree
    <2>2. cs = [commands EXCEPT ![c] = row] /\ cs[c] = row
      BY Types
    <2>3. Follows(commands[c], row, calls[c])
      BY <2>1, Types DEF Follows, CommandRow
    <2> HIDE DEF row, cs
    <2>4. commands' = cs
      BY <2>1 DEF Refresh
    <2>5. \A i \in DOMAIN outbox' : outbox'[i].kind = "command" => outbox'[i] = Row("command", c, row)
      BY <2>1, <2>2, RowsOfOne
    <2>6. \A d \in Commands : Awaited(d)' => Awaited(d)
      BY <2>1, Types DEF Awaited
    <2>7. QED
      BY <2>1, <2>2, <2>3, <2>4, <2>5, <2>6, MoveLedger
  <1>6. ASSUME NEW client \in Clients, NEW outcome \in Finished, Answer(client, outcome) PROVE LedgerInv'
    <2> DEFINE c == co[client].awaits
               row == [commands[c] EXCEPT !.status = outcome]
               cs == [commands EXCEPT ![c].status = outcome]
               rows == <<Row("command", c, cs[c]), Row("command", c, cs[c])>>
               ts == [tasks EXCEPT ![commands[c].task][outcome] = @ + 1]
    <2>1. /\ outbox = <<>> /\ c # NoCommand /\ UNCHANGED <<disk, calls>>
          /\ Refresh(rows, commands[c].task, cs, ts, projects)
          /\ co' = [co EXCEPT ![client].awaits = NoCommand]
      BY <1>6 DEF Answer, EventLoopFree
    <2>2. c \in Commands
      BY <2>1, Types
    <2>3. Awaited(c)
      BY DEF Awaited
    <2>4. commands[c].status = "running" /\ calls[c] > 0
      BY <2>2, <2>3 DEF Inv, ExecutionSound, LedgerInv
    <2>5. \A d \in Commands : Awaited(d)' => Awaited(d)
      BY <2>1, Types, OrchestratorAssumption DEF Awaited
    <2> HIDE DEF c, ts
    <2>6. cs = [commands EXCEPT ![c] = row] /\ cs[c] = row
      BY <2>2, Types
    <2>7. Follows(commands[c], row, calls[c])
      BY <2>2, <2>4, Types DEF Follows, CommandRow
    <2>8. commands' = cs
      BY <2>1 DEF Refresh
    <2>9. \A i \in DOMAIN outbox' : outbox'[i].kind = "command" => outbox'[i] = Row("command", c, row)
      <3>1. rows = <<Row("command", c, row), Row("command", c, row)>>
        BY <2>6
      <3> HIDE DEF rows, cs, row
      <3>2. QED
        BY <2>1, <3>1, RowsOfOne
    <2> HIDE DEF cs, row
    <2>10. QED
      BY <2>1, <2>2, <2>5, <2>6, <2>7, <2>8, <2>9, MoveLedger
  <1>7. ASSUME NEW client \in Clients, NEW c \in Commands, AdvanceExecute(client, c) PROVE LedgerInv'
    <2>1. /\ outbox' = <<>> /\ outbox = <<>> /\ UNCHANGED <<disk, commands>>
          /\ calls' = [calls EXCEPT ![c] = @ + 1]
          /\ co' = [co EXCEPT ![client].todo = @ \ {c}, ![client].awaits = c]
      BY <1>7 DEF AdvanceExecute, Advancing, EventLoopFree, memory
    <2>2. disk.command = commands
      BY <2>1, PersistedIsStored DEF Inv, StoreIsMemory, Memory
    <2>3. \A d \in Commands : Awaited(d)' => Awaited(d) \/ d = c
      BY <2>1, Types DEF Awaited
    <2>4. calls'[c] > 0 /\ \A d \in Commands \ {c} : calls'[d] = calls[d]
      BY <2>1, Types
    <2>5. \A d \in Commands : Awaited(d)' => calls'[d] > 0
      BY <2>3, <2>4 DEF LedgerInv
    <2>6. QED
      BY <2>1, <2>2, <2>5 DEF LedgerInv
  <1>8. ASSUME NEW client \in Clients,
               \/ \E scope \in Scopes : Read(client, scope)
               \/ \E c \in Commands : AdvanceSkip(client, c)
               \/ Release(client)
        PROVE  LedgerInv'
    <2>1. UNCHANGED <<commands, disk, outbox, calls>>
      BY <1>8 DEF Read, AdvanceSkip, Release, memory
    <2>2. \A d \in Commands : Awaited(d)' => Awaited(d)
      BY <1>8, Types DEF Read, AdvanceSkip, Release, Awaited
    <2>3. QED
      BY <2>1, <2>2 DEF LedgerInv
  <1>9. CASE Flush
    <2>1. /\ outbox \in Seq(Rows) /\ outbox # <<>> /\ disk \in Store
          /\ disk' = Upsert(disk, Head(outbox)) /\ outbox' = Tail(outbox)
          /\ UNCHANGED <<commands, co, calls>>
      BY <1>9 DEF Inv, TypeOK, Flush, memory
    <2>2. \A i \in DOMAIN outbox' : i + 1 \in DOMAIN outbox /\ outbox'[i] = outbox[i + 1]
      BY <2>1
    <2>3. Head(outbox) \in Rows /\ Head(outbox) = outbox[1] /\ 1 \in DOMAIN outbox
      BY <2>1
    <2>4. \A c \in Commands : disk'.command[c] = IF Is(Head(outbox), "command", c)
                                                THEN commands[c] ELSE disk.command[c]
      BY <2>1, <2>3, UpsertRow DEF LedgerInv, Is
    <2>5. QED
      BY <2>1, <2>2, <2>4 DEF LedgerInv, Awaited
  <1>10. CASE Crash
    <2>1. /\ outbox' = <<>> /\ commands' = disk.command /\ co' = [c \in Clients |-> Idle]
          /\ UNCHANGED <<disk, calls>>
      BY <1>10 DEF Crash
    <2>2. \A c \in Commands : ~Awaited(c)'
      BY <2>1, OrchestratorAssumption DEF Awaited, Idle
    <2>3. QED
      BY <2>1, <2>2 DEF LedgerInv
  <1>11. CASE UNCHANGED vars
    BY <1>11 DEF vars, memory, LedgerInv, Awaited
  <1>12. QED
    BY <1>1, <1>2, <1>3, <1>4, <1>5, <1>6, <1>7, <1>8, <1>9, <1>10, <1>11 DEF Next, Handle

\* The entries of the ledger.
Entries == [c \in Commands |-> EntryOf(disk.command[c])]

\* Storing the move of a command is a step of the ledger.
LEMMA StoredMove ==
    ASSUME Inv, NEW c \in Commands, NEW row \in CommandRow,
           Follows(disk.command[c], row, calls[c]),
           Entries' = [Entries EXCEPT ![c] = EntryOf(row)], UNCHANGED <<calls, crashes>>
    PROVE  Ledger!Next
  <1> DEFINE old == disk.command[c]
             e == EntryOf(row)
  <1>1. Entries[c] = EntryOf(old) /\ old \in CommandRow
    BY DEF Entries, Inv, TypeOK, Store
  <1>2. ASSUME NEW from, old.status = from PROVE Ledger!Move(c, from, e)
    BY <1>1, <1>2 DEF Ledger!Move, Entries, EntryOf
  <1>3. CASE /\ old.status = "none" /\ ~row.approved
             /\ row.status = (IF row.needs THEN "waiting_approval" ELSE "queued")
    <2>1. row.needs \in BOOLEAN /\ row.approved = FALSE
      BY <1>3 DEF CommandRow
    <2>2. Ledger!Submit(c, row.needs)
      BY <1>2, <1>3, <2>1 DEF Ledger!Submit, EntryOf
    <2>3. QED
      BY <2>1, <2>2 DEF Ledger!Next
  <1>4. CASE /\ old.status = "waiting_approval" /\ row.status = "queued"
             /\ row.approved /\ row.needs = old.needs
    <2>1. row.approved = TRUE
      BY <1>4 DEF CommandRow
    <2>2. e = [state |-> "queued", guarded |-> Entries[c].guarded, cleared |-> TRUE]
      BY <1>1, <1>4, <2>1 DEF EntryOf
    <2>3. Ledger!Clear(c)
      BY <1>1, <1>2, <1>4, <2>2 DEF Ledger!Clear, Entries
    <2>4. QED
      BY <2>3 DEF Ledger!Next
  <1>5. CASE /\ old.status = "queued" /\ row.status = "running"
             /\ row.approved = old.approved /\ row.needs = old.needs
    <2>1. e = [EntryOf(old) EXCEPT !.state = "running"]
      BY <1>5 DEF EntryOf
    <2>2. Ledger!Start(c)
      BY <1>1, <1>2, <1>5, <2>1 DEF Ledger!Start, Entries
    <2>3. QED
      BY <2>2 DEF Ledger!Next
  <1>6. CASE /\ old.status = "running" /\ row.status \in Finished /\ calls[c] > 0
             /\ row.approved = old.approved /\ row.needs = old.needs
    <2>1. e = [EntryOf(old) EXCEPT !.state = row.status]
      BY <1>6 DEF EntryOf
    <2>2. Ledger!Finish(c, row.status)
      BY <1>1, <1>2, <1>6, <2>1 DEF Ledger!Finish, Entries
    <2>3. QED
      BY <1>6, <2>2 DEF Ledger!Next, Ledger!Outcomes, Finished
  <1>7. QED
    BY <1>3, <1>4, <1>5, <1>6 DEF Follows

\* Every step is one of the ledger, or leaves it as it is.
LEMMA LedgerStep ==
    ASSUME Inv, LedgerInv, Inv', [Next]_vars
    PROVE  [Ledger!Next]_(Ledger!vars)
  <1>1. ASSUME UNCHANGED <<disk, calls, crashes>> PROVE UNCHANGED Ledger!vars
    BY <1>1 DEF Ledger!vars
  <1>2. CASE Flush
    <2>1. /\ outbox \in Seq(Rows) /\ outbox # <<>> /\ disk \in Store
          /\ disk' = Upsert(disk, Head(outbox)) /\ UNCHANGED <<calls, crashes>>
      BY <1>2 DEF Inv, TypeOK, Flush
    <2>2. Head(outbox) \in Rows /\ Head(outbox) = outbox[1] /\ 1 \in DOMAIN outbox
      BY <2>1
    <2>3. \A c \in Commands : disk'.command[c] = IF Is(Head(outbox), "command", c)
                                                THEN Head(outbox).row ELSE disk.command[c]
      BY <2>1, <2>2, UpsertRow
    <2>4. CASE \A c \in Commands : disk'.command[c] = disk.command[c]
      BY <2>1, <2>4 DEF Ledger!vars
    <2>5. CASE \E c \in Commands : disk'.command[c] # disk.command[c]
      <3>1. PICK c \in Commands : disk'.command[c] # disk.command[c]
        BY <2>5
      <3>2. Is(Head(outbox), "command", c) /\ Head(outbox).row = commands[c]
        BY <2>2, <2>3, <3>1 DEF LedgerInv, Is
      <3>3. Follows(disk.command[c], commands[c], calls[c])
        BY <2>3, <3>1, <3>2 DEF LedgerInv
      <3>4. commands[c] \in CommandRow
        BY Types
      <3>5. Entries' = [Entries EXCEPT ![c] = EntryOf(commands[c])]
        BY <2>3, <3>2 DEF Entries, Is
      <3>6. QED
        BY <2>1, <3>3, <3>4, <3>5, StoredMove
    <2>6. QED
      BY <2>4, <2>5
  <1>3. CASE Crash
    <2>1. UNCHANGED <<disk, calls>> /\ crashes' = crashes + 1
      BY <1>3 DEF Crash
    <2>2. Ledger!Die
      BY <2>1 DEF Ledger!Die
    <2>3. QED
      BY <2>2 DEF Ledger!Next
  <1>4. ASSUME NEW client \in Clients, NEW c \in Commands, AdvanceExecute(client, c)
        PROVE  [Ledger!Next]_(Ledger!vars)
    <2>1. /\ outbox = <<>> /\ commands[c].status = "running" /\ UNCHANGED <<disk, crashes>>
          /\ calls' = [calls EXCEPT ![c] = @ + 1]
      BY <1>4 DEF AdvanceExecute, Advancing, EventLoopFree
    <2>2. disk.command = commands
      BY <2>1, PersistedIsStored DEF Inv, StoreIsMemory, Memory
    <2>3. calls'[c] = calls[c] + 1 /\ calls'[c] <= crashes + 1
      BY <2>1, Types DEF Inv, ExecutedOncePerLife
    <2>4. calls[c] <= crashes
      BY <2>3, Types
    <2>5. Ledger!Run(c)
      BY <2>1, <2>2, <2>4 DEF Ledger!Run, EntryOf
    <2>6. QED
      BY <2>5 DEF Ledger!Next
  <1>5. CASE UNCHANGED vars
    BY <1>1, <1>5 DEF vars
  <1>6. ASSUME NEW client \in Clients, Handle(client), \A c \in Commands : ~AdvanceExecute(client, c)
        PROVE  UNCHANGED <<disk, calls, crashes>>
    BY <1>6 DEF Handle, Read, AdvanceSkip, AdvanceStart, Answer, Release
  <1>7. ASSUME \/ \E p \in Projects : CreateProject(p)
               \/ \E t \in Tasks, p \in Projects : CreateTask(t, p)
               \/ \E c \in Commands, t \in Tasks, needs \in BOOLEAN : CreateCommand(c, t, needs)
               \/ \E c \in Commands : ApproveCommand(c)
        PROVE  UNCHANGED <<disk, calls, crashes>>
    BY <1>7 DEF CreateProject, CreateTask, CreateCommand, ApproveCommand
  <1>8. QED
    BY <1>1, <1>2, <1>3, <1>4, <1>5, <1>6, <1>7 DEF Next

\* The store is a ledger of jobs: what it says of a command moves forward only, a move at
\* a time, and the executor sees a command only when the store says that it runs, after
\* the approval it needs (InMemoryOrchestrator, SQLiteStateStore).
THEOREM LedgerImplemented == Spec => ImplementsLedger
  <1>1. Init => Ledger!Init
    BY DEF Init, Ledger!Init, Ledger!Blank, EntryOf, NewCommand
  <1>2. Init => LedgerInv
    BY OrchestratorAssumption DEF Init, LedgerInv, Awaited, Idle
  <1>3. Spec => []LedgerInv
    BY <1>2, Invariance, NextLedger, PTL DEF Spec
  <1>4. Inv /\ LedgerInv /\ Inv' /\ [Next]_vars => [Ledger!Next]_(Ledger!vars)
    BY LedgerStep
  <1>5. QED
    BY <1>1, <1>3, <1>4, Invariance, PTL DEF Spec, ImplementsLedger, Ledger!Spec

-----------------------------------------------------------------------------
(* The counters                                                            *)

\* The counters of a task are exact for these commands, or count no more than there is.
Counted(row, cs, t) ==
    /\ row.count = Cardinality(CommandsOf(cs, t))
    /\ \A s \in Finished : row[s] = Cardinality(WithStatus(cs, t, s))
Behind(row, cs, t) ==
    /\ row.count <= Cardinality(CommandsOf(cs, t))
    /\ \A s \in Finished : row[s] <= Cardinality(WithStatus(cs, t, s))

\* The tasks and the projects that disagree with what they consist of.
WrongTasks(ts, cs) ==
    {t \in Tasks : /\ ts[t].status # "none"
                   /\ ~(ts[t].status = DerivedStatus(cs, t) /\ Counted(ts[t], cs, t))}
WrongProjects(ps, ts) ==
    {p \in Projects : /\ ps[p].exists
                      /\ ~(/\ ps[p].taskCount = Cardinality(TasksOf(ts, p))
                           /\ ps[p].active = Cardinality(ActiveTasks(ts, p)))}
Wrong(ps, ts, cs) == Cardinality(WrongTasks(ts, cs)) + Cardinality(WrongProjects(ps, ts))

\* A memory or a store in which the counters lag behind, if anything, and what was not
\* created is as it was at first.
Whole(ps, ts, cs) ==
    /\ \A c \in Commands : cs[c].status = "none" => cs[c].task = NoTask
    /\ \A t \in Tasks :
        /\ ts[t].status = "none" => ts[t] = NewTask
        /\ ts[t].status # "none" => ps[ts[t].project].exists
        /\ Behind(ts[t], cs, t)
    /\ \A p \in Projects :
        /\ ~ps[p].exists => ps[p].taskCount = 0 /\ ps[p].active = 0
        /\ ps[p].taskCount <= Cardinality(TasksOf(ts, p))

\* Rows are written forwards, and those of commands before those that count them.
OnTheirWay ==
    /\ \A c \in Commands :
        /\ disk.command[c].task \in {NoTask, commands[c].task}
        /\ disk.command[c].status \in Finished => disk.command[c] = commands[c]
    /\ \A p \in Projects : disk.project[p].taskCount <= projects[p].taskCount
    /\ \A t \in Tasks : tasks[t].status # "none" => disk.project[tasks[t].project].exists
    /\ \A i \in DOMAIN outbox :
        /\ outbox[i].kind = "command" => outbox[i].row = commands[outbox[i].id]
        /\ outbox[i].kind = "task" =>
             outbox[i].row = [tasks[outbox[i].id] EXCEPT !.status = outbox[i].row.status]
        /\ outbox[i].kind = "project" =>
             outbox[i].row.exists /\ outbox[i].row.taskCount = projects[outbox[i].id].taskCount
        /\ outbox[i].kind # "command" =>
             \A j \in DOMAIN outbox : j > i => outbox[j].kind # "command"

\* The commands and tasks are written, and of the projects all but p.
Late(p) ==
    /\ disk.task = tasks /\ disk.command = commands
    /\ \A q \in Projects \ {p} : disk.project[q] = projects[q]
    /\ \A i \in DOMAIN outbox :
        \/ Is(outbox[i], "project", p)
        \/ outbox[i].kind = "task" /\ outbox[i].row = tasks[outbox[i].id]

\* Until the row of task t is written, nothing is wrong in the store but t, and what
\* was wrong before: no project has been counted anew.
Early(t) ==
    /\ \A u \in Tasks \ {t} : disk.task[u] = tasks[u]
    /\ \A q \in Projects \ {tasks[t].project} : disk.project[q] = projects[q]
    /\ Cardinality(WrongTasks(disk.task, disk.command) \ {t})
         + Cardinality(WrongProjects(disk.project, disk.task)) <= crashes
    /\ \E k \in DOMAIN outbox :
        /\ outbox[k] = Row("task", t, tasks[t])
        /\ \A i \in DOMAIN outbox : i < k =>
             \/ /\ Is(outbox[i], "task", t) /\ outbox[i].row.status = disk.task[t].status
                /\ outbox[i].row.project = disk.task[t].project
             \/ outbox[i].kind = "command" /\ commands[outbox[i].id].task = t
        /\ \A i \in DOMAIN outbox : i > k =>
             \/ Is(outbox[i], "project", tasks[t].project)
             \/ outbox[i] = Row("task", t, tasks[t])

LagInv ==
    /\ Whole(projects, tasks, commands) /\ Whole(disk.project, disk.task, disk.command)
    /\ Wrong(projects, tasks, commands) <= crashes
    /\ OnTheirWay
    /\ outbox # <<>> => (\E p \in Projects : Late(p)) \/ (\E t \in Tasks : Early(t))

\* Sets of commands, tasks and projects are finite, and smaller ones have fewer elements.
LEMMA Sizes ==
    /\ \A S, T : (T \subseteq Commands \/ T \subseteq Tasks \/ T \subseteq Projects) /\ S \subseteq T =>
          /\ IsFiniteSet(S) /\ IsFiniteSet(T) /\ Cardinality(S) \in Nat
          /\ Cardinality(T) \in Nat /\ Cardinality(S) <= Cardinality(T)
    /\ \A cs, t : CommandsOf(cs, t) \subseteq Commands
    /\ \A cs, t, s : WithStatus(cs, t, s) \subseteq Commands
    /\ \A ts, p : TasksOf(ts, p) \subseteq Tasks /\ ActiveTasks(ts, p) \subseteq Tasks
    /\ \A ts, cs : WrongTasks(ts, cs) \subseteq Tasks
    /\ \A ps, ts : WrongProjects(ps, ts) \subseteq Projects
  <1>1. ASSUME NEW S, NEW T, T \subseteq Commands \/ T \subseteq Tasks \/ T \subseteq Projects,
               S \subseteq T
        PROVE  /\ IsFiniteSet(S) /\ IsFiniteSet(T) /\ Cardinality(S) \in Nat
               /\ Cardinality(T) \in Nat /\ Cardinality(S) <= Cardinality(T)
    <2>1. IsFiniteSet(T)
      BY <1>1, OrchestratorAssumption, FS_Subset
    <2>2. IsFiniteSet(S) /\ Cardinality(S) <= Cardinality(T)
      BY <1>1, <2>1, FS_Subset
    <2>3. QED
      BY <2>1, <2>2, FS_CardinalityType
  <1>2. QED
    BY <1>1 DEF CommandsOf, WithStatus, TasksOf, ActiveTasks, WrongTasks, WrongProjects

\* Both kinds of wrong entities are numbers of them.
LEMMA WrongIsNat ==
    \A ps, ts, cs : /\ Cardinality(WrongTasks(ts, cs)) \in Nat
                    /\ Cardinality(WrongProjects(ps, ts)) \in Nat
                    /\ \A t : Cardinality(WrongTasks(ts, cs) \ {t}) \in Nat
  BY Sizes

\* Counters that lag behind lag behind more commands, if none is taken back.
LEMMA Growth ==
    ASSUME NEW row \in TaskRow, NEW cs, NEW more, NEW t, Behind(row, cs, t),
           \A c \in Commands : cs[c].task = t =>
              more[c].task = t /\ (cs[c].status \in Finished => more[c].status = cs[c].status)
    PROVE  Behind(row, more, t)
  <1>1. CommandsOf(cs, t) \subseteq CommandsOf(more, t)
    BY DEF CommandsOf
  <1>2. \A s \in Finished : WithStatus(cs, t, s) \subseteq WithStatus(more, t, s)
    BY DEF WithStatus, CommandsOf
  <1>3. row.count \in Nat /\ \A s \in Finished : row[s] \in Nat
    BY DEF TaskRow, Finished
  <1>4. row.count <= Cardinality(CommandsOf(more, t))
    <2>1. Cardinality(CommandsOf(cs, t)) <= Cardinality(CommandsOf(more, t))
          /\ Cardinality(CommandsOf(cs, t)) \in Nat /\ Cardinality(CommandsOf(more, t)) \in Nat
      BY <1>1, Sizes
    <2>2. row.count <= Cardinality(CommandsOf(cs, t))
      BY DEF Behind
    <2>3. QED
      BY <1>3, <2>1, <2>2
  <1>5. ASSUME NEW s \in Finished PROVE row[s] <= Cardinality(WithStatus(more, t, s))
    <2>1. Cardinality(WithStatus(cs, t, s)) <= Cardinality(WithStatus(more, t, s))
          /\ Cardinality(WithStatus(cs, t, s)) \in Nat /\ Cardinality(WithStatus(more, t, s)) \in Nat
      BY <1>2, Sizes
    <2>2. row[s] <= Cardinality(WithStatus(cs, t, s))
      BY DEF Behind
    <2>3. QED
      BY <1>3, <2>1, <2>2
  <1>6. QED
    BY <1>4, <1>5 DEF Behind

\* What a task says depends on its own commands only.
LEMMA OwnCommands ==
    ASSUME NEW cs, NEW other, NEW t,
           \A c \in Commands : /\ cs[c].task = t <=> other[c].task = t
                               /\ cs[c].task = t => cs[c].status = other[c].status
    PROVE  /\ DerivedStatus(cs, t) = DerivedStatus(other, t)
           /\ \A row : Counted(row, cs, t) <=> Counted(row, other, t)
           /\ \A row : Behind(row, cs, t) <=> Behind(row, other, t)
  <1>1. CommandsOf(cs, t) = CommandsOf(other, t)
    BY DEF CommandsOf
  <1>2. \A s : WithStatus(cs, t, s) = WithStatus(other, t, s)
    BY <1>1 DEF WithStatus, CommandsOf
  <1>3. {cs[c].status : c \in CommandsOf(cs, t)} = {other[c].status : c \in CommandsOf(other, t)}
    BY <1>1 DEF CommandsOf
  <1>4. DerivedStatus(cs, t) = DerivedStatus(other, t)
    BY <1>3 DEF DerivedStatus
  <1>5. QED
    BY <1>1, <1>2, <1>4 DEF Counted, Behind

\* A project is counted by the tasks that are its own.
LEMMA OwnTasks ==
    ASSUME NEW ts, NEW other, NEW p,
           \A t \in Tasks : /\ ts[t].project = p <=> other[t].project = p
                            /\ ts[t].project = p => ts[t].status = other[t].status
    PROVE  TasksOf(ts, p) = TasksOf(other, p) /\ ActiveTasks(ts, p) = ActiveTasks(other, p)
  <1>1. TasksOf(ts, p) = TasksOf(other, p)
    BY DEF TasksOf
  <1>2. QED
    BY <1>1 DEF ActiveTasks, TasksOf

\* What a method makes of task t and of its project before it refreshes them: the changed
\* commands are those of t, and counters that were exact or lagged behind still do.
Counts(t, cs, ts, ps) ==
    /\ cs \in [Commands -> CommandRow] /\ ts \in [Tasks -> TaskRow]
    /\ ps \in [Projects -> ProjectRow]
    /\ t \in Tasks /\ ts[t].status # "none"
    /\ tasks[t].status # "none" => tasks[t].project = ts[t].project
    /\ projects[ts[t].project].exists /\ ps[ts[t].project].exists
    /\ \A u \in Tasks \ {t} : ts[u] = tasks[u]
    /\ \A q \in Projects \ {ts[t].project} : ps[q] = projects[q]
    /\ projects[ts[t].project].taskCount <= ps[ts[t].project].taskCount
    /\ ps[ts[t].project].taskCount <= Cardinality(TasksOf(ts, ts[t].project))
    /\ projects[ts[t].project].taskCount = Cardinality(TasksOf(tasks, ts[t].project)) =>
         ps[ts[t].project].taskCount = Cardinality(TasksOf(ts, ts[t].project))
    /\ \A c \in Commands :
         \/ cs[c] = commands[c]
         \/ /\ cs[c].task = t /\ commands[c].task \in {NoTask, t}
            /\ commands[c].status \notin Finished /\ cs[c].status # "none"
    /\ Behind(ts[t], cs, t)
    /\ (tasks[t].status # "none" => Counted(tasks[t], commands, t)) => Counted(ts[t], cs, t)

\* What the refresh itself changes.
Refreshes(t, cs, ts, ps) ==
    /\ \A u \in Tasks \ {t} : tasks'[u] = tasks[u]
    /\ \A q \in Projects \ {ts[t].project} : projects'[q] = projects[q]
    /\ tasks'[t] = [ts[t] EXCEPT !.status = DerivedStatus(cs, t)]
    /\ tasks'[t].status # "none" /\ tasks'[t].project = ts[t].project
    /\ projects'[ts[t].project].exists
    /\ projects'[ts[t].project].taskCount = ps[ts[t].project].taskCount
    /\ commands' = cs

\* After the refresh the memory is whole, and nothing is wrong that was right.
LEMMA RefreshCounts ==
    ASSUME Whole(projects, tasks, commands), tasks \in [Tasks -> TaskRow],
           commands \in [Commands -> CommandRow],
           NEW rows, NEW t, NEW cs, NEW ts, NEW ps,
           Counts(t, cs, ts, ps), Refresh(rows, t, cs, ts, ps)
    PROVE  /\ Whole(projects', tasks', commands')
           /\ WrongTasks(tasks', commands') \subseteq WrongTasks(tasks, commands)
           /\ WrongProjects(projects', tasks') \subseteq WrongProjects(projects, tasks)
           /\ Refreshes(t, cs, ts, ps)
  <1> DEFINE p == ts[t].project
             row == [ts[t] EXCEPT !.status = DerivedStatus(cs, t)]
             n == Cardinality(ActiveTasks(tasks', p))
             back == [ps[p] EXCEPT !.active = n]
  <1>1. /\ t \in Tasks /\ ts[t] \in TaskRow /\ p \in Projects /\ ps[p] \in ProjectRow
        /\ cs \in [Commands -> CommandRow] /\ ts \in [Tasks -> TaskRow]
        /\ ps \in [Projects -> ProjectRow]
    BY DEF Counts, TaskRow
  <1>2. /\ commands' = cs /\ tasks' = [ts EXCEPT ![t].status = DerivedStatus(cs, t)]
        /\ projects' = [ps EXCEPT ![p].active = n]
    BY DEF Refresh
  <1>3. /\ tasks'[t] = row /\ \A u \in Tasks \ {t} : tasks'[u] = ts[u]
    BY <1>1, <1>2
  <1>4. /\ projects'[p] = back /\ \A q \in Projects \ {p} : projects'[q] = ps[q]
    <2> HIDE DEF n
    <2>1. QED
      BY <1>1, <1>2
  <1>5. /\ row.status = DerivedStatus(cs, t) /\ row.status # "none" /\ row.project = p
        /\ row.count = ts[t].count /\ \A s \in Finished : row[s] = ts[t][s]
    BY <1>1, DerivedStatusType DEF TaskRow, Finished, ActiveStatus
  <1>6. back.exists = ps[p].exists /\ back.taskCount = ps[p].taskCount /\ back.active = n
    <2> HIDE DEF n
    <2>1. QED
      BY <1>1 DEF ProjectRow
  <1> HIDE DEF row, back, n, p
  <1>7. /\ \A u \in Tasks \ {t} : tasks'[u] = tasks[u]
        /\ \A q \in Projects \ {p} : projects'[q] = projects[q]
    BY <1>3, <1>4 DEF Counts, p
  <1>8. p # NewTask.project
    BY <1>1, OrchestratorAssumption DEF NewTask
  <1>9. tasks[t].project \in {NewTask.project, p}
    BY <1>1 DEF Whole, Counts, p
  <1>10. TasksOf(tasks', p) = TasksOf(ts, p)
    BY <1>3, <1>5 DEF TasksOf, p
  <1>11. ASSUME NEW q \in Projects \ {p}
         PROVE  /\ TasksOf(tasks', q) = TasksOf(tasks, q)
                /\ ActiveTasks(tasks', q) = ActiveTasks(tasks, q)
    <2>1. q # NewTask.project
      BY OrchestratorAssumption DEF NewTask
    <2>2. ASSUME NEW u \in Tasks
          PROVE  /\ tasks'[u].project = q <=> tasks[u].project = q
                 /\ tasks'[u].project = q => tasks'[u].status = tasks[u].status
      <3>1. CASE u = t
        BY <1>3, <1>5, <1>9, <2>1, <3>1
      <3>2. CASE u # t
        BY <1>7, <3>2
      <3>3. QED
        BY <3>1, <3>2
    <2>3. QED
      BY <2>2, OwnTasks
  <1>12. ASSUME NEW u \in Tasks \ {t}
         PROVE  /\ DerivedStatus(cs, u) = DerivedStatus(commands, u)
                /\ \A r : Counted(r, cs, u) <=> Counted(r, commands, u)
                /\ \A r : Behind(r, cs, u) <=> Behind(r, commands, u)
    <2>1. u # NoTask
      BY OrchestratorAssumption
    <2>2. ASSUME NEW c \in Commands
          PROVE  /\ cs[c].task = u <=> commands[c].task = u
                 /\ cs[c].task = u => cs[c].status = commands[c].status
      BY <2>1 DEF Counts
    <2>3. QED
      BY <2>2, OwnCommands
  <1>13. Behind(row, cs, t) /\ (Counted(ts[t], cs, t) => Counted(row, cs, t))
    BY <1>5 DEF Counts, Behind, Counted
  <1>14. WrongTasks(tasks', commands') \subseteq WrongTasks(tasks, commands)
    <2>1. ASSUME NEW u \in WrongTasks(tasks', commands') PROVE u \in WrongTasks(tasks, commands)
      <3>1. CASE u = t
        <4>1. ~Counted(ts[t], cs, t)
          BY <1>2, <1>3, <1>5, <1>13, <2>1, <3>1 DEF WrongTasks
        <4>2. tasks[t].status # "none" /\ ~Counted(tasks[t], commands, t)
          BY <4>1 DEF Counts
        <4>3. QED
          BY <1>1, <3>1, <4>2 DEF WrongTasks
      <3>2. CASE u # t
        <4>1. u \in Tasks \ {t}
          BY <3>2 DEF WrongTasks
        <4>2. QED
          BY <1>2, <1>7, <1>12, <2>1, <4>1 DEF WrongTasks
      <3>3. QED
        BY <3>1, <3>2
    <2>2. QED
      BY <2>1
  <1>15. WrongProjects(projects', tasks') \subseteq WrongProjects(projects, tasks)
    <2>1. ASSUME NEW q \in WrongProjects(projects', tasks') PROVE q \in WrongProjects(projects, tasks)
      <3>1. CASE q = p
        <4>1. projects'[p].active = Cardinality(ActiveTasks(tasks', p))
          BY <1>4, <1>6 DEF n
        <4>2. projects'[p].taskCount # Cardinality(TasksOf(tasks', p))
          BY <2>1, <3>1, <4>1 DEF WrongProjects
        <4>3. ps[p].taskCount # Cardinality(TasksOf(ts, p))
          BY <1>4, <1>6, <1>10, <4>2
        <4>4. projects[p].exists /\ projects[p].taskCount # Cardinality(TasksOf(tasks, p))
          BY <4>3 DEF Counts, p
        <4>5. QED
          BY <1>1, <3>1, <4>4 DEF WrongProjects
      <3>2. CASE q # p
        <4>1. q \in Projects \ {p}
          BY <3>2 DEF WrongProjects
        <4>2. QED
          BY <1>7, <1>11, <2>1, <4>1 DEF WrongProjects
      <3>3. QED
        BY <3>1, <3>2
    <2>2. QED
      BY <2>1
  <1>16. projects'[p].exists /\ projects'[p].taskCount = ps[p].taskCount
    BY <1>4, <1>6 DEF Counts, p
  <1>17. Whole(projects', tasks', commands')
    <2>1. ASSUME NEW c \in Commands, cs[c].status = "none" PROVE cs[c].task = NoTask
      BY <2>1 DEF Counts, Whole
    <2>2. ASSUME NEW u \in Tasks
          PROVE  /\ tasks'[u].status = "none" => tasks'[u] = NewTask
                 /\ tasks'[u].status # "none" => projects'[tasks'[u].project].exists
                 /\ Behind(tasks'[u], cs, u)
      <3>1. CASE u = t
        BY <1>3, <1>5, <1>13, <1>16, <3>1
      <3>2. CASE u # t
        <4>1. /\ tasks[u].status = "none" => tasks[u] = NewTask
              /\ tasks[u].status # "none" => projects[tasks[u].project].exists
              /\ Behind(tasks[u], commands, u)
          BY DEF Whole
        <4>2. tasks[u].status # "none" => tasks[u].project \in Projects
          BY DEF TaskRow
        <4>3. tasks[u].status # "none" => projects'[tasks[u].project].exists
          BY <1>7, <1>16, <4>1, <4>2
        <4>4. QED
          BY <1>7, <1>12, <3>2, <4>1, <4>3
      <3>3. QED
        BY <3>1, <3>2
    <2>3. ASSUME NEW q \in Projects
          PROVE  /\ ~projects'[q].exists => projects'[q].taskCount = 0 /\ projects'[q].active = 0
                 /\ projects'[q].taskCount <= Cardinality(TasksOf(tasks', q))
      <3>1. CASE q = p
        BY <1>10, <1>16, <3>1 DEF Counts, p
      <3>2. CASE q # p
        BY <1>7, <1>11, <3>2 DEF Whole
      <3>3. QED
        BY <3>1, <3>2
    <2>4. QED
      BY <1>2, <2>1, <2>2, <2>3 DEF Whole
  <1>18. QED
    BY <1>2, <1>3, <1>5, <1>7, <1>14, <1>15, <1>16, <1>17 DEF p, row, Refreshes

\* The rows that a method hands to Refresh: commands of t first, then t, and the project
\* before its task is counted anew only if the status of the task is the derived one.
RowsFit(rows, t, cs, ts, ps) ==
    /\ rows \in Seq(Rows)
    /\ \A i \in 1 .. Len(rows) :
        /\ rows[i].kind = "command" => rows[i].row = cs[rows[i].id] /\ cs[rows[i].id].task = t
        /\ rows[i].kind = "task" => rows[i] = Row("task", t, ts[t])
        /\ rows[i].kind = "project" => /\ rows[i].id = ts[t].project /\ rows[i].row.exists
                                       /\ rows[i].row.taskCount = ps[ts[t].project].taskCount
        /\ rows[i].kind # "command" => \A j \in 1 .. Len(rows) : j > i => rows[j].kind # "command"
    /\ \/ \A i \in 1 .. Len(rows) : /\ rows[i].kind # "project"
                                    /\ rows[i].kind = "task" => ts[t].status = tasks[t].status
       \/ /\ Len(rows) = 2 /\ rows[1] = Row("task", t, ts[t]) /\ rows[2].kind = "project"
          /\ ts[t].status = DerivedStatus(cs, t)

\* A step that ends with Refresh keeps the counters behind, now and while it is written.
LEMMA MethodLag ==
    ASSUME Inv, LagInv, outbox = <<>>, UNCHANGED <<disk, crashes>>,
           NEW rows, NEW t, NEW cs, NEW ts, NEW ps,
           Counts(t, cs, ts, ps), RowsFit(rows, t, cs, ts, ps), Refresh(rows, t, cs, ts, ps)
    PROVE  LagInv'
  <1> DEFINE p == ts[t].project
             n == Len(rows)
  <1>1. /\ t \in Tasks /\ p \in Projects /\ n \in Nat /\ ts[t] \in TaskRow
        /\ cs \in [Commands -> CommandRow] /\ ts \in [Tasks -> TaskRow]
        /\ ps \in [Projects -> ProjectRow] /\ rows \in Seq(Rows)
    BY DEF Counts, TaskRow, RowsFit
  <1>2. /\ Whole(projects', tasks', commands')
        /\ WrongTasks(tasks', commands') \subseteq WrongTasks(tasks, commands)
        /\ WrongProjects(projects', tasks') \subseteq WrongProjects(projects, tasks)
        /\ \A u \in Tasks \ {t} : tasks'[u] = tasks[u]
        /\ \A q \in Projects \ {p} : projects'[q] = projects[q]
        /\ tasks'[t] = [ts[t] EXCEPT !.status = DerivedStatus(cs, t)]
        /\ tasks'[t].status # "none" /\ tasks'[t].project = p
        /\ projects'[p].exists /\ projects'[p].taskCount = ps[p].taskCount
        /\ commands' = cs
    <2>1. /\ Whole(projects, tasks, commands) /\ tasks \in [Tasks -> TaskRow]
          /\ commands \in [Commands -> CommandRow]
          /\ Counts(t, cs, ts, ps) /\ Refresh(rows, t, cs, ts, ps)
      BY Types DEF LagInv
    <2>2. Whole(projects', tasks', commands')
      BY <2>1, RefreshCounts
    <2>3. WrongTasks(tasks', commands') \subseteq WrongTasks(tasks, commands)
      BY <2>1, RefreshCounts
    <2>4. WrongProjects(projects', tasks') \subseteq WrongProjects(projects, tasks)
      BY <2>1, RefreshCounts
    <2>5. Refreshes(t, cs, ts, ps)
      BY <2>1, RefreshCounts
    <2>6. QED
      BY <2>2, <2>3, <2>4, <2>5 DEF Refreshes
  <1>3. /\ DOMAIN outbox' = 1 .. n + 2 /\ \A i \in 1 .. n : outbox'[i] = rows[i]
        /\ outbox'[n + 1] = Row("task", t, tasks'[t])
        /\ outbox'[n + 2] = Row("project", p, projects'[p])
    <2>1. /\ ts \in [Tasks -> TaskRow] /\ ps \in [Projects -> ProjectRow] /\ t \in Tasks
          /\ ts[t].project \in Projects /\ rows \in Seq(Rows) /\ Refresh(rows, t, cs, ts, ps)
      BY <1>1
    <2>2. DOMAIN outbox' = 1 .. n + 2
      BY <2>1, RefreshRows
    <2>3. \A i \in 1 .. n : outbox'[i] = rows[i]
      BY <2>1, RefreshRows
    <2>4. outbox'[n + 1] = Row("task", t, tasks'[t])
      BY <2>1, RefreshRows
    <2>5. outbox'[n + 2] = Row("project", p, projects'[p])
      BY <2>1, RefreshRows
    <2>6. QED
      BY <2>2, <2>3, <2>4, <2>5
  <1>4. /\ disk'.project = projects /\ disk'.task = tasks /\ disk'.command = commands
        /\ disk' = disk /\ crashes' = crashes /\ crashes \in Nat
    BY PersistedIsStored, Types DEF Inv, StoreIsMemory, Memory
  <1>5. projects \in [Projects -> ProjectRow] /\ projects[p].taskCount <= ps[p].taskCount
    BY Types DEF Counts
  <1> HIDE DEF p, n
  <1>6. \A i \in 1 .. n + 2 : i \in 1 .. n \/ i = n + 1 \/ i = n + 2
    BY <1>1
  <1>7. Cardinality(WrongTasks(tasks, commands)) + Cardinality(WrongProjects(projects, tasks)) <= crashes
    BY DEF LagInv, Wrong
  <1>8. Wrong(projects', tasks', commands') <= crashes
    <2>1. /\ Cardinality(WrongTasks(tasks', commands')) <= Cardinality(WrongTasks(tasks, commands))
          /\ Cardinality(WrongProjects(projects', tasks')) <= Cardinality(WrongProjects(projects, tasks))
      BY <1>2, Sizes
    <2>2. QED
      BY <1>4, <1>7, <2>1, WrongIsNat DEF Wrong
  <1>9. OnTheirWay'
    <2>1. \A c \in Commands :
            /\ disk'.command[c].task \in {NoTask, commands'[c].task}
            /\ disk'.command[c].status \in Finished => disk'.command[c] = commands'[c]
      BY <1>2, <1>4 DEF Counts
    <2>2. ASSUME NEW q \in Projects PROVE disk'.project[q].taskCount <= projects'[q].taskCount
      <3>1. CASE q = p
        BY <1>2, <1>4, <1>5, <3>1
      <3>2. CASE q # p
        <4>1. projects'[q] = projects[q] /\ projects[q].taskCount \in Nat
          BY <1>2, <1>5, <3>2 DEF ProjectRow
        <4>2. QED
          BY <1>4, <4>1
      <3>3. QED
        BY <3>1, <3>2
    <2>3. ASSUME NEW u \in Tasks, tasks'[u].status # "none" PROVE disk'.project[tasks'[u].project].exists
      <3>1. CASE u = t
        BY <1>2, <1>4, <3>1 DEF Counts, p
      <3>2. CASE u # t
        BY <1>2, <1>4, <2>3, <3>2 DEF LagInv, Whole
      <3>3. QED
        BY <3>1, <3>2
    <2>4. ASSUME NEW i \in DOMAIN outbox'
          PROVE  /\ outbox'[i].kind = "command" => outbox'[i].row = commands'[outbox'[i].id]
                 /\ outbox'[i].kind = "task" =>
                      outbox'[i].row = [tasks'[outbox'[i].id] EXCEPT !.status = outbox'[i].row.status]
                 /\ outbox'[i].kind = "project" =>
                      /\ outbox'[i].row.exists
                      /\ outbox'[i].row.taskCount = projects'[outbox'[i].id].taskCount
      <3>1. CASE i \in 1 .. n
        <4>1. /\ rows[i].kind = "command" => rows[i].row = cs[rows[i].id]
              /\ rows[i].kind = "task" => rows[i] = Row("task", t, ts[t])
              /\ rows[i].kind = "project" => /\ rows[i].id = p /\ rows[i].row.exists
                                             /\ rows[i].row.taskCount = ps[p].taskCount
          BY <3>1 DEF RowsFit, n, p
        <4>2. ts[t] = [tasks'[t] EXCEPT !.status = ts[t].status]
          BY <1>1, <1>2 DEF TaskRow
        <4>3. outbox'[i] = rows[i] /\ tasks'[t].status # "none" /\ commands' = cs
              /\ projects'[p].taskCount = ps[p].taskCount
          BY <1>2, <1>3, <3>1
        <4>4. CASE rows[i].kind = "task"
          BY <4>1, <4>2, <4>3, <4>4 DEF Row
        <4>5. CASE rows[i].kind # "task"
          BY <4>1, <4>3, <4>5
        <4>6. QED
          BY <4>4, <4>5
      <3>2. CASE i = n + 1
        <4>1. tasks'[t] = [tasks'[t] EXCEPT !.status = tasks'[t].status]
          BY <1>1, <1>2 DEF TaskRow
        <4>2. QED
          BY <1>3, <3>2, <4>1 DEF Row
      <3>3. CASE i = n + 2
        BY <1>2, <1>3, <3>3 DEF Row
      <3>4. QED
        BY <1>3, <1>6, <3>1, <3>2, <3>3
    <2>5. ASSUME NEW i \in DOMAIN outbox', outbox'[i].kind # "command",
                 NEW j \in DOMAIN outbox', j > i
          PROVE  outbox'[j].kind # "command"
      <3>1. CASE j \in 1 .. n
        <4>1. i \in 1 .. n
          BY <1>1, <1>3, <2>5, <3>1
        <4>2. QED
          BY <1>3, <2>5, <3>1, <4>1 DEF RowsFit, n
      <3>2. CASE j = n + 1 \/ j = n + 2
        BY <1>3, <3>2 DEF Row
      <3>3. QED
        BY <1>3, <1>6, <3>1, <3>2
    <2>6. QED
      BY <2>1, <2>2, <2>3, <2>4, <2>5 DEF OnTheirWay
  <1>10. Early(t)'
    <2>1. /\ \A u \in Tasks \ {t} : disk'.task[u] = tasks'[u]
          /\ \A q \in Projects \ {tasks'[t].project} : disk'.project[q] = projects'[q]
      BY <1>2, <1>4
    <2>2. Cardinality(WrongTasks(disk'.task, disk'.command) \ {t})
            + Cardinality(WrongProjects(disk'.project, disk'.task)) <= crashes'
      <3>1. Cardinality(WrongTasks(tasks, commands) \ {t}) <= Cardinality(WrongTasks(tasks, commands))
        <4>1. WrongTasks(tasks, commands) \ {t} \subseteq WrongTasks(tasks, commands)
          OBVIOUS
        <4>2. QED
          BY <4>1, Sizes
      <3>2. /\ Cardinality(WrongTasks(tasks, commands) \ {t}) \in Nat
            /\ Cardinality(WrongTasks(tasks, commands)) \in Nat
            /\ Cardinality(WrongProjects(projects, tasks)) \in Nat
        BY WrongIsNat
      <3>3. Cardinality(WrongTasks(tasks, commands) \ {t})
              + Cardinality(WrongProjects(projects, tasks)) <= crashes
        BY ONLY <1>4, <1>7, <3>1, <3>2
      <3>4. QED
        BY <1>4, <3>3
    <2>3. CASE \A i \in 1 .. n : /\ rows[i].kind # "project"
                                 /\ rows[i].kind = "task" => ts[t].status = tasks[t].status
      <3>1. n + 1 \in DOMAIN outbox' /\ outbox'[n + 1] = Row("task", t, tasks'[t])
        BY <1>1, <1>3
      <3>2. ASSUME NEW i \in DOMAIN outbox', i < n + 1
            PROVE  \/ /\ Is(outbox'[i], "task", t) /\ outbox'[i].row.status = disk'.task[t].status
                      /\ outbox'[i].row.project = disk'.task[t].project
                   \/ outbox'[i].kind = "command" /\ commands'[outbox'[i].id].task = t
        <4>1. i \in 1 .. n /\ rows[i] \in Rows
          BY <1>1, <1>3, <3>2 DEF n
        <4>2. rows[i].kind \in {"project", "task", "command"}
          BY <4>1 DEF Rows
        <4>3. CASE rows[i].kind = "task"
          <5>1. rows[i] = Row("task", t, ts[t]) /\ ts[t].status = tasks[t].status
            BY <2>3, <4>1, <4>3 DEF RowsFit, n
          <5>2. ts[t].status # "none" /\ tasks[t].project = ts[t].project
            BY <5>1 DEF Counts
          <5>3. outbox'[i] = rows[i]
            BY <1>3, <4>1
          <5>4. rows[i].kind = "task" /\ rows[i].id = t /\ rows[i].row = ts[t]
            BY <5>1 DEF Row
          <5>5. disk'.task[t] = tasks[t]
            BY <1>4
          <5>6. QED
            BY <5>1, <5>2, <5>3, <5>4, <5>5 DEF Is
        <4>4. CASE rows[i].kind = "command"
          BY <1>2, <1>3, <4>1, <4>4 DEF RowsFit, n
        <4>5. rows[i].kind # "project"
          BY <2>3, <4>1
        <4>6. QED
          BY <4>2, <4>3, <4>4, <4>5
      <3>3. ASSUME NEW i \in DOMAIN outbox', i > n + 1
            PROVE  Is(outbox'[i], "project", tasks'[t].project)
        <4>1. i = n + 2
          BY <1>1, <1>3, <3>3
        <4>2. QED
          BY <1>2, <1>3, <4>1 DEF Is, Row
      <3>4. QED
        BY <2>1, <2>2, <3>1, <3>2, <3>3 DEF Early
    <2>4. CASE /\ n = 2 /\ rows[1] = Row("task", t, ts[t]) /\ rows[2].kind = "project"
               /\ ts[t].status = DerivedStatus(cs, t)
      <3>1. tasks'[t] = ts[t]
        BY <1>1, <1>2, <2>4 DEF TaskRow
      <3>2. DOMAIN outbox' = {1, 2, 3, 4} /\ outbox'[1] = rows[1] /\ outbox'[2] = rows[2]
            /\ outbox'[3] = Row("task", t, tasks'[t]) /\ outbox'[4] = Row("project", p, projects'[p])
        <4>1. DOMAIN outbox' = 1 .. 4 /\ 1 \in 1 .. 2 /\ 2 \in 1 .. 2 /\ 2 + 1 = 3 /\ 2 + 2 = 4
              /\ 1 .. 4 = {1, 2, 3, 4}
          BY <1>3, <2>4
        <4>2. QED
          BY <1>3, <2>4, <4>1
      <3>3. rows[2].id = p
        BY <1>1, <2>4 DEF RowsFit, n, p
      <3>4. outbox'[1] = Row("task", t, tasks'[t])
        BY <2>4, <3>1, <3>2
      <3>5. ASSUME NEW i \in DOMAIN outbox', i > 1
            PROVE  \/ Is(outbox'[i], "project", tasks'[t].project)
                   \/ outbox'[i] = Row("task", t, tasks'[t])
        BY <1>2, <2>4, <3>2, <3>3, <3>5 DEF Is, Row
      <3>6. \A i \in DOMAIN outbox' : ~(i < 1)
        BY <3>2
      <3>7. 1 \in DOMAIN outbox'
        BY <3>2
      <3>8. QED
        BY <2>1, <2>2, <3>4, <3>5, <3>6, <3>7 DEF Early
    <2>5. \/ \A i \in 1 .. n : /\ rows[i].kind # "project"
                               /\ rows[i].kind = "task" => ts[t].status = tasks[t].status
          \/ /\ n = 2 /\ rows[1] = Row("task", t, ts[t]) /\ rows[2].kind = "project"
             /\ ts[t].status = DerivedStatus(cs, t)
      BY DEF RowsFit, n
    <2>6. QED
      BY <2>3, <2>4, <2>5
  <1>11. Whole(disk'.project, disk'.task, disk'.command)
    BY <1>4 DEF LagInv
  <1>12. QED
    BY <1>1, <1>2, <1>8, <1>9, <1>10, <1>11 DEF LagInv

\* A store that has the tasks and commands of the memory is whole.
LEMMA WrittenIsWhole ==
    ASSUME NEW ps \in [Projects -> ProjectRow], NEW ts, NEW cs, Whole(ps, ts, cs),
           NEW stored \in [Projects -> ProjectRow],
           \A q \in Projects : /\ stored[q].taskCount <= ps[q].taskCount
                               /\ ~stored[q].exists => stored[q].taskCount = 0 /\ stored[q].active = 0,
           \A t \in Tasks : ts[t].status # "none" => stored[ts[t].project].exists
    PROVE  Whole(stored, ts, cs)
  <1>1. ASSUME NEW q \in Projects PROVE stored[q].taskCount <= Cardinality(TasksOf(ts, q))
    <2>1. ps[q].taskCount <= Cardinality(TasksOf(ts, q))
      BY DEF Whole
    <2>2. /\ stored[q].taskCount \in Nat /\ ps[q].taskCount \in Nat
          /\ Cardinality(TasksOf(ts, q)) \in Nat
      BY Sizes DEF ProjectRow
    <2>3. QED
      BY <2>1, <2>2
  <1>2. QED
    BY <1>1 DEF Whole

\* Writing the next row.
LEMMA FlushLag ==
    ASSUME Inv, LagInv, Flush
    PROVE  LagInv'
  <1> DEFINE h == Head(outbox)
  <1>1. /\ outbox \in Seq(Rows) /\ outbox # <<>> /\ disk \in Store
        /\ disk' = Upsert(disk, h) /\ outbox' = Tail(outbox)
        /\ UNCHANGED <<projects, tasks, commands, crashes>>
    BY DEF Inv, TypeOK, Flush, memory
  <1>2. /\ h \in Rows /\ 1 \in DOMAIN outbox /\ h = outbox[1]
        /\ \A i \in DOMAIN outbox : i \in Nat /\ i >= 1
        /\ \A i \in DOMAIN outbox' : /\ i \in Nat /\ i + 1 \in DOMAIN outbox /\ i + 1 > 1
                                     /\ outbox'[i] = outbox[i + 1]
        /\ \A i \in DOMAIN outbox : i > 1 => i - 1 \in DOMAIN outbox' /\ outbox'[i - 1] = outbox[i]
    BY <1>1
  <1> HIDE DEF h
  <1>3. /\ \A p \in Projects : disk'.project[p] =
              IF Is(h, "project", p) THEN h.row ELSE disk.project[p]
        /\ \A t \in Tasks : disk'.task[t] = IF Is(h, "task", t) THEN h.row ELSE disk.task[t]
        /\ \A c \in Commands : disk'.command[c] =
              IF Is(h, "command", c) THEN h.row ELSE disk.command[c]
    BY <1>1, <1>2, UpsertRow
  <1>4. Inv' /\ disk' \in Store
    BY FlushInv DEF Inv, TypeOK
  <1>5. /\ projects \in [Projects -> ProjectRow] /\ tasks \in [Tasks -> TaskRow]
        /\ commands \in [Commands -> CommandRow] /\ crashes \in Nat
        /\ disk.project \in [Projects -> ProjectRow] /\ disk'.project \in [Projects -> ProjectRow]
        /\ disk.task \in [Tasks -> TaskRow] /\ disk'.task \in [Tasks -> TaskRow]
        /\ disk.command \in [Commands -> CommandRow] /\ disk'.command \in [Commands -> CommandRow]
    BY <1>1, <1>4, Types DEF Store
  <1>6. /\ h.kind = "command" => h.row = commands[h.id]
        /\ h.kind = "task" => /\ h.row = [tasks[h.id] EXCEPT !.status = h.row.status]
                              /\ h.row.status # "none"
        /\ h.kind = "project" => h.row.exists /\ h.row.taskCount = projects[h.id].taskCount
        /\ h.kind # "command" => \A i \in DOMAIN outbox : outbox[i].kind # "command"
    <2>1. h.kind # "command" => \A i \in DOMAIN outbox : outbox[i].kind # "command"
      <3>1. \A i \in DOMAIN outbox : i = 1 \/ i > 1
        BY <1>2
      <3>2. QED
        BY <1>2, <3>1 DEF LagInv, OnTheirWay
    <2>2. QED
      BY <1>2, <2>1 DEF LagInv, OnTheirWay, Inv, RowsSound
  <1>7. OnTheirWay'
    <2>1. ASSUME NEW c \in Commands
          PROVE  /\ disk'.command[c].task \in {NoTask, commands[c].task}
                 /\ disk'.command[c].status \in Finished => disk'.command[c] = commands[c]
      <3>1. CASE Is(h, "command", c)
        BY <1>3, <1>6, <3>1 DEF Is
      <3>2. CASE ~Is(h, "command", c)
        BY <1>3, <3>2 DEF LagInv, OnTheirWay
      <3>3. QED
        BY <3>1, <3>2
    <2>2. ASSUME NEW q \in Projects
          PROVE  /\ disk'.project[q].taskCount <= projects[q].taskCount
                 /\ disk.project[q].exists => disk'.project[q].exists
      <3>1. CASE Is(h, "project", q)
        <4>1. disk'.project[q].taskCount = projects[q].taskCount /\ disk'.project[q].exists
          BY <1>3, <1>6, <3>1 DEF Is
        <4>2. projects[q].taskCount \in Nat
          BY <1>5 DEF ProjectRow
        <4>3. QED
          BY <4>1, <4>2
      <3>2. CASE ~Is(h, "project", q)
        BY <1>3, <3>2 DEF LagInv, OnTheirWay
      <3>3. QED
        BY <3>1, <3>2
    <2>3. ASSUME NEW t \in Tasks, tasks[t].status # "none" PROVE disk'.project[tasks[t].project].exists
      <3>1. tasks[t].project \in Projects
        BY <1>5, <2>3 DEF TaskRow
      <3>2. QED
        BY <2>2, <2>3, <3>1 DEF LagInv, OnTheirWay
    <2>4. ASSUME NEW i \in DOMAIN outbox'
          PROVE  LET r == outbox'[i] IN
                 /\ r.kind = "command" => r.row = commands[r.id]
                 /\ r.kind = "task" => r.row = [tasks[r.id] EXCEPT !.status = r.row.status]
                 /\ r.kind = "project" => r.row.exists /\ r.row.taskCount = projects[r.id].taskCount
                 /\ r.kind # "command" => \A j \in DOMAIN outbox' : j > i => outbox'[j].kind # "command"
      <3>1. i + 1 \in DOMAIN outbox /\ outbox'[i] = outbox[i + 1]
        BY <1>2
      <3>2. ASSUME NEW j \in DOMAIN outbox', j > i
            PROVE  j + 1 \in DOMAIN outbox /\ j + 1 > i + 1 /\ outbox'[j] = outbox[j + 1]
        BY <1>2, <3>2
      <3>3. QED
        BY <3>1, <3>2 DEF LagInv, OnTheirWay
    <2>5. QED
      BY <1>1, <2>1, <2>2, <2>3, <2>4 DEF OnTheirWay
  <1>8. \A q \in Projects : ~disk'.project[q].exists =>
              disk'.project[q].taskCount = 0 /\ disk'.project[q].active = 0
    BY <1>3, <1>6 DEF Is, LagInv, Whole
  <1>9. ASSUME \A i \in DOMAIN outbox : outbox[i].kind # "command"
        PROVE  disk.command = commands /\ disk'.command = commands
    <2>1. \A c \in Commands : disk.command[c] = commands[c]
      BY <1>9 DEF Inv, Persisting, Kept, Is
    <2>2. \A c \in Commands : disk'.command[c] = commands[c]
      BY <1>2, <1>3, <1>9, <2>1 DEF Is
    <2>3. QED
      BY <1>5, <2>1, <2>2
  <1>10. ASSUME disk'.task = tasks, disk'.command = commands
         PROVE  Whole(disk'.project, disk'.task, disk'.command)
    <2>1. \A q \in Projects :
            /\ disk'.project[q].taskCount <= projects[q].taskCount
            /\ ~disk'.project[q].exists => disk'.project[q].taskCount = 0 /\ disk'.project[q].active = 0
      BY <1>1, <1>7, <1>8 DEF OnTheirWay
    <2>2. \A t \in Tasks : tasks[t].status # "none" => disk'.project[tasks[t].project].exists
      BY <1>1, <1>7 DEF OnTheirWay
    <2>3. Whole(disk'.project, tasks, commands)
      BY <1>5, <2>1, <2>2, WrittenIsWhole DEF LagInv
    <2>4. QED
      BY <1>10, <2>3
  <1>11. /\ Whole(projects', tasks', commands') /\ Wrong(projects', tasks', commands') <= crashes'
    BY <1>1 DEF LagInv
  <1>12. ASSUME NEW p \in Projects, Late(p)
         PROVE  Whole(disk'.project, disk'.task, disk'.command) /\ Late(p)'
    <2>1. Is(h, "project", p) \/ (h.kind = "task" /\ h.row = tasks[h.id])
      BY <1>2, <1>12 DEF Late
    <2>2. disk'.task = tasks
      <3>1. \A t \in Tasks : disk'.task[t] = tasks[t]
        BY <1>3, <1>12, <2>1 DEF Late, Is
      <3>2. QED
        BY <1>5, <3>1
    <2>3. disk'.command = commands
      <3>1. \A c \in Commands : disk'.command[c] = commands[c]
        BY <1>3, <1>12, <2>1 DEF Late, Is
      <3>2. QED
        BY <1>5, <3>1
    <2>4. \A q \in Projects \ {p} : disk'.project[q] = projects[q]
      BY <1>3, <1>12, <2>1 DEF Late, Is
    <2>5. ASSUME NEW i \in DOMAIN outbox'
          PROVE  \/ Is(outbox'[i], "project", p)
                 \/ outbox'[i].kind = "task" /\ outbox'[i].row = tasks[outbox'[i].id]
      <3>1. i + 1 \in DOMAIN outbox /\ outbox'[i] = outbox[i + 1]
        BY <1>2
      <3>2. QED
        BY <1>12, <3>1 DEF Late
    <2>6. Late(p)'
      BY <1>1, <2>2, <2>3, <2>4, <2>5 DEF Late
    <2>7. QED
      BY <1>10, <2>2, <2>3, <2>6
  <1>13. ASSUME NEW t \in Tasks, Early(t)
         PROVE  /\ Whole(disk'.project, disk'.task, disk'.command)
                /\ Early(t)' \/ \E p \in Projects : Late(p)'
    <2>1. PICK k \in DOMAIN outbox :
            /\ outbox[k] = Row("task", t, tasks[t])
            /\ \A i \in DOMAIN outbox : i < k =>
                 \/ /\ Is(outbox[i], "task", t) /\ outbox[i].row.status = disk.task[t].status
                    /\ outbox[i].row.project = disk.task[t].project
                 \/ outbox[i].kind = "command" /\ commands[outbox[i].id].task = t
            /\ \A i \in DOMAIN outbox : i > k =>
                 Is(outbox[i], "project", tasks[t].project) \/ outbox[i] = Row("task", t, tasks[t])
      BY <1>13 DEF Early
    <2>2. PICK p \in Projects : p = tasks[t].project
      <3>1. tasks[t].status # "none"
        BY <2>1 DEF Inv, RowsSound, Row
      <3>2. QED
        BY <1>5, <3>1 DEF TaskRow
    <2>3. /\ \A u \in Tasks \ {t} : disk.task[u] = tasks[u]
          /\ \A q \in Projects \ {p} : disk.project[q] = projects[q]
          /\ Cardinality(WrongTasks(disk.task, disk.command) \ {t})
               + Cardinality(WrongProjects(disk.project, disk.task)) <= crashes
      BY <1>13, <2>2 DEF Early
    <2>4. CASE k = 1
      <3>1. h.kind = "task" /\ h.id = t /\ h.row = tasks[t]
        BY <1>2, <2>1, <2>4 DEF Row
      <3>2. disk'.task = tasks
        <4>1. \A u \in Tasks : disk'.task[u] = tasks[u]
          BY <1>3, <2>3, <3>1 DEF Is
        <4>2. QED
          BY <1>5, <4>1
      <3>3. disk'.command = commands
        BY <1>6, <1>9, <3>1
      <3>4. \A q \in Projects \ {p} : disk'.project[q] = projects[q]
        BY <1>3, <2>3, <3>1 DEF Is
      <3>5. ASSUME NEW i \in DOMAIN outbox'
            PROVE  \/ Is(outbox'[i], "project", p)
                   \/ outbox'[i].kind = "task" /\ outbox'[i].row = tasks[outbox'[i].id]
        <4>1. i + 1 \in DOMAIN outbox /\ i + 1 > k /\ outbox'[i] = outbox[i + 1]
          BY <1>2, <2>4
        <4>2. QED
          BY <2>1, <2>2, <4>1 DEF Row
      <3>6. Late(p)'
        BY <1>1, <3>2, <3>3, <3>4, <3>5 DEF Late
      <3>7. QED
        BY <1>10, <2>2, <3>2, <3>3, <3>6
    <2>5. CASE k # 1
      <3>1. k > 1 /\ k - 1 \in DOMAIN outbox' /\ outbox'[k - 1] = outbox[k]
        BY <1>2, <2>5
      <3>2. disk'.project = disk.project
        <4>1. h.kind # "project"
          BY <1>2, <2>1, <3>1 DEF Is
        <4>2. \A q \in Projects : disk'.project[q] = disk.project[q]
          BY <1>3, <4>1 DEF Is
        <4>3. QED
          BY <1>5, <4>2
      <3>3. /\ disk'.task[t].status = disk.task[t].status
            /\ disk'.task[t].project = disk.task[t].project
            /\ \A u \in Tasks \ {t} : disk'.task[u] = disk.task[u]
        BY <1>2, <1>3, <2>1, <3>1 DEF Is
      <3>4. /\ \A c \in Commands : disk.command[c].task = t =>
                  /\ disk'.command[c].task = t
                  /\ disk.command[c].status \in Finished => disk'.command[c].status = disk.command[c].status
            /\ \A c \in Commands : \/ disk'.command[c] = disk.command[c]
                                   \/ /\ disk.command[c].task \in {NoTask, t}
                                      /\ disk'.command[c] = commands[c] /\ commands[c].task = t
        <4>1. ASSUME NEW c \in Commands, Is(h, "command", c)
              PROVE  disk'.command[c] = commands[c] /\ commands[c].task = t
          BY <1>2, <1>3, <1>6, <2>1, <3>1, <4>1 DEF Is
        <4>2. \A c \in Commands : ~Is(h, "command", c) => disk'.command[c] = disk.command[c]
          BY <1>3
        <4>3. \A c \in Commands :
                /\ disk.command[c].task \in {NoTask, commands[c].task}
                /\ disk.command[c].status \in Finished => disk.command[c] = commands[c]
          BY DEF LagInv, OnTheirWay
        <4>4. QED
          BY <4>1, <4>2, <4>3
      <3>5. \A q \in Projects : /\ TasksOf(disk'.task, q) = TasksOf(disk.task, q)
                                /\ ActiveTasks(disk'.task, q) = ActiveTasks(disk.task, q)
        <4>1. ASSUME NEW q \in Projects, NEW u \in Tasks
              PROVE  /\ disk'.task[u].project = q <=> disk.task[u].project = q
                     /\ disk'.task[u].project = q => disk'.task[u].status = disk.task[u].status
          BY <3>3
        <4>2. QED
          BY <4>1, OwnTasks
      <3>6. ASSUME NEW u \in Tasks \ {t}
            PROVE  /\ DerivedStatus(disk'.command, u) = DerivedStatus(disk.command, u)
                   /\ \A r : Counted(r, disk'.command, u) <=> Counted(r, disk.command, u)
                   /\ \A r : Behind(r, disk'.command, u) <=> Behind(r, disk.command, u)
        <4>1. u # NoTask /\ u # t
          BY OrchestratorAssumption
        <4>2. ASSUME NEW c \in Commands
              PROVE  /\ disk'.command[c].task = u <=> disk.command[c].task = u
                     /\ disk'.command[c].task = u => disk'.command[c].status = disk.command[c].status
          BY <3>4, <4>1
        <4>3. QED
          BY <4>2, OwnCommands
      <3>7. WrongTasks(disk'.task, disk'.command) \ {t} = WrongTasks(disk.task, disk.command) \ {t}
        BY <3>3, <3>6 DEF WrongTasks
      <3>8. WrongProjects(disk'.project, disk'.task) = WrongProjects(disk.project, disk.task)
        BY <3>2, <3>5 DEF WrongProjects
      <3>9. Behind(disk'.task[t], disk'.command, t)
        <4>1. CASE h.kind = "command"
          <5>1. disk'.task[t] = disk.task[t] /\ disk.task[t] \in TaskRow
            BY <1>3, <1>5, <4>1 DEF Is
          <5>2. Behind(disk.task[t], disk.command, t)
            BY DEF LagInv, Whole
          <5>3. QED
            BY <3>4, <5>1, <5>2, Growth
        <4>2. CASE h.kind # "command"
          <5>1. Is(h, "task", t)
            BY <1>2, <2>1, <3>1, <4>2
          <5>2. /\ disk'.task[t] = [tasks[t] EXCEPT !.status = h.row.status] /\ tasks[t] \in TaskRow
            BY <1>3, <1>5, <1>6, <5>1 DEF Is
          <5>3. /\ disk'.task[t].count = tasks[t].count
                /\ \A s \in Finished : disk'.task[t][s] = tasks[t][s]
            BY <5>2 DEF TaskRow, Finished
          <5>4. disk'.command = commands
            BY <1>6, <1>9, <4>2
          <5>5. QED
            BY <5>3, <5>4 DEF LagInv, Whole, Behind
        <4>3. QED
          BY <4>1, <4>2
      <3>10. Whole(disk'.project, disk'.task, disk'.command)
        <4>1. ASSUME NEW c \in Commands, disk'.command[c].status = "none"
              PROVE  disk'.command[c].task = NoTask
          BY <3>4, <4>1 DEF LagInv, Whole
        <4>2. ASSUME NEW u \in Tasks
              PROVE  /\ disk'.task[u].status = "none" => disk'.task[u] = NewTask
                     /\ disk'.task[u].status # "none" => disk'.project[disk'.task[u].project].exists
                     /\ Behind(disk'.task[u], disk'.command, u)
          <5>1. CASE u # t
            BY <3>2, <3>3, <3>6, <5>1 DEF LagInv, Whole
          <5>2. CASE u = t
            <6>1. disk'.task[t].status = "none" => disk'.task[t] = NewTask
              <7>1. CASE Is(h, "task", t)
                BY <1>3, <1>6, <7>1 DEF Is
              <7>2. CASE ~Is(h, "task", t)
                BY <1>3, <7>2 DEF LagInv, Whole
              <7>3. QED
                BY <7>1, <7>2
            <6>2. disk'.task[t].status # "none" => disk'.project[disk'.task[t].project].exists
              BY <3>2, <3>3 DEF LagInv, Whole
            <6>3. QED
              BY <3>9, <5>2, <6>1, <6>2
          <5>3. QED
            BY <5>1, <5>2
        <4>3. \A q \in Projects : disk'.project[q].taskCount <= Cardinality(TasksOf(disk'.task, q))
          BY <3>2, <3>5 DEF LagInv, Whole
        <4>4. QED
          BY <1>8, <4>1, <4>2, <4>3 DEF Whole
      <3>11. ASSUME NEW i \in DOMAIN outbox', i < k - 1
             PROVE  \/ /\ Is(outbox'[i], "task", t) /\ outbox'[i].row.status = disk'.task[t].status
                       /\ outbox'[i].row.project = disk'.task[t].project
                    \/ outbox'[i].kind = "command" /\ commands[outbox'[i].id].task = t
        <4>1. i + 1 \in DOMAIN outbox /\ i + 1 < k /\ outbox'[i] = outbox[i + 1]
          BY <1>2, <3>11
        <4>2. QED
          BY <2>1, <3>3, <4>1
      <3>12. ASSUME NEW i \in DOMAIN outbox', i > k - 1
             PROVE  Is(outbox'[i], "project", p) \/ outbox'[i] = Row("task", t, tasks[t])
        <4>1. i + 1 \in DOMAIN outbox /\ i + 1 > k /\ outbox'[i] = outbox[i + 1]
          BY <1>2, <3>12
        <4>2. QED
          BY <2>1, <2>2, <4>1
      <3>13. Early(t)'
        <4>1. /\ \A u \in Tasks \ {t} : disk'.task[u] = tasks[u]
              /\ \A q \in Projects \ {p} : disk'.project[q] = projects[q]
              /\ Cardinality(WrongTasks(disk'.task, disk'.command) \ {t})
                   + Cardinality(WrongProjects(disk'.project, disk'.task)) <= crashes
          BY <2>3, <3>2, <3>3, <3>7, <3>8
        <4>2. QED
          BY <1>1, <2>1, <3>1, <3>11, <3>12, <4>1, <2>2 DEF Early
      <3>14. QED
        BY <3>10, <3>13
    <2>6. QED
      BY <2>4, <2>5
  <1>14. QED
    BY <1>1, <1>7, <1>11, <1>12, <1>13 DEF LagInv

\* A restart takes the store for the memory: at most the entity that was being written
\* is wrong in addition.
LEMMA CrashLag ==
    ASSUME Inv, LagInv, Crash
    PROVE  LagInv'
  <1> DEFINE tasksWrong == WrongTasks(disk.task, disk.command)
             projectsWrong == WrongProjects(disk.project, disk.task)
  <1>1. /\ projects' = disk.project /\ tasks' = disk.task /\ commands' = disk.command
        /\ outbox' = <<>> /\ disk' = disk /\ crashes' = crashes + 1
    BY DEF Crash
  <1>2. crashes \in Nat /\ disk.project \in [Projects -> ProjectRow]
    BY Types DEF Inv, TypeOK, Store
  <1>3. /\ IsFiniteSet(tasksWrong) /\ Cardinality(tasksWrong) \in Nat
        /\ IsFiniteSet(projectsWrong) /\ Cardinality(projectsWrong) \in Nat
    BY Sizes
  <1>4. Cardinality(tasksWrong) + Cardinality(projectsWrong) <= crashes + 1
    <2>1. CASE outbox = <<>>
      <3>1. disk.project = projects /\ disk.task = tasks /\ disk.command = commands
        BY <2>1, PersistedIsStored DEF Inv, StoreIsMemory, Memory
      <3>2. Cardinality(tasksWrong) + Cardinality(projectsWrong) <= crashes
        BY <3>1 DEF LagInv, Wrong
      <3>3. QED
        BY <1>2, <1>3, <3>2
    <2>2. ASSUME NEW p \in Projects, Late(p)
          PROVE  Cardinality(tasksWrong) + Cardinality(projectsWrong) <= crashes + 1
      <3> DEFINE before == WrongProjects(projects, tasks)
      <3>1. Cardinality(tasksWrong) + Cardinality(before) <= crashes
        BY <2>2 DEF LagInv, Wrong, Late
      <3>2. projectsWrong \subseteq before \cup {p}
        BY <2>2 DEF WrongProjects, Late
      <3>3. before \cup {p} \subseteq Projects /\ IsFiniteSet(before) /\ Cardinality(before) \in Nat
        BY Sizes DEF WrongProjects
      <3> HIDE DEF tasksWrong, projectsWrong, before
      <3>4. Cardinality(projectsWrong) <= Cardinality(before \cup {p})
        BY <3>2, <3>3, Sizes
      <3>5. Cardinality(before \cup {p}) <= Cardinality(before) + 1
        BY <3>3, FS_AddElement
      <3>6. Cardinality(before \cup {p}) \in Nat
        BY <3>3, Sizes
      <3>7. QED
        BY <1>2, <1>3, <3>1, <3>3, <3>4, <3>5, <3>6
    <2>3. ASSUME NEW t \in Tasks, Early(t)
          PROVE  Cardinality(tasksWrong) + Cardinality(projectsWrong) <= crashes + 1
      <3> DEFINE others == tasksWrong \ {t}
      <3>1. Cardinality(others) + Cardinality(projectsWrong) <= crashes
        BY <2>3 DEF Early
      <3>2. others \cup {t} \subseteq Tasks
        BY DEF WrongTasks
      <3> HIDE DEF tasksWrong, projectsWrong
      <3>3. tasksWrong \subseteq others \cup {t}
        OBVIOUS
      <3>4. IsFiniteSet(others) /\ Cardinality(others) \in Nat
        BY <3>2, Sizes
      <3> HIDE DEF others
      <3>5. Cardinality(tasksWrong) <= Cardinality(others \cup {t})
        BY <3>2, <3>3, Sizes
      <3>6. Cardinality(others \cup {t}) <= Cardinality(others) + 1
        BY <3>4, FS_AddElement
      <3>7. Cardinality(others \cup {t}) \in Nat
        BY <3>2, Sizes
      <3>8. QED
        BY <1>2, <1>3, <3>1, <3>4, <3>5, <3>6, <3>7
    <2>4. QED
      BY <2>1, <2>2, <2>3 DEF LagInv
  <1>5. OnTheirWay'
    <2>1. \A p \in Projects : disk.project[p].taskCount <= disk.project[p].taskCount
      <3>1. \A p \in Projects : disk.project[p].taskCount \in Nat
        BY <1>2 DEF ProjectRow
      <3>2. QED
        BY <3>1
    <2>2. \A t \in Tasks : disk.task[t].status # "none" => disk.project[disk.task[t].project].exists
      BY DEF LagInv, Whole
    <2>3. QED
      BY <1>1, <2>1, <2>2 DEF OnTheirWay
  <1>6. QED
    BY <1>1, <1>4, <1>5 DEF LagInv, Wrong

\* A step that changes neither memory nor store.
LEMMA StillLag ==
    ASSUME LagInv, UNCHANGED <<memory, disk, outbox, crashes>>
    PROVE  LagInv'
  <1>1. UNCHANGED <<projects, tasks, commands, disk, outbox, crashes>>
    BY DEF memory
  <1>2. OnTheirWay'
    BY <1>1 DEF LagInv, OnTheirWay
  <1>3. \A p \in Projects : Late(p) => Late(p)'
    BY <1>1 DEF Late
  <1>4. \A t \in Tasks : Early(t) => Early(t)'
    BY <1>1 DEF Early
  <1>5. QED
    BY <1>1, <1>2, <1>3, <1>4 DEF LagInv

\* A new project has no tasks, and is the only one to be written.
LEMMA CreateProjectLag ==
    ASSUME Inv, LagInv, NEW p \in Projects, CreateProject(p)
    PROVE  LagInv'
  <1>1. /\ outbox = <<>> /\ projects' = [projects EXCEPT ![p].exists = TRUE]
        /\ outbox' = <<Row("project", p, projects'[p])>> /\ ~projects[p].exists
        /\ UNCHANGED <<tasks, commands, disk, crashes>>
    BY DEF CreateProject, Unlocked, EventLoopFree
  <1>2. /\ disk.project = projects /\ disk.task = tasks /\ disk.command = commands
        /\ projects \in [Projects -> ProjectRow] /\ tasks \in [Tasks -> TaskRow] /\ crashes \in Nat
    BY <1>1, PersistedIsStored, Types DEF Inv, StoreIsMemory, Memory
  <1>3. /\ projects'[p].exists /\ projects'[p].taskCount = 0 /\ projects'[p].active = 0
        /\ projects[p].taskCount = 0
        /\ \A q \in Projects \ {p} : projects'[q] = projects[q]
    BY <1>1, <1>2 DEF ProjectRow, LagInv, Whole
  <1>4. TasksOf(tasks, p) = {} /\ ActiveTasks(tasks, p) = {}
    <2>1. ASSUME NEW t \in Tasks PROVE tasks[t].project # p
      <3>1. CASE tasks[t].status = "none"
        BY <3>1, OrchestratorAssumption DEF LagInv, Whole, NewTask
      <3>2. CASE tasks[t].status # "none"
        BY <1>1, <3>2 DEF LagInv, Whole
      <3>3. QED
        BY <3>1, <3>2
    <2>2. QED
      BY <2>1 DEF TasksOf, ActiveTasks
  <1>5. /\ Cardinality(TasksOf(tasks, p)) = 0 /\ Cardinality(ActiveTasks(tasks, p)) = 0
    BY <1>4, FS_EmptySet
  <1>6. WrongProjects(projects', tasks') \subseteq WrongProjects(projects, tasks)
    BY <1>1, <1>3, <1>5 DEF WrongProjects
  <1>7. Wrong(projects', tasks', commands') <= crashes'
    <2>1. Cardinality(WrongProjects(projects', tasks')) <= Cardinality(WrongProjects(projects, tasks))
      BY <1>6, Sizes
    <2>2. Cardinality(WrongTasks(tasks, commands)) + Cardinality(WrongProjects(projects, tasks)) <= crashes
      BY DEF LagInv, Wrong
    <2>3. QED
      BY <1>1, <1>2, <2>1, <2>2, WrongIsNat DEF Wrong
  <1>8. Whole(projects', tasks', commands')
    <2>1. ASSUME NEW q \in Projects
          PROVE  /\ ~projects'[q].exists => projects'[q].taskCount = 0 /\ projects'[q].active = 0
                 /\ projects'[q].taskCount <= Cardinality(TasksOf(tasks, q))
                 /\ projects[q].exists => projects'[q].exists
      <3>1. CASE q = p
        BY <1>3, <1>5, <3>1
      <3>2. CASE q # p
        BY <1>3, <3>2 DEF LagInv, Whole
      <3>3. QED
        BY <3>1, <3>2
    <2>2. ASSUME NEW t \in Tasks, tasks[t].status # "none" PROVE projects'[tasks[t].project].exists
      <3>1. tasks[t].project \in Projects
        BY <1>2, <2>2 DEF TaskRow
      <3>2. QED
        BY <2>1, <2>2, <3>1 DEF LagInv, Whole
    <2>3. QED
      BY <1>1, <2>1, <2>2 DEF LagInv, Whole
  <1>9. DOMAIN outbox' = {1} /\ outbox'[1] = Row("project", p, projects'[p])
    BY <1>1
  <1>10. OnTheirWay'
    <2>1. ASSUME NEW q \in Projects PROVE disk'.project[q].taskCount <= projects'[q].taskCount
      <3>1. CASE q = p
        BY <1>1, <1>2, <1>3, <3>1
      <3>2. CASE q # p
        <4>1. projects'[q] = projects[q] /\ projects[q].taskCount \in Nat
          BY <1>2, <1>3, <3>2 DEF ProjectRow
        <4>2. QED
          BY <1>1, <1>2, <4>1
      <3>3. QED
        BY <3>1, <3>2
    <2>2. \A t \in Tasks : tasks'[t].status # "none" => disk'.project[tasks'[t].project].exists
      BY <1>1, <1>2 DEF LagInv, Whole
    <2>3. \A i \in DOMAIN outbox' :
            /\ outbox'[i].kind = "project" /\ outbox'[i].row.exists
            /\ outbox'[i].row.taskCount = projects'[outbox'[i].id].taskCount
            /\ \A j \in DOMAIN outbox' : ~(j > i)
      BY <1>3, <1>9 DEF Row
    <2>4. \A c \in Commands : disk'.command[c] = commands'[c]
      BY <1>1, <1>2
    <2>5. QED
      BY <2>1, <2>2, <2>3, <2>4 DEF OnTheirWay
  <1>11. Late(p)'
    BY <1>1, <1>2, <1>3, <1>9 DEF Late, Is, Row
  <1>12. Whole(disk'.project, disk'.task, disk'.command)
    BY <1>1 DEF LagInv
  <1>13. QED
    BY <1>7, <1>8, <1>10, <1>11, <1>12 DEF LagInv

\* A new task has no commands, and its project counts it.
LEMMA CreateTaskLag ==
    ASSUME Inv, LagInv, NEW t \in Tasks, NEW p \in Projects, CreateTask(t, p)
    PROVE  LagInv'
  <1> DEFINE row == [NewTask EXCEPT !.project = p, !.status = "todo"]
             ts == [tasks EXCEPT ![t] = row]
             ps == [projects EXCEPT ![p].taskCount = @ + 1]
             rows == <<Row("task", t, ts[t]), Row("project", p, ps[p])>>
  <1>1. /\ outbox = <<>> /\ Refresh(rows, t, commands, ts, ps)
        /\ projects[p].exists /\ tasks[t].status = "none"
        /\ UNCHANGED <<disk, crashes>>
    BY DEF CreateTask, Unlocked, EventLoopFree
  <1>2. /\ row \in TaskRow /\ row.status = "todo" /\ row.project = p
        /\ row.count = 0 /\ \A s \in Finished : row[s] = 0
    <2>1. row \in TaskRow /\ row.status = "todo" /\ row.project = p
      BY DEF NewTask, TaskRow, ActiveStatus
    <2>2. row.count = 0 /\ row.success = 0 /\ row.failed = 0
      BY DEF NewTask
    <2>3. QED
      BY <2>1, <2>2 DEF Finished
  <1>3. /\ ps \in [Projects -> ProjectRow] /\ \A q \in Projects \ {p} : ps[q] = projects[q]
        /\ ps[p].exists /\ ps[p].taskCount = projects[p].taskCount + 1
        /\ projects[p].taskCount \in Nat
    <2>1. /\ [projects[p] EXCEPT !.taskCount = @ + 1] \in ProjectRow
          /\ [projects[p] EXCEPT !.taskCount = @ + 1].exists
          /\ [projects[p] EXCEPT !.taskCount = @ + 1].taskCount = projects[p].taskCount + 1
          /\ projects[p].taskCount \in Nat
      BY <1>1, Types DEF ProjectRow
    <2>2. QED
      BY <2>1, Types
  <1> HIDE DEF row, ps
  <1>4. /\ ts \in [Tasks -> TaskRow] /\ ts[t] = row
        /\ \A u \in Tasks \ {t} : ts[u] = tasks[u]
    BY <1>2, Types
  <1> HIDE DEF ts
  <1>5. rows \in Seq(Rows) /\ Len(rows) = 2
        /\ rows[1] = Row("task", t, ts[t]) /\ rows[2] = Row("project", p, ps[p])
    <2>1. Row("task", t, ts[t]) \in Rows /\ Row("project", p, ps[p]) \in Rows
      BY <1>2, <1>3, <1>4, RowTypes
    <2>2. QED
      BY <2>1
  <1> HIDE DEF rows
  <1>6. CommandsOf(commands, t) = {} /\ \A s : WithStatus(commands, t, s) = {}
    <2>1. ASSUME NEW c \in Commands PROVE commands[c].task # t
      <3>1. CASE commands[c].status = "none"
        BY <3>1, OrchestratorAssumption DEF LagInv, Whole
      <3>2. CASE commands[c].status # "none"
        BY <1>1, <3>2, NoDanglingCommand
      <3>3. QED
        BY <3>1, <3>2
    <2>2. CommandsOf(commands, t) = {}
      BY <2>1 DEF CommandsOf
    <2>3. QED
      BY <2>2 DEF WithStatus
  <1>7. /\ Cardinality(CommandsOf(commands, t)) = 0
        /\ \A s : Cardinality(WithStatus(commands, t, s)) = 0
    BY <1>6, FS_EmptySet
  <1>8. Counted(ts[t], commands, t) /\ Behind(ts[t], commands, t)
    <2>1. Counted(ts[t], commands, t)
      BY <1>2, <1>4, <1>7 DEF Counted
    <2>2. Behind(ts[t], commands, t)
      BY <1>2, <1>4, <1>7 DEF Behind
    <2>3. QED
      BY <2>1, <2>2
  <1>9. Cardinality(TasksOf(ts, p)) = Cardinality(TasksOf(tasks, p)) + 1
        /\ Cardinality(TasksOf(tasks, p)) \in Nat
    <2>1. tasks[t].project # p
      BY <1>1, OrchestratorAssumption DEF LagInv, Whole, NewTask
    <2>2. TasksOf(ts, p) = TasksOf(tasks, p) \cup {t} /\ t \notin TasksOf(tasks, p)
      BY <1>2, <1>4, <2>1 DEF TasksOf
    <2>3. IsFiniteSet(TasksOf(tasks, p)) /\ Cardinality(TasksOf(tasks, p)) \in Nat
      BY Sizes
    <2>4. QED
      BY <2>2, <2>3, FS_AddElement
  <1>10. DerivedStatus(commands, t) = "todo"
    BY <1>6 DEF DerivedStatus
  <1>11. Counts(t, commands, ts, ps)
    <2>1. projects[p].taskCount <= Cardinality(TasksOf(tasks, p))
      BY DEF LagInv, Whole
    <2>2. /\ projects[p].taskCount <= ps[p].taskCount
          /\ ps[p].taskCount <= Cardinality(TasksOf(ts, p))
          /\ projects[p].taskCount = Cardinality(TasksOf(tasks, p)) =>
                ps[p].taskCount = Cardinality(TasksOf(ts, p))
      BY <1>3, <1>9, <2>1
    <2>3. ts[t].project = p /\ ts[t].status # "none" /\ commands \in [Commands -> CommandRow]
      BY <1>2, <1>4, Types
    <2>4. QED
      BY <1>1, <1>3, <1>4, <1>8, <2>2, <2>3 DEF Counts
  <1>12. RowsFit(rows, t, commands, ts, ps)
    <2>1. ts[t].project = p /\ ts[t].status = "todo"
      BY <1>2, <1>4
    <2>2. \A i \in 1 .. Len(rows) : i = 1 \/ i = 2
      BY <1>5
    <2>3. rows[1].kind = "task" /\ rows[2].kind = "project" /\ rows[2].id = p /\ rows[2].row = ps[p]
      BY <1>5 DEF Row
    <2>4. QED
      BY <1>3, <1>5, <1>10, <2>1, <2>2, <2>3 DEF RowsFit
  <1>13. QED
    BY <1>1, <1>11, <1>12, MethodLag

\* A step that makes command c to row `row' of task t, counts it, and persists it.
LEMMA CommandLag ==
    ASSUME Inv, LagInv, outbox = <<>>, UNCHANGED <<disk, crashes>>,
           NEW c \in Commands, NEW row \in CommandRow, NEW t \in Tasks, row.task = t,
           row.status # "none", tasks[t].status # "none",
           commands[c].status \notin Finished, commands[c].status = "none" \/ commands[c].task = t,
           NEW ts \in [Tasks -> TaskRow], \A u \in Tasks \ {t} : ts[u] = tasks[u],
           ts[t].status = tasks[t].status, ts[t].project = tasks[t].project,
           Behind(ts[t], [commands EXCEPT ![c] = row], t),
           Counted(tasks[t], commands, t) => Counted(ts[t], [commands EXCEPT ![c] = row], t),
           NEW rows \in Seq(Rows), rows[1] = Row("command", c, row),
           \/ Len(rows) = 1
           \/ Len(rows) = 2 /\ rows[2] = Row("command", c, row)
           \/ Len(rows) = 2 /\ rows[2] = Row("task", t, ts[t]),
           Refresh(rows, t, [commands EXCEPT ![c] = row], ts, projects)
    PROVE  LagInv'
  <1> DEFINE cs == [commands EXCEPT ![c] = row]
             p == ts[t].project
  <1>1. /\ cs \in [Commands -> CommandRow] /\ cs[c] = row
        /\ \A d \in Commands \ {c} : cs[d] = commands[d]
        /\ projects \in [Projects -> ProjectRow]
    BY Types
  <1>2. /\ Behind(ts[t], cs, t) /\ Refresh(rows, t, cs, ts, projects)
        /\ Counted(tasks[t], commands, t) => Counted(ts[t], cs, t)
    OBVIOUS
  <1> HIDE DEF cs
  <1>3. p \in Projects /\ projects[p].exists
    BY DEF TaskRow, LagInv, Whole
  <1>4. TasksOf(ts, p) = TasksOf(tasks, p)
    BY DEF TasksOf
  <1>5. /\ projects[p].taskCount <= projects[p].taskCount
        /\ projects[p].taskCount <= Cardinality(TasksOf(ts, p))
    <2>1. projects[p].taskCount \in Nat
      BY <1>1, <1>3 DEF ProjectRow
    <2>2. projects[p].taskCount <= Cardinality(TasksOf(tasks, p))
      BY <1>3 DEF LagInv, Whole
    <2>3. QED
      BY <1>4, <2>1, <2>2
  <1>6. ASSUME NEW d \in Commands
        PROVE  \/ cs[d] = commands[d]
               \/ /\ cs[d].task = t /\ commands[d].task \in {NoTask, t}
                  /\ commands[d].status \notin Finished /\ cs[d].status # "none"
    <2>1. CASE d = c
      BY <1>1, <2>1 DEF LagInv, Whole
    <2>2. CASE d # c
      BY <1>1, <2>2
    <2>3. QED
      BY <2>1, <2>2
  <1>7. Counts(t, cs, ts, projects)
    BY <1>1, <1>2, <1>3, <1>4, <1>5, <1>6 DEF Counts
  <1>8. Len(rows) \in Nat /\ \A i \in 1 .. Len(rows) : (i = 1 \/ (i = 2 /\ Len(rows) = 2))
    <2>1. CASE Len(rows) = 1
      BY <2>1
    <2>2. CASE Len(rows) = 2
      BY <2>2
    <2>3. QED
      BY <2>1, <2>2
  <1>9. RowsFit(rows, t, cs, ts, projects)
    <2>1. \A i \in 1 .. Len(rows) :
            \/ rows[i].kind = "command" /\ rows[i].id = c /\ rows[i].row = row
            \/ i = 2 /\ rows[i] = Row("task", t, ts[t]) /\ rows[i].kind = "task"
      BY <1>8 DEF Row
    <2>2. \A i \in 1 .. Len(rows) : ~(i > 2)
      BY <1>8
    <2>3. QED
      BY <1>1, <2>1, <2>2 DEF RowsFit
  <1>10. QED
    BY <1>2, <1>7, <1>9, MethodLag


\* The counters of a task when command c of it is created: there is one more.
LEMMA OneMore ==
    ASSUME NEW c \in Commands, NEW t, NEW cs, cs[c].task = t, cs[c].status \notin Finished,
           commands[c].task # t, \A d \in Commands \ {c} : cs[d] = commands[d]
    PROVE  /\ Cardinality(CommandsOf(cs, t)) = Cardinality(CommandsOf(commands, t)) + 1
           /\ \A s \in Finished : WithStatus(cs, t, s) = WithStatus(commands, t, s)
  <1>1. CommandsOf(cs, t) = CommandsOf(commands, t) \cup {c} /\ c \notin CommandsOf(commands, t)
    BY DEF CommandsOf
  <1>2. IsFiniteSet(CommandsOf(commands, t)) /\ Cardinality(CommandsOf(commands, t)) \in Nat
    BY Sizes
  <1>3. Cardinality(CommandsOf(cs, t)) = Cardinality(CommandsOf(commands, t)) + 1
    BY <1>1, <1>2, FS_AddElement
  <1>4. ASSUME NEW s \in Finished PROVE WithStatus(cs, t, s) = WithStatus(commands, t, s)
    BY DEF WithStatus, CommandsOf
  <1>5. QED
    BY <1>3, <1>4

\* A new command is counted by its task, in the same step.
LEMMA CreateCommandLag ==
    ASSUME Inv, LagInv, NEW c \in Commands, NEW t \in Tasks, NEW needs \in BOOLEAN,
           CreateCommand(c, t, needs)
    PROVE  LagInv'
  <1> DEFINE row == Created(t, needs)
             cs == [commands EXCEPT ![c] = row]
             ts == [tasks EXCEPT ![t].count = @ + 1]
             rows == <<Row("command", c, cs[c]), Row("task", t, ts[t])>>
  <1>1. /\ outbox = <<>> /\ Refresh(rows, t, cs, ts, projects)
        /\ tasks[t].status # "none" /\ commands[c].status = "none"
        /\ UNCHANGED <<disk, crashes>>
    BY DEF CreateCommand, Unlocked, EventLoopFree
  <1>2. /\ row \in CommandRow /\ row.task = t /\ row.status # "none" /\ row.status \notin Finished
    BY DEF Created, CommandRow, Finished
  <1> HIDE DEF row
  <1>3. cs[c] = row /\ \A d \in Commands \ {c} : cs[d] = commands[d]
    BY Types
  <1>4. /\ ts \in [Tasks -> TaskRow] /\ \A u \in Tasks \ {t} : ts[u] = tasks[u]
        /\ ts[t].status = tasks[t].status /\ ts[t].project = tasks[t].project
        /\ ts[t].count = tasks[t].count + 1 /\ tasks[t].count \in Nat
        /\ \A s \in Finished : ts[t][s] = tasks[t][s]
    <2> DEFINE more == [tasks[t] EXCEPT !.count = @ + 1]
    <2>1. tasks[t] \in TaskRow
      BY Types
    <2>2. more \in TaskRow /\ tasks[t].count \in Nat /\ more.count = tasks[t].count + 1
      BY <2>1 DEF TaskRow
    <2>3. /\ more.status = tasks[t].status /\ more.project = tasks[t].project
          /\ \A s \in Finished : more[s] = tasks[t][s]
      BY <2>1 DEF TaskRow, Finished
    <2>4. ts = [tasks EXCEPT ![t] = more] /\ ts[t] = more
      BY Types
    <2> HIDE DEF more, ts
    <2>5. QED
      BY <2>2, <2>3, <2>4, Types
  <1>5. rows \in Seq(Rows) /\ Len(rows) = 2
        /\ rows[1] = Row("command", c, row) /\ rows[2] = Row("task", t, ts[t])
    <2>1. Row("command", c, row) \in Rows /\ Row("task", t, ts[t]) \in Rows
      BY <1>2, <1>4, RowTypes
    <2>2. QED
      BY <1>3, <2>1
  <1> HIDE DEF rows, cs, ts
  <1>6. /\ Cardinality(CommandsOf(cs, t)) = Cardinality(CommandsOf(commands, t)) + 1
        /\ \A s \in Finished : WithStatus(cs, t, s) = WithStatus(commands, t, s)
    <2>1. commands[c].task # t
      BY <1>1, OrchestratorAssumption DEF LagInv, Whole
    <2>2. QED
      BY <1>2, <1>3, <2>1, OneMore
  <1>7. Behind(ts[t], cs, t)
    <2>1. Behind(tasks[t], commands, t) /\ Cardinality(CommandsOf(commands, t)) \in Nat
      BY Sizes DEF LagInv, Whole
    <2>2. QED
      BY <1>4, <1>6, <2>1 DEF Behind
  <1>8. Counted(tasks[t], commands, t) => Counted(ts[t], cs, t)
    BY <1>4, <1>6 DEF Counted
  <1>9. commands[c].status \notin Finished
    BY <1>1 DEF Finished
  <1>10. QED
    BY <1>1, <1>2, <1>4, <1>5, <1>7, <1>8, <1>9, CommandLag DEF cs

\* A command that is moved on without being finished changes no counter of its task.
LEMMA MoveLag ==
    ASSUME Inv, LagInv, outbox = <<>>, UNCHANGED <<disk, crashes>>,
           NEW c \in Commands, NEW row \in CommandRow, row.task = commands[c].task,
           row.status \notin Finished \cup {"none"},
           commands[c].status \notin Finished \cup {"none"},
           NEW cs, cs = [commands EXCEPT ![c] = row],
           Refresh(<<Row("command", c, cs[c])>>, cs[c].task, cs, tasks, projects)
    PROVE  LagInv'
  <1> DEFINE t == row.task
             rows == <<Row("command", c, row)>>
  <1>1. cs[c] = row /\ \A d \in Commands \ {c} : cs[d] = commands[d]
    BY Types
  <1>2. t \in Tasks /\ tasks[t].status # "none" /\ tasks \in [Tasks -> TaskRow]
    BY NoDanglingCommand, Types DEF CommandRow
  <1>3. Refresh(rows, t, cs, tasks, projects)
    BY <1>1
  <1>4. rows \in Seq(Rows) /\ Len(rows) = 1 /\ rows[1] = Row("command", c, row)
    <2>1. Row("command", c, row) \in Rows
      BY RowTypes
    <2>2. QED
      BY <2>1
  <1> HIDE DEF rows, t
  <1>5. ASSUME NEW d \in Commands
        PROVE  /\ cs[d].task = t <=> commands[d].task = t
               /\ \A s \in Finished : cs[d].status = s <=> commands[d].status = s
    BY <1>1
  <1>6. CommandsOf(cs, t) = CommandsOf(commands, t)
    BY <1>5 DEF CommandsOf
  <1>7. \A s \in Finished : WithStatus(cs, t, s) = WithStatus(commands, t, s)
    BY <1>5, <1>6 DEF WithStatus, CommandsOf
  <1>8. Behind(tasks[t], cs, t) /\ (Counted(tasks[t], commands, t) => Counted(tasks[t], cs, t))
    <2>1. Behind(tasks[t], commands, t)
      BY <1>2 DEF LagInv, Whole
    <2>2. QED
      BY <1>6, <1>7, <2>1 DEF Behind, Counted
  <1>9. row.task = t /\ commands[c].task = t
    BY DEF t
  <1>10. QED
    BY <1>2, <1>3, <1>4, <1>8, <1>9, CommandLag

\* An approval queues the command, and changes no counter.
LEMMA ApproveCommandLag ==
    ASSUME Inv, LagInv, NEW c \in Commands, ApproveCommand(c)
    PROVE  LagInv'
  <1> DEFINE cs == [commands EXCEPT ![c].status = "queued", ![c].approved = TRUE]
             row == [commands[c] EXCEPT !.status = "queued", !.approved = TRUE]
  <1>1. /\ outbox = <<>> /\ commands[c].status = "waiting_approval"
        /\ Refresh(<<Row("command", c, cs[c])>>, cs[c].task, cs, tasks, projects)
        /\ UNCHANGED <<disk, crashes>>
    BY DEF ApproveCommand, Unlocked, EventLoopFree
  <1>2. row \in CommandRow /\ row.task = commands[c].task /\ row.status = "queued"
    <2>1. commands[c] \in CommandRow
      BY Types
    <2>2. QED
      BY <1>1, <2>1 DEF CommandRow
  <1>3. cs = [commands EXCEPT ![c] = row]
    BY Types
  <1> HIDE DEF row, cs
  <1>4. QED
    BY <1>1, <1>2, <1>3, MoveLag DEF Finished

\* The start of a command changes no counter.
LEMMA AdvanceStartLag ==
    ASSUME Inv, LagInv, NEW client \in Clients, NEW c \in Commands, AdvanceStart(client, c)
    PROVE  LagInv'
  <1> DEFINE cs == [commands EXCEPT ![c].status = "running"]
             row == [commands[c] EXCEPT !.status = "running"]
  <1>1. /\ outbox = <<>> /\ commands[c].status = "queued"
        /\ Refresh(<<Row("command", c, cs[c])>>, cs[c].task, cs, tasks, projects)
        /\ UNCHANGED <<disk, crashes>>
    BY DEF AdvanceStart, Advancing, EventLoopFree
  <1>2. row \in CommandRow /\ row.task = commands[c].task /\ row.status = "running"
    <2>1. commands[c] \in CommandRow
      BY Types
    <2>2. QED
      BY <1>1, <2>1 DEF CommandRow
  <1>3. cs = [commands EXCEPT ![c] = row]
    BY Types
  <1> HIDE DEF row, cs
  <1>4. QED
    BY <1>1, <1>2, <1>3, MoveLag DEF Finished

\* The answer of the executor finishes the command, and its task counts it in the same step.
LEMMA AnswerLag ==
    ASSUME Inv, LagInv, NEW client \in Clients, NEW outcome \in Finished, Answer(client, outcome)
    PROVE  LagInv'
  <1> DEFINE c == co[client].awaits
             t == commands[c].task
             row == [commands[c] EXCEPT !.status = outcome]
             cs == [commands EXCEPT ![c].status = outcome]
             ts == [tasks EXCEPT ![t][outcome] = @ + 1]
             rows == <<Row("command", c, cs[c]), Row("command", c, cs[c])>>
  <1>1. /\ outbox = <<>> /\ c # NoCommand /\ Refresh(rows, t, cs, ts, projects)
        /\ UNCHANGED <<disk, crashes>>
    BY DEF Answer, EventLoopFree
  <1>2. c \in Commands
    BY <1>1, Types
  <1>3. commands[c].status = "running"
    <2>1. Awaited(c)
      BY DEF Awaited
    <2>2. QED
      BY <1>2, <2>1 DEF Inv, ExecutionSound
  <1> HIDE DEF c
  <1>4. row \in CommandRow /\ row.task = t /\ row.status = outcome
    <2>1. commands[c] \in CommandRow
      BY <1>2, Types
    <2>2. QED
      BY <1>3, <2>1 DEF CommandRow, Finished
  <1>5. cs = [commands EXCEPT ![c] = row] /\ cs[c] = row
        /\ \A d \in Commands \ {c} : cs[d] = commands[d]
    BY <1>2, Types
  <1> HIDE DEF row, cs
  <1>6. t \in Tasks /\ tasks[t].status # "none" /\ row.status # "none"
    <2>1. row.status # "none"
      BY <1>4 DEF Finished
    <2>2. row.task \in Tasks
      BY <1>4, <2>1 DEF CommandRow
    <2>3. tasks[commands[c].task].status # "none"
      BY <1>1, <1>2, <1>3, NoDanglingCommand
    <2>4. QED
      BY <1>4, <2>1, <2>2, <2>3
  <1>7. /\ ts \in [Tasks -> TaskRow] /\ \A u \in Tasks \ {t} : ts[u] = tasks[u]
        /\ ts[t].status = tasks[t].status /\ ts[t].project = tasks[t].project
        /\ ts[t].count = tasks[t].count
        /\ ts[t][outcome] = tasks[t][outcome] + 1 /\ tasks[t][outcome] \in Nat
        /\ \A s \in Finished \ {outcome} : ts[t][s] = tasks[t][s]
    <2>1. tasks[t] \in TaskRow
      BY <1>6, Types
    <2> DEFINE more == [tasks[t] EXCEPT ![outcome] = @ + 1]
    <2>2. ts = [tasks EXCEPT ![t] = more] /\ ts[t] = more
      BY <1>6, Types
    <2> HIDE DEF t
    <2>3. /\ more \in TaskRow /\ more.status = tasks[t].status
          /\ more.project = tasks[t].project /\ more.count = tasks[t].count
          /\ more[outcome] = tasks[t][outcome] + 1 /\ tasks[t][outcome] \in Nat
          /\ \A s \in Finished \ {outcome} : more[s] = tasks[t][s]
      <3>1. CASE outcome = "success"
        BY <2>1, <3>1 DEF TaskRow, Finished
      <3>2. CASE outcome = "failed"
        BY <2>1, <3>2 DEF TaskRow, Finished
      <3>3. QED
        BY <3>1, <3>2 DEF Finished
    <2> HIDE DEF more, ts
    <2>4. ts \in [Tasks -> TaskRow] /\ \A u \in Tasks \ {t} : ts[u] = tasks[u]
      BY <2>2, <2>3, Types
    <2>5. QED
      BY <2>2, <2>3, <2>4
  <1>8. /\ rows \in Seq(Rows) /\ Len(rows) = 2
        /\ rows[1] = Row("command", c, row) /\ rows[2] = Row("command", c, row)
    <2>1. Row("command", c, row) \in Rows
      BY <1>2, <1>4, RowTypes
    <2>2. QED
      BY <1>5, <2>1
  <1> HIDE DEF rows, ts
  <1>9. commands[c].task = t
    OBVIOUS
  <1> HIDE DEF t
  <1>10. CommandsOf(cs, t) = CommandsOf(commands, t)
    BY <1>4, <1>5, <1>9 DEF CommandsOf
  <1>11. \A s \in Finished \ {outcome} : WithStatus(cs, t, s) = WithStatus(commands, t, s)
    <2>1. ASSUME NEW s \in Finished \ {outcome}, NEW d \in CommandsOf(cs, t)
          PROVE  cs[d].status = s <=> commands[d].status = s
      BY <1>3, <1>4, <1>5, <2>1 DEF CommandsOf, Finished
    <2>2. QED
      BY <1>10, <2>1 DEF WithStatus
  <1>12. Cardinality(WithStatus(cs, t, outcome)) = Cardinality(WithStatus(commands, t, outcome)) + 1
         /\ Cardinality(WithStatus(commands, t, outcome)) \in Nat
    <2>1. c \in CommandsOf(cs, t)
      BY <1>2, <1>4, <1>5 DEF CommandsOf
    <2>2. commands[c].status # outcome
      BY <1>3 DEF Finished
    <2>3. /\ WithStatus(cs, t, outcome) = WithStatus(commands, t, outcome) \cup {c}
          /\ c \notin WithStatus(commands, t, outcome)
      BY <1>4, <1>5, <1>10, <2>1, <2>2 DEF WithStatus, CommandsOf
    <2>4. /\ IsFiniteSet(WithStatus(commands, t, outcome))
          /\ Cardinality(WithStatus(commands, t, outcome)) \in Nat
      BY Sizes
    <2>5. QED
      BY <2>3, <2>4, FS_AddElement
  <1>13. Behind(ts[t], cs, t)
    <2>1. Behind(tasks[t], commands, t)
      BY <1>6 DEF LagInv, Whole
    <2>2. ASSUME NEW s \in Finished PROVE ts[t][s] <= Cardinality(WithStatus(cs, t, s))
      <3>1. CASE s = outcome
        BY <1>7, <1>12, <2>1, <3>1 DEF Behind
      <3>2. CASE s # outcome
        BY <1>7, <1>11, <2>1, <3>2 DEF Behind
      <3>3. QED
        BY <3>1, <3>2
    <2>3. QED
      BY <1>7, <1>10, <2>1, <2>2 DEF Behind
  <1>14. ASSUME Counted(tasks[t], commands, t) PROVE Counted(ts[t], cs, t)
    <2>1. ASSUME NEW s \in Finished PROVE ts[t][s] = Cardinality(WithStatus(cs, t, s))
      <3>1. CASE s = outcome
        BY <1>7, <1>12, <1>14, <3>1 DEF Counted
      <3>2. CASE s # outcome
        BY <1>7, <1>11, <1>14, <3>2 DEF Counted
      <3>3. QED
        BY <3>1, <3>2
    <2>2. QED
      BY <1>7, <1>10, <1>14, <2>1 DEF Counted
  <1>15. /\ commands[c].status \notin Finished
         /\ Refresh(rows, t, [commands EXCEPT ![c] = row], ts, projects)
         /\ Behind(ts[t], [commands EXCEPT ![c] = row], t)
         /\ Counted(tasks[t], commands, t) => Counted(ts[t], [commands EXCEPT ![c] = row], t)
    BY <1>1, <1>3, <1>5, <1>13, <1>14 DEF Finished
  <1>16. QED
    BY <1>1, <1>2, <1>4, <1>6, <1>7, <1>8, <1>9, <1>15, CommandLag

\* At first there is nothing to count.
LEMMA InitLag == Init => LagInv
  <1> SUFFICES ASSUME Init PROVE LagInv
    OBVIOUS
  <1>1. /\ outbox = <<>> /\ crashes = 0 /\ disk = [project |-> projects, task |-> tasks, command |-> commands]
        /\ \A p \in Projects : projects[p] = NewProject
        /\ \A t \in Tasks : tasks[t] = NewTask
        /\ \A c \in Commands : commands[c] = NewCommand
    BY DEF Init
  <1>2. /\ NewProject.exists = FALSE /\ NewProject.taskCount = 0 /\ NewProject.active = 0
        /\ NewTask.status = "none" /\ NewTask.count = 0 /\ NewTask.success = 0 /\ NewTask.failed = 0
        /\ NewCommand.status = "none" /\ NewCommand.task = NoTask
    BY DEF NewProject, NewTask, NewCommand
  <1>3. WrongTasks(tasks, commands) = {} /\ WrongProjects(projects, tasks) = {}
    BY <1>1, <1>2 DEF WrongTasks, WrongProjects
  <1>4. Wrong(projects, tasks, commands) <= crashes
    BY <1>1, <1>3, FS_EmptySet DEF Wrong
  <1>5. ASSUME NEW t \in Tasks PROVE Behind(tasks[t], commands, t)
    <2>1. /\ tasks[t].count = 0 /\ \A s \in Finished : tasks[t][s] = 0
      BY <1>1, <1>2 DEF Finished
    <2>2. /\ Cardinality(CommandsOf(commands, t)) \in Nat
          /\ \A s \in Finished : Cardinality(WithStatus(commands, t, s)) \in Nat
      BY Sizes
    <2>3. QED
      BY <2>1, <2>2 DEF Behind
  <1>6. \A p \in Projects : Cardinality(TasksOf(tasks, p)) \in Nat
    BY Sizes
  <1>7. \A p \in Projects : 0 <= Cardinality(TasksOf(tasks, p))
    BY <1>6
  <1>8. Whole(projects, tasks, commands)
    BY <1>1, <1>2, <1>5, <1>7 DEF Whole
  <1>9. disk.project = projects /\ disk.task = tasks /\ disk.command = commands
    BY <1>1
  <1>10. OnTheirWay
    <2>1. \A c \in Commands : disk.command[c] = commands[c] /\ commands[c].status \notin Finished
      BY <1>1, <1>2, <1>9 DEF Finished
    <2>2. \A p \in Projects : disk.project[p].taskCount <= projects[p].taskCount
      BY <1>1, <1>2, <1>9
    <2>3. DOMAIN outbox = {}
      BY <1>1
    <2>4. QED
      BY <1>1, <1>2, <2>1, <2>2, <2>3 DEF OnTheirWay
  <1>11. QED
    BY <1>1, <1>4, <1>8, <1>9, <1>10 DEF LagInv

\* Every step keeps the counters behind what they count.
LEMMA NextLag == Inv /\ LagInv /\ [Next]_vars => LagInv'
  <1> SUFFICES ASSUME Inv, LagInv, [Next]_vars PROVE LagInv'
    OBVIOUS
  <1>1. CASE \E p \in Projects : CreateProject(p)
    BY <1>1, CreateProjectLag
  <1>2. CASE \E t \in Tasks, p \in Projects : CreateTask(t, p)
    BY <1>2, CreateTaskLag
  <1>3. CASE \E c \in Commands, t \in Tasks, needs \in BOOLEAN : CreateCommand(c, t, needs)
    BY <1>3, CreateCommandLag
  <1>4. CASE \E c \in Commands : ApproveCommand(c)
    BY <1>4, ApproveCommandLag
  <1>5. ASSUME NEW client \in Clients, Handle(client) PROVE LagInv'
    <2>1. CASE \E scope \in Scopes : Read(client, scope)
      BY <2>1, StillLag DEF Read
    <2>2. ASSUME NEW c \in Commands, AdvanceSkip(client, c) PROVE LagInv'
      BY <2>2, StillLag DEF AdvanceSkip
    <2>3. ASSUME NEW c \in Commands, AdvanceStart(client, c) PROVE LagInv'
      BY <2>3, AdvanceStartLag
    <2>4. ASSUME NEW c \in Commands, AdvanceExecute(client, c) PROVE LagInv'
      BY <2>4, StillLag DEF AdvanceExecute
    <2>5. CASE \E outcome \in Finished : Answer(client, outcome)
      BY <2>5, AnswerLag
    <2>6. CASE Release(client)
      BY <2>6, StillLag DEF Release
    <2>7. QED
      BY <1>5, <2>1, <2>2, <2>3, <2>4, <2>5, <2>6 DEF Handle
  <1>6. CASE Flush
    BY <1>6, FlushLag
  <1>7. CASE Crash
    BY <1>7, CrashLag
  <1>8. CASE UNCHANGED vars
    BY <1>8, StillLag DEF vars
  <1>9. QED
    BY <1>1, <1>2, <1>3, <1>4, <1>5, <1>6, <1>7, <1>8 DEF Next

\* The counters lag behind what they count in every state the program can be in.
LEMMA LagInvariance == Spec => []LagInv
  <1>1. Init => LagInv
    BY InitLag
  <1>2. Inv /\ LagInv /\ [Next]_vars => LagInv'
    BY NextLag
  <1>3. QED
    BY <1>1, <1>2, Invariance, PTL DEF Spec

\* Wherever the process dies between two of the rows that a method persists, no counter of
\* a task or of a project runs ahead of the commands and tasks it counts, and however often
\* it died before, there are at most as many entities that disagree with what they consist
\* of: the recount at the end of every method spreads no damage.
THEOREM LaggingCounters == Spec => []CountersLag
  <1>1. LagInv => CountersLag
    <2> SUFFICES ASSUME LagInv PROVE CountersLag
      OBVIOUS
    <2>1. {t \in Tasks : tasks[t].status # "none" /\ ~TaskAgrees(t)} = WrongTasks(tasks, commands)
      BY DEF WrongTasks, TaskAgrees, Counted
    <2>2. {p \in Projects : projects[p].exists /\ ~ProjectAgrees(p)} = WrongProjects(projects, tasks)
      BY DEF WrongProjects, ProjectAgrees
    <2>3. Cardinality({t \in Tasks : tasks[t].status # "none" /\ ~TaskAgrees(t)})
            + Cardinality({p \in Projects : projects[p].exists /\ ~ProjectAgrees(p)}) <= crashes
      BY <2>1, <2>2 DEF LagInv, Wrong
    <2>4. \A t \in Tasks : /\ tasks[t].count <= Cardinality(CommandsOf(commands, t))
                           /\ \A s \in Finished : tasks[t][s] <= Cardinality(WithStatus(commands, t, s))
      BY DEF LagInv, Whole, Behind
    <2>5. \A p \in Projects : projects[p].taskCount <= Cardinality(TasksOf(tasks, p))
      BY DEF LagInv, Whole
    <2>6. QED
      BY <2>3, <2>4, <2>5 DEF CountersLag
  <1>2. QED
    BY <1>1, LagInvariance, PTL
=============================================================================

----------------------------- MODULE OpsChecks -----------------------------
(***************************************************************************)
(* OpsCheckRuntime: check scripts run by one thread each, started by a     *)
(* request handler that may wait for the end.  A check has a record in     *)
(* memory, behind a lock that is held for one read or one update, a row in *)
(* the store, written after the lock is released, and a report file.       *)
(*                                                                         *)
(* A step ends where the lock is released or a row or a file is written,   *)
(* so a handler, a thread and a crash meet at every such point.  Of a      *)
(* record only what can disagree is kept: the status, whether the message  *)
(* says the wait timed out, and whether it names a report.                 *)
(***************************************************************************)
EXTENDS Naturals

CONSTANTS
    Checks,         \* the identifiers of check runs
    NoCheck,        \* in place of a record, before a check is created
    MayWait,        \* the values of "wait_seconds > 0" that requests carry
    MaxCheckFaults, \* bound on failing writes
    MaxCheckCrashes \* bound on crashes of the process

CheckStatus == {"queued", "running", "success", "failed"}
CheckRecord == [status : CheckStatus, late : BOOLEAN, report : BOOLEAN]

ASSUME CheckAssumption ==
    /\ NoCheck \notin CheckRecord
    /\ MayWait \subseteq BOOLEAN
    /\ MaxCheckFaults \in Nat
    /\ MaxCheckCrashes \in Nat

VARIABLES
    checkMem,     \* _runs: the record of every check
    checkDisk,    \* its row in the store
    checkReport,  \* the status in its report file, or "none"
    handler,      \* per check: where its create_run is
    waits,        \* per check: its creator waits
    snapshot,     \* per check: the snapshot its handler holds
    thread,       \* per check: where its _execute_run is
    held,         \* per check: the snapshot its thread holds
    checkFaults, checkCrashes

checkVars == <<checkMem, checkDisk, checkReport, handler, waits, snapshot, thread, held,
               checkFaults, checkCrashes>>

Finished == {"success", "failed"}
Stored == CheckRecord \cup {NoCheck}

Handlers == {"idle", "persist", "start", "wait", "write_back", "put", "over"}
Threads == {"none", "begin", "put_running", "spawn", "put_pid", "script", "report", "set",
            "put_final", "except", "except_report", "except_set", "except_put", "dead"}

CheckInit ==
    /\ checkMem = [c \in Checks |-> NoCheck]
    /\ checkDisk = [c \in Checks |-> NoCheck]
    /\ checkReport = [c \in Checks |-> "none"]
    /\ handler = [c \in Checks |-> "idle"]
    /\ waits = [c \in Checks |-> FALSE]
    /\ snapshot = [c \in Checks |-> NoCheck]
    /\ thread = [c \in Checks |-> "none"]
    /\ held = [c \in Checks |-> NoCheck]
    /\ checkFaults = 0
    /\ checkCrashes = 0

-----------------------------------------------------------------------------
(* The request handler. *)

HandlerAt(c, from, to) == handler[c] = from /\ handler' = [handler EXCEPT ![c] = to]

CreateCheck(c) ==
    /\ HandlerAt(c, "idle", "persist")
    /\ \E w \in MayWait : waits' = [waits EXCEPT ![c] = w]
    /\ checkMem' = [checkMem EXCEPT ![c] = [status |-> "queued", late |-> FALSE, report |-> FALSE]]
    /\ UNCHANGED <<checkDisk, checkReport, snapshot, thread, held, checkFaults, checkCrashes>>

PersistQueued(c) ==
    /\ HandlerAt(c, "persist", "start")
    /\ checkDisk' = [checkDisk EXCEPT ![c] = checkMem[c]]
    /\ UNCHANGED <<checkMem, checkReport, waits, snapshot, thread, held, checkFaults, checkCrashes>>

\* Mutant: every handler waits, asked to or not.
StartThreadAndWait(c) ==
    /\ HandlerAt(c, "start", "wait")
    /\ thread' = [thread EXCEPT ![c] = "begin"]
    /\ UNCHANGED <<checkMem, checkDisk, checkReport, waits, snapshot, held, checkFaults, checkCrashes>>

StartThread(c) ==
    /\ HandlerAt(c, "start", IF waits[c] THEN "wait" ELSE "over")
    /\ thread' = [thread EXCEPT ![c] = "begin"]
    /\ UNCHANGED <<checkMem, checkDisk, checkReport, waits, snapshot, held, checkFaults, checkCrashes>>

\* A poll that finds the check finished ends the wait.
WaitEnds(c) ==
    /\ HandlerAt(c, "wait", "over")
    /\ checkMem[c].status \in Finished
    /\ UNCHANGED <<checkMem, checkDisk, checkReport, waits, snapshot, thread, held,
                   checkFaults, checkCrashes>>

\* The deadline passes: the whole record is copied, whatever its status is by now, and
\* only its message is changed.
WaitTimesOut(c) ==
    /\ HandlerAt(c, "wait", "write_back")
    /\ snapshot' = [snapshot EXCEPT ![c] = [checkMem[c] EXCEPT !.late = TRUE]]
    /\ UNCHANGED <<checkMem, checkDisk, checkReport, waits, thread, held,
                   checkFaults, checkCrashes>>

WriteBack(c) ==
    /\ HandlerAt(c, "write_back", "put")
    /\ checkMem' = [checkMem EXCEPT ![c] = snapshot[c]]
    /\ UNCHANGED <<checkDisk, checkReport, waits, snapshot, thread, held, checkFaults, checkCrashes>>

PutWritten(c) ==
    /\ HandlerAt(c, "put", "over")
    /\ checkDisk' = [checkDisk EXCEPT ![c] = snapshot[c]]
    /\ UNCHANGED <<checkMem, checkReport, waits, snapshot, thread, held, checkFaults, checkCrashes>>

\* A write to the store raises: the request is answered with 500.  A check whose first
\* row could not be written has no thread and stays queued.
HandlerFault(c) ==
    /\ checkFaults < MaxCheckFaults
    /\ handler[c] \in {"persist", "put"}
    /\ handler' = [handler EXCEPT ![c] = "over"]
    /\ checkFaults' = checkFaults + 1
    /\ UNCHANGED <<checkMem, checkDisk, checkReport, waits, snapshot, thread, held, checkCrashes>>

-----------------------------------------------------------------------------
(* The thread of a check. *)

ThreadAt(c, from, to) == thread[c] = from /\ thread' = [thread EXCEPT ![c] = to]

\* _set_run: the update and the snapshot of it are one critical section.
SetRun(c, record) ==
    /\ checkMem' = [checkMem EXCEPT ![c] = record]
    /\ held' = [held EXCEPT ![c] = record]

BeginCheck(c) ==
    /\ ThreadAt(c, "begin", "put_running")
    /\ SetRun(c, [checkMem[c] EXCEPT !.status = "running", !.late = FALSE])
    /\ UNCHANGED <<checkDisk, checkReport, handler, waits, snapshot, checkFaults, checkCrashes>>

\* The script has been spawned: its process id is set, the rest is kept.
Spawn(c) ==
    /\ ThreadAt(c, "spawn", "put_pid")
    /\ SetRun(c, checkMem[c])
    /\ UNCHANGED <<checkDisk, checkReport, handler, waits, snapshot, checkFaults, checkCrashes>>

\* Mutant: the result is set at once, the report is written after that.
ScriptEndsAtOnce(c) ==
    /\ ThreadAt(c, "script", "report")
    /\ \E result \in Finished :
         SetRun(c, [status |-> result, late |-> FALSE, report |-> TRUE])
    /\ UNCHANGED <<checkDisk, checkReport, handler, waits, snapshot, checkFaults, checkCrashes>>

\* The script ends: the result is put into a copy of the record, which the report is
\* written from and which replaces the record after that.
ScriptEnds(c) ==
    /\ ThreadAt(c, "script", "report")
    /\ \E result \in Finished :
         held' = [held EXCEPT ![c] = [status |-> result, late |-> FALSE, report |-> TRUE]]
    /\ UNCHANGED <<checkMem, checkDisk, checkReport, handler, waits, snapshot,
                   checkFaults, checkCrashes>>

\* except: the same with status failed.
Rescue(c) ==
    /\ ThreadAt(c, "except", "except_report")
    /\ held' = [held EXCEPT ![c] = [status |-> "failed", late |-> FALSE, report |-> TRUE]]
    /\ UNCHANGED <<checkMem, checkDisk, checkReport, handler, waits, snapshot,
                   checkFaults, checkCrashes>>

WriteReport(c) ==
    /\ ThreadAt(c, "report", "set") \/ ThreadAt(c, "except_report", "except_set")
    /\ checkReport' = [checkReport EXCEPT ![c] = held[c].status]
    /\ UNCHANGED <<checkMem, checkDisk, handler, waits, snapshot, held, checkFaults, checkCrashes>>

\* Mutant: the result is not persisted.
SetFinalUnsaved(c) ==
    /\ ThreadAt(c, "set", "dead") \/ ThreadAt(c, "except_set", "dead")
    /\ SetRun(c, held[c])
    /\ UNCHANGED <<checkDisk, checkReport, handler, waits, snapshot, checkFaults, checkCrashes>>

SetFinal(c) ==
    /\ ThreadAt(c, "set", "put_final") \/ ThreadAt(c, "except_set", "except_put")
    /\ SetRun(c, held[c])
    /\ UNCHANGED <<checkDisk, checkReport, handler, waits, snapshot, checkFaults, checkCrashes>>

\* _persist_run, with the snapshot taken when the lock was held.
Put(c) ==
    /\ \/ ThreadAt(c, "put_running", "spawn") \/ ThreadAt(c, "put_pid", "script")
       \/ ThreadAt(c, "put_final", "dead") \/ ThreadAt(c, "except_put", "dead")
    /\ checkDisk' = [checkDisk EXCEPT ![c] = held[c]]
    /\ UNCHANGED <<checkMem, checkReport, handler, waits, snapshot, held, checkFaults, checkCrashes>>

\* A write to the store or of the log or report file, or the start of the process,
\* raises.  The try block rescues; what raises in its handler ends the thread.
ThreadFault(c) ==
    /\ checkFaults < MaxCheckFaults
    /\ thread[c] \in {"put_running", "spawn", "put_pid", "report", "put_final",
                      "except_report", "except_put"}
    /\ thread' = [thread EXCEPT ![c] =
                    IF @ \in {"except_report", "except_put"} THEN "dead" ELSE "except"]
    /\ checkFaults' = checkFaults + 1
    /\ UNCHANGED <<checkMem, checkDisk, checkReport, handler, waits, snapshot, held, checkCrashes>>

-----------------------------------------------------------------------------
\* The process dies and is started again: handlers and daemon threads are gone, the
\* records are read from the store and no check is taken up again.
CheckCrash ==
    /\ checkCrashes < MaxCheckCrashes
    /\ checkCrashes' = checkCrashes + 1
    /\ checkMem' = checkDisk
    /\ handler' = [c \in Checks |-> IF handler[c] = "idle" THEN "idle" ELSE "over"]
    /\ thread' = [c \in Checks |-> IF thread[c] = "none" THEN "none" ELSE "dead"]
    /\ UNCHANGED <<checkDisk, checkReport, waits, snapshot, held, checkFaults>>

Handler(c) ==
    \/ CreateCheck(c) \/ PersistQueued(c) \/ StartThread(c) \/ WaitEnds(c) \/ WaitTimesOut(c)
    \/ WriteBack(c) \/ PutWritten(c) \/ HandlerFault(c)

Thread(c) ==
    \/ BeginCheck(c) \/ Spawn(c) \/ ScriptEnds(c) \/ Rescue(c) \/ WriteReport(c) \/ SetFinal(c)
    \/ Put(c) \/ ThreadFault(c)

CheckNext == CheckCrash \/ \E c \in Checks : Handler(c) \/ Thread(c)

CheckSpec == CheckInit /\ [][CheckNext]_checkVars

(***************************************************************************)
(* Threads are scheduled by the operating system, and a handler that has   *)
(* accepted a request runs to its answer.  That a script ends is assumed   *)
(* of the script: the code sets no time-out.                               *)
(***************************************************************************)
CheckFairness ==
    \A c \in Checks : WF_checkVars(Thread(c))
                   /\ WF_checkVars(PersistQueued(c) \/ StartThread(c) \/ WriteBack(c))

FairCheckSpec == CheckSpec /\ CheckFairness

-----------------------------------------------------------------------------
CheckTypeOK ==
    /\ checkMem \in [Checks -> Stored]
    /\ checkDisk \in [Checks -> Stored]
    /\ checkReport \in [Checks -> Finished \cup {"none"}]
    /\ handler \in [Checks -> Handlers]
    /\ waits \in [Checks -> BOOLEAN]
    /\ snapshot \in [Checks -> Stored]
    /\ thread \in [Checks -> Threads]
    /\ held \in [Checks -> Stored]
    /\ checkFaults \in 0..MaxCheckFaults
    /\ checkCrashes \in 0..MaxCheckCrashes

HasStatus(row, statuses) == row # NoCheck /\ row.status \in statuses

\* A check that memory or the store shows as finished has its report, with the same
\* result unless a write failed on the way, and names it: a reader of either never
\* follows a finished check to nothing, whatever snapshots were written back in between
\* and wherever the process died.
FinishedHasReport ==
    \A c \in Checks : \A row \in {checkMem[c], checkDisk[c]} :
      HasStatus(row, Finished) =>
        /\ row.report
        /\ checkReport[c] # "none"
        /\ row.status = checkReport[c] \/ checkFaults > 0

\* Nothing but a waiting creator, a failing write and a crash can take back a result:
\* the record of a check nobody waits for stays as it is once it is finished.
UnwaitedIsFinal ==
    [][\A c \in Checks :
         \/ ~HasStatus(checkMem[c], Finished)
         \/ checkMem'[c] = checkMem[c]
         \/ waits[c] \/ checkFaults > 0 \/ checkCrashes' # checkCrashes]_checkVars

\* The intended end of a check: memory and store agree on a finished record.
CheckSettled(c) == checkMem[c] = checkDisk[c] /\ HasStatus(checkMem[c], Finished)

\* A check that got its thread ends, in memory and in the store, unless its creator
\* waited for it, a write failed or the process died.  (With a waiting creator it may
\* show as running for ever; with a crash it always does.)
CheckEnds ==
    \A c \in Checks :
      thread[c] = "begin" ~> CheckSettled(c) \/ waits[c] \/ checkFaults > 0 \/ checkCrashes > 0

\* What the names TERMINAL_STATUSES and the message "wait timeout; run still in
\* progress" say: a check that has finished stays finished, also when its creator waits.
TerminalIsFinal ==
    [][\A c \in Checks :
         HasStatus(checkMem[c], Finished) => HasStatus(checkMem'[c], Finished)]_checkVars
=============================================================================

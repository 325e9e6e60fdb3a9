-------------------------- MODULE OpsChecksProofs --------------------------
(***************************************************************************)
(* Theorems about OpsChecks, for any checks, failing writes and crashes.   *)
(* Records move between memory, store, the snapshot of a handler and that  *)
(* of a thread, so what is said of a finished record is said of all four.  *)
(***************************************************************************)
EXTENDS MCLive, WorkflowEngineProofs

USE CheckAssumption

\* Where a handler is, there is a record; it has a snapshot where it writes one back, and
\* only one that was asked to wait gets so far.  The thread comes after the handler's
\* first steps.
HandlerSound(c) ==
    /\ handler[c] \in {"persist", "start", "wait", "write_back", "put"} =>
         checkMem[c] \in CheckRecord
    /\ handler[c] \in {"write_back", "put"} => snapshot[c] \in CheckRecord
    /\ handler[c] \in {"wait", "write_back", "put"} => waits[c]
    /\ handler[c] \in {"idle", "persist", "start"} => thread[c] = "none"

\* Where a thread has something to write, or to set.
Writes == {"put_running", "put_pid", "put_final", "except_put"}
Sets == {"set", "except_set"}
Reports == {"report", "except_report"}

\* A thread that runs has a record, and one of its own where it writes one: a finished
\* one once the script has ended.
ThreadSound(c) ==
    /\ thread[c] \notin {"none", "dead"} => checkMem[c] \in CheckRecord
    /\ thread[c] \in Writes \cup Sets \cup Reports => held[c] \in CheckRecord
    /\ thread[c] \in Sets \cup Reports => held[c].status \in Finished /\ held[c].report
    /\ thread[c] \in {"except", "except_report", "except_set", "except_put"} => checkFaults > 0

\* A finished record names its report, which is there and says the same.
RecordSound(c, row) ==
    HasStatus(row, Finished) =>
      /\ row.report
      /\ checkReport[c] # "none"
      /\ row.status = checkReport[c] \/ checkFaults > 0

\* So it is with every record that is shown, or may still be.
RecordsSound(c) ==
    /\ RecordSound(c, checkMem[c])
    /\ RecordSound(c, checkDisk[c])
    /\ handler[c] \in {"write_back", "put"} => RecordSound(c, snapshot[c])
    /\ thread[c] \in Writes \cup Sets => RecordSound(c, held[c])

\* As long as no write failed, nothing is finished before the thread has set its result.
NotEnded(c) ==
    checkFaults = 0 /\ thread[c] \in {"none", "begin", "put_running", "spawn", "put_pid",
                                      "script", "report", "set"} =>
      /\ ~HasStatus(checkMem[c], Finished) /\ ~HasStatus(checkDisk[c], Finished)
      /\ handler[c] \in {"write_back", "put"} => ~HasStatus(snapshot[c], Finished)
      /\ thread[c] \in {"put_running", "put_pid"} => ~HasStatus(held[c], Finished)

CheckSound(c) == HandlerSound(c) /\ ThreadSound(c) /\ RecordsSound(c) /\ NotEnded(c)

CheckInv == CheckTypeOK /\ \A c \in Checks : CheckSound(c)

\* It holds at the start.
LEMMA CheckInitially == CheckInit => CheckInv
  BY DEF CheckInit, CheckInv, CheckTypeOK, CheckSound, HandlerSound, ThreadSound, RecordsSound,
         RecordSound, NotEnded, HasStatus, Stored, Handlers, Threads, Writes, Sets, Reports

\* A step of one check leaves every other check alone.
Others(c) ==
    \A d \in Checks \ {c} :
      /\ checkMem'[d] = checkMem[d] /\ checkDisk'[d] = checkDisk[d]
      /\ checkReport'[d] = checkReport[d] /\ handler'[d] = handler[d] /\ waits'[d] = waits[d]
      /\ snapshot'[d] = snapshot[d] /\ thread'[d] = thread[d] /\ held'[d] = held[d]

\* A step of one check keeps the types, and no fault is ever forgotten.
LEMMA CheckStepType ==
    ASSUME CheckInv, NEW c \in Checks, Handler(c) \/ Thread(c)
    PROVE  CheckTypeOK' /\ Others(c) /\ checkFaults' >= checkFaults
  <1> USE DEF CheckInv, CheckTypeOK, Others, HandlerAt, ThreadAt, Handlers, Threads, Stored
  <1>1. CASE CreateCheck(c)
    BY <1>1 DEF CreateCheck, CheckRecord, CheckStatus
  <1>2. CASE PersistQueued(c)
    BY <1>2 DEF PersistQueued
  <1>3. CASE StartThread(c)
    BY <1>3 DEF StartThread
  <1>4. CASE WaitEnds(c)
    BY <1>4 DEF WaitEnds
  <1>5. CASE WaitTimesOut(c)
    <2>1. checkMem[c] \in CheckRecord
      BY <1>5 DEF WaitTimesOut, CheckSound, HandlerSound
    <2>2. [checkMem[c] EXCEPT !.late = TRUE] \in CheckRecord
      BY <2>1 DEF CheckRecord
    <2>3. QED
      BY <1>5, <2>2 DEF WaitTimesOut
  <1>6. CASE WriteBack(c)
    BY <1>6 DEF WriteBack
  <1>7. CASE PutWritten(c)
    BY <1>7 DEF PutWritten
  <1>8. CASE HandlerFault(c)
    BY <1>8 DEF HandlerFault
  <1>9. CASE BeginCheck(c)
    <2>1. checkMem[c] \in CheckRecord
      BY <1>9 DEF BeginCheck, CheckSound, ThreadSound
    <2>2. [checkMem[c] EXCEPT !.status = "running", !.late = FALSE] \in CheckRecord
      BY <2>1 DEF CheckRecord, CheckStatus
    <2>3. QED
      BY <1>9, <2>2 DEF BeginCheck, SetRun
  <1>10. CASE Spawn(c)
    BY <1>10 DEF Spawn, SetRun
  <1>11. CASE ScriptEnds(c)
    BY <1>11 DEF ScriptEnds, CheckRecord, CheckStatus, Finished
  <1>12. CASE Rescue(c)
    BY <1>12 DEF Rescue, CheckRecord, CheckStatus
  <1>13. CASE WriteReport(c)
    BY <1>13 DEF WriteReport, CheckSound, ThreadSound, Reports
  <1>14. CASE SetFinal(c)
    BY <1>14 DEF SetFinal, SetRun
  <1>15. CASE Put(c)
    BY <1>15 DEF Put
  <1>16. CASE ThreadFault(c)
    BY <1>16 DEF ThreadFault
  <1>17. QED
    BY <1>1, <1>2, <1>3, <1>4, <1>5, <1>6, <1>7, <1>8, <1>9, <1>10, <1>11, <1>12,
       <1>13, <1>14, <1>15, <1>16
    DEF Handler, Thread

\* What holds of a check goes on to hold while other checks take their steps.
LEMMA OthersSound ==
    ASSUME CheckInv, NEW c \in Checks, CheckTypeOK', Others(c), checkFaults' >= checkFaults,
           NEW d \in Checks \ {c}
    PROVE  CheckSound(d)'
  <1>1. CheckSound(d) /\ checkFaults \in Nat /\ checkFaults' \in Nat
    BY DEF CheckInv, CheckTypeOK
  <1>2. HandlerSound(d)' /\ ThreadSound(d)'
    BY <1>1 DEF CheckSound, HandlerSound, ThreadSound, Others
  <1>3. RecordsSound(d)'
    BY <1>1 DEF CheckSound, RecordsSound, RecordSound, Others
  <1>4. NotEnded(d)'
    BY <1>1 DEF CheckSound, NotEnded, Others
  <1>5. QED
    BY <1>2, <1>3, <1>4 DEF CheckSound

\* A record that begins is a record, and runs.
LEMMA RecordBegun ==
    ASSUME NEW record \in CheckRecord
    PROVE  LET begun == [record EXCEPT !.status = "running", !.late = FALSE]
           IN  begun \in CheckRecord /\ begun.status = "running"
  BY DEF CheckRecord, CheckStatus

\* And a check keeps it in its own steps.
LEMMA OwnSound ==
    ASSUME CheckInv, NEW c \in Checks, Handler(c) \/ Thread(c), CheckTypeOK'
    PROVE  CheckSound(c)'
  <1> USE DEF CheckInv, CheckTypeOK, CheckSound, HandlerSound, ThreadSound, RecordsSound, RecordSound,
              NotEnded, HasStatus, Finished, Writes, Sets, Reports, HandlerAt, ThreadAt
  <1>1. CASE CreateCheck(c)
    BY <1>1 DEF CreateCheck, CheckRecord, CheckStatus
  <1>2. CASE PersistQueued(c)
    BY <1>2 DEF PersistQueued
  <1>3. CASE StartThread(c)
    BY <1>3 DEF StartThread
  <1>4. CASE WaitEnds(c)
    BY <1>4 DEF WaitEnds
  <1>5. CASE WaitTimesOut(c)
    <2> DEFINE copy == [checkMem[c] EXCEPT !.late = TRUE]
    <2>1. handler[c] = "wait" /\ checkMem[c] \in CheckRecord
      BY <1>5 DEF WaitTimesOut
    <2>2. /\ copy \in CheckRecord /\ copy # NoCheck
          /\ copy.status = checkMem[c].status
          /\ copy.report = checkMem[c].report
      BY <2>1, CheckAssumption DEF CheckRecord
    <2>3. /\ snapshot' = [snapshot EXCEPT ![c] = copy]
          /\ handler' = [handler EXCEPT ![c] = "write_back"]
          /\ UNCHANGED <<checkMem, checkDisk, checkReport, waits, thread, held, checkFaults>>
      BY <1>5 DEF WaitTimesOut
    <2> HIDE DEF copy
    <2>4. HandlerSound(c)' /\ ThreadSound(c)' /\ NotEnded(c)'
      BY <2>1, <2>2, <2>3
    <2>5. RecordsSound(c)'
      BY <2>1, <2>2, <2>3
    <2>6. QED
      BY <2>4, <2>5
  <1>6. CASE WriteBack(c)
    BY <1>6 DEF WriteBack
  <1>7. CASE PutWritten(c)
    BY <1>7 DEF PutWritten
  <1>8. CASE HandlerFault(c)
    BY <1>8 DEF HandlerFault
  <1>9. CASE BeginCheck(c)
    <2> DEFINE begun == [checkMem[c] EXCEPT !.status = "running", !.late = FALSE]
    <2>1. /\ thread[c] = "begin" /\ thread' = [thread EXCEPT ![c] = "put_running"]
          /\ checkMem' = [checkMem EXCEPT ![c] = begun] /\ held' = [held EXCEPT ![c] = begun]
          /\ UNCHANGED <<checkDisk, checkReport, handler, waits, snapshot, checkFaults>>
      BY <1>9 DEF BeginCheck, SetRun
    <2>2. begun \in CheckRecord /\ begun.status = "running"
      <3>1. checkMem[c] \in CheckRecord
        BY <2>1
      <3>2. QED
        BY <3>1, RecordBegun
    <2> HIDE DEF begun
    <2>3. HandlerSound(c)' /\ ThreadSound(c)' /\ NotEnded(c)'
      BY <2>1, <2>2
    <2>4. RecordsSound(c)'
      BY <2>1, <2>2
    <2>5. QED
      BY <2>3, <2>4
  <1>10. CASE Spawn(c)
    BY <1>10 DEF Spawn, SetRun
  <1>11. CASE ScriptEnds(c)
    BY <1>11 DEF ScriptEnds, CheckRecord, CheckStatus
  <1>12. CASE Rescue(c)
    BY <1>12 DEF Rescue, CheckRecord, CheckStatus
  <1>13. CASE WriteReport(c)
    <2>1. /\ \/ thread[c] = "report" /\ thread' = [thread EXCEPT ![c] = "set"]
             \/ /\ thread[c] = "except_report"
                /\ thread' = [thread EXCEPT ![c] = "except_set"]
          /\ checkReport' = [checkReport EXCEPT ![c] = held[c].status]
          /\ UNCHANGED <<checkMem, checkDisk, handler, waits, snapshot, held, checkFaults>>
      BY <1>13 DEF WriteReport
    <2>2. HandlerSound(c)' /\ ThreadSound(c)' /\ NotEnded(c)'
      BY <2>1
    <2>3. checkReport'[c] = held[c].status /\ held[c].status \in Finished /\ held[c].report
      BY <2>1
    <2>4. checkFaults > 0 \/ (checkFaults = 0 /\ thread[c] = "report")
      BY <2>1
    <2>5. RecordsSound(c)'
      BY <2>1, <2>3, <2>4
    <2>6. QED
      BY <2>2, <2>5
  <1>14. CASE SetFinal(c)
    BY <1>14 DEF SetFinal, SetRun
  <1>15. CASE Put(c)
    BY <1>15 DEF Put
  <1>16. CASE ThreadFault(c)
    BY <1>16 DEF ThreadFault
  <1>17. QED
    BY <1>1, <1>2, <1>3, <1>4, <1>5, <1>6, <1>7, <1>8, <1>9, <1>10, <1>11, <1>12,
       <1>13, <1>14, <1>15, <1>16
    DEF Handler, Thread

\* And every step, a crash among them, keeps it.
LEMMA CheckStep == CheckInv /\ [CheckNext]_checkVars => CheckInv'
  <1> SUFFICES ASSUME CheckInv, [CheckNext]_checkVars PROVE CheckInv'
    OBVIOUS
  <1>1. ASSUME NEW c \in Checks, Handler(c) \/ Thread(c) PROVE CheckInv'
    <2>1. CheckTypeOK' /\ Others(c) /\ checkFaults' >= checkFaults
      BY <1>1, CheckStepType
    <2>2. \A d \in Checks \ {c} : CheckSound(d)'
      BY <2>1, OthersSound
    <2>3. QED
      BY <1>1, <2>1, <2>2, OwnSound DEF CheckInv
  <1>2. CASE CheckCrash
    BY <1>2
    DEF CheckCrash, CheckInv, CheckTypeOK, Handlers, Threads, CheckSound, HandlerSound,
        ThreadSound, RecordsSound, RecordSound, NotEnded, HasStatus, Writes, Sets, Reports
  <1>3. CASE UNCHANGED checkVars
    BY <1>3
    DEF checkVars, CheckInv, CheckTypeOK, CheckSound, HandlerSound, ThreadSound, RecordsSound,
        RecordSound, NotEnded, HasStatus
  <1>4. QED
    BY <1>1, <1>2, <1>3 DEF CheckNext

\* The invariant of handlers, threads and records.
THEOREM CheckInvariance == CheckSpec => []CheckInv
  BY CheckInitially, CheckStep, PTL DEF CheckSpec

\* A finished check has its report and names it, with the same result unless a write
\* failed, for any checks, failing writes, waiting creators and crashes
\* (OpsCheckRuntime._execute_run, _write_run_report, create_run).
THEOREM ReportsThere == CheckSpec => []FinishedHasReport
  <1>1. CheckInv => FinishedHasReport
    BY DEF CheckInv, CheckSound, RecordsSound, RecordSound, FinishedHasReport
  <1>2. QED
    BY <1>1, CheckInvariance, PTL

\* A step that takes back a result is one of a waiting creator, comes after a failing
\* write or is a crash.
LEMMA UnwaitedStep ==
    ASSUME CheckInv, CheckNext, NEW c \in Checks, HasStatus(checkMem[c], Finished),
           checkMem'[c] # checkMem[c]
    PROVE  waits[c] \/ checkFaults > 0 \/ checkCrashes' # checkCrashes
  <1>1. CASE CheckCrash
    BY <1>1 DEF CheckCrash, CheckInv, CheckTypeOK
  <1>2. ASSUME NEW d \in Checks, Handler(d) \/ Thread(d) PROVE waits[c] \/ checkFaults > 0
    <2>1. d = c
      BY <1>2, CheckStepType DEF Others
    <2>2. CASE CreateCheck(c) \/ WriteBack(c)
      BY <2>2
      DEF CreateCheck, WriteBack, HandlerAt, CheckInv, CheckTypeOK, CheckSound, HandlerSound,
          NotEnded
    <2>3. CASE BeginCheck(c) \/ Spawn(c) \/ SetFinal(c)
      BY <2>3
      DEF BeginCheck, Spawn, SetFinal, ThreadAt, CheckInv, CheckTypeOK, CheckSound, ThreadSound,
          NotEnded
    <2>4. QED
      BY <1>2, <2>1, <2>2, <2>3
      DEF Handler, Thread, PersistQueued, StartThread, WaitEnds, WaitTimesOut, PutWritten,
          HandlerFault, ScriptEnds, Rescue, WriteReport, Put, ThreadFault
  <1>3. QED
    BY <1>1, <1>2 DEF CheckNext

\* The result of a check nobody waits for is final, but for failing writes and crashes
\* (OpsCheckRuntime.create_run, _set_run).
THEOREM ResultsFinal == CheckSpec => UnwaitedIsFinal
  <1>1. CheckInv /\ [CheckNext]_checkVars =>
          [\A c \in Checks :
             \/ ~HasStatus(checkMem[c], Finished)
             \/ checkMem'[c] = checkMem[c]
             \/ waits[c] \/ checkFaults > 0 \/ checkCrashes' # checkCrashes]_checkVars
    BY UnwaitedStep
  <1>2. QED
    BY <1>1, CheckInvariance, PTL DEF CheckSpec, UnwaitedIsFinal

-----------------------------------------------------------------------------
(* Together with the engine                                                *)

\* What is proved of the engine whose process may die, and of the checks, holds where both
\* are checked in one run.
THEOREM LiveComposition == LiveSpec => CrashSpec /\ CheckSpec
  <1>1. LiveInit => Init /\ CheckInit
    BY DEF LiveInit
  <1>2. [LiveNext]_liveVars => [Step]_vars /\ [CheckNext]_checkVars
    <2>1. CASE UNCHANGED liveVars
      BY <2>1 DEF liveVars
    <2>2. CASE LiveNext
      BY <2>2 DEF LiveNext, Step
    <2>3. QED
      BY <2>1, <2>2
  <1>3. QED
    BY <1>1, <1>2, PTL DEF LiveSpec, CrashSpec, CheckSpec

\* Every variable of the engine and of the checks keeps its type.
THEOREM LiveTypeCorrect == LiveSpec => []LiveTypeOK
  <1>1. TypeOK /\ CheckInv => LiveTypeOK
    BY DEF CheckInv, LiveTypeOK
  <1>2. QED
    BY <1>1, LiveComposition, EngineTypeCorrect, CheckInvariance, PTL
=============================================================================

----------------------------- MODULE JobLedger -----------------------------
(***************************************************************************)
(* What a ledger of jobs promises, with no word of tasks, counters, locks, *)
(* clients or a memory: an entry only ever moves forward, from submitted   *)
(* over cleared, started and run to finished; a guarded job is cleared     *)
(* before it is started; a job is run after it was entered as started, and *)
(* a second time only for a death after the first.                         *)
(***************************************************************************)
EXTENDS Naturals

CONSTANT Jobs

VARIABLES entry, runs, deaths

vars == <<entry, runs, deaths>>

Outcomes == {"success", "failed"}

Blank == [state |-> "none", guarded |-> FALSE, cleared |-> FALSE]

Init ==
    /\ entry = [j \in Jobs |-> Blank]
    /\ runs = [j \in Jobs |-> 0]
    /\ deaths = 0

Move(j, from, e) ==
    /\ entry[j].state = from
    /\ entry' = [entry EXCEPT ![j] = e]
    /\ UNCHANGED <<runs, deaths>>

Submit(j, guarded) ==
    Move(j, "none", [state |-> IF guarded THEN "waiting_approval" ELSE "queued",
                     guarded |-> guarded, cleared |-> FALSE])

Clear(j) ==
    Move(j, "waiting_approval", [state |-> "queued", guarded |-> entry[j].guarded, cleared |-> TRUE])

Start(j) == Move(j, "queued", [entry[j] EXCEPT !.state = "running"])

Run(j) ==
    /\ entry[j].state = "running" /\ runs[j] <= deaths
    /\ runs' = [runs EXCEPT ![j] = @ + 1]
    /\ UNCHANGED <<entry, deaths>>

Finish(j, outcome) ==
    /\ runs[j] > 0
    /\ Move(j, "running", [entry[j] EXCEPT !.state = outcome])

Die == deaths' = deaths + 1 /\ UNCHANGED <<entry, runs>>

Next ==
    \/ \E j \in Jobs, guarded \in BOOLEAN : Submit(j, guarded)
    \/ \E j \in Jobs : Clear(j) \/ Start(j) \/ Run(j)
    \/ \E j \in Jobs, outcome \in Outcomes : Finish(j, outcome)
    \/ Die

Spec == Init /\ [][Next]_vars
=============================================================================

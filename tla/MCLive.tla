------------------------------- MODULE MCLive -------------------------------
(***************************************************************************)
(* The two parts of the control center that go on without being asked, for *)
(* TLC: the coroutines of the engine and the threads of the ops checks.    *)
(* Neither knows of the other, so every behaviour here is one of a single  *)
(* part, the one in focus, and no property speaks of both.                 *)
(***************************************************************************)
EXTENDS MCWorkflowEngine, OpsChecks

VARIABLE focus

liveVars == <<vars, checkVars, focus>>

LiveInit == Init /\ CheckInit /\ focus \in {"engine", "checks"}

LiveNext ==
    /\ UNCHANGED focus
    /\ \/ focus = "engine" /\ Next /\ UNCHANGED checkVars
       \/ focus = "engine" /\ Crash /\ UNCHANGED checkVars
       \/ focus = "checks" /\ CheckNext /\ UNCHANGED vars

LiveSpec == LiveInit /\ [][LiveNext]_liveVars

\* Of each part, what its module justifies.
FairLiveSpec == LiveSpec /\ EngineFairness /\ CheckFairness

\* The ranges of the variables of both parts.
LiveTypeOK == TypeOK /\ CheckTypeOK
=============================================================================

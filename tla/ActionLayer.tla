---------------------------- MODULE ActionLayer ----------------------------
(***************************************************************************)
(* The execution of a work item's text, from ExecutorService through the   *)
(* opencode adapter and the HTTP client to the Action Layer, a process of  *)
(* its own with one thread per request, and on to an LLM provider.         *)
(*                                                                         *)
(* A call has a caller (an await in the control center, with a timeout), a *)
(* thread of the Action Layer, which nobody stops when the caller has      *)
(* given up, and requests to the provider, which the thread repeats.       *)
(***************************************************************************)
EXTENDS Naturals

CONSTANTS
    Calls,           \* calls of execute_workitem, one per work item
    MaxRetries,      \* ACTION_LAYER_LLM_MAX_RETRIES
    MaxLayerRestarts \* bound on restarts of the Action Layer

ASSUME ActionAssumption == MaxRetries \in Nat /\ MaxLayerRestarts \in Nat

VARIABLES
    layer,      \* the Action Layer: "down", or what its environment makes it
    caller,     \* per call: "idle", "waiting", or what execute_workitem returned
    worker,     \* per call: its thread in the Action Layer
    tries,      \* per call: requests sent to the provider
    said,       \* per call: how the last request to the provider ended
    layerRestarts

actionVars == <<layer, caller, worker, tries, said, layerRestarts>>

\* What a work item can be told, and what the routing of a role can raise instead.
Outcome == {"success", "failed", "needs_discussion", "raised"}

\* How a provider ends a request: with an answer that names a status the layer knows,
\* that is no JSON object, that names another status, or that has no content to read;
\* with an error of the request or of the server; with no connection; or, once the
\* connection stands, with silence or a reset.
Answers == {"success", "failed", "needs_discussion", "prose", "other", "empty"}
Faults == {"client_error", "server_error", "unreachable", "silent"}

\* from_env and main: the layer runs with a provider, or without one when the
\* environment does not require it.  It never serves otherwise.
Serving == {"llm", "mock"}

ActionInit ==
    /\ layer \in Serving \cup {"down"}
    /\ caller = [c \in Calls |-> "idle"]
    /\ worker = [c \in Calls |-> "none"]
    /\ tries = [c \in Calls |-> 0]
    /\ said = [c \in Calls |-> "none"]
    /\ layerRestarts = 0

-----------------------------------------------------------------------------
(* The control center's side. *)

Waits(c) == caller[c] = "waiting"
Returned(c, outcome) == caller' = [caller EXCEPT ![c] = outcome]

\* The adapter turns every failure of the client into a failed execution.
ClientFails(c) == Waits(c) /\ Returned(c, "failed")

\* The policy file is read before the adapter's try: a broken one raises.  A role may
\* be routed to an executor that does not exist, and the adapter may be unbound.
Route(c) ==
    /\ caller[c] = "idle"
    /\ \E r \in {"waiting", "failed", "raised"} : Returned(c, r)
    /\ UNCHANGED <<layer, worker, tries, said, layerRestarts>>

NoConnection(c) ==
    /\ layer = "down"
    /\ worker[c] = "none"
    /\ ClientFails(c)
    /\ UNCHANGED <<layer, worker, tries, said, layerRestarts>>

CallTimesOut(c) ==
    /\ ClientFails(c)
    /\ UNCHANGED <<layer, worker, tries, said, layerRestarts>>

-----------------------------------------------------------------------------
(* A thread of the Action Layer. *)

\* The thread ends with a response, which reaches the caller if it still listens.
Respond(c, outcome) ==
    /\ worker' = [worker EXCEPT ![c] = "over"]
    /\ IF Waits(c) THEN Returned(c, outcome) ELSE UNCHANGED caller

Ask(c) ==
    /\ worker' = [worker EXCEPT ![c] = "asking"]
    /\ tries' = [tries EXCEPT ![c] = @ + 1]

\* The thread takes the request: no text, no profile or no agent of that role is a 422,
\* which the client raises; a text that carries the discussion marker is answered here;
\* the mock answers by the words of the text; and a provider is asked.
Receive(c) ==
    /\ layer \in Serving
    /\ Waits(c) /\ worker[c] = "none"
    /\ \/ \E r \in {"failed", "needs_discussion"} : Respond(c, r) /\ UNCHANGED tries
       \/ layer = "mock" /\ Respond(c, "success") /\ UNCHANGED tries
       \/ layer = "llm" /\ Ask(c) /\ UNCHANGED caller
    /\ UNCHANGED <<layer, said, layerRestarts>>

Asking(c) == worker[c] = "asking"
Ended(c, how) == Asking(c) /\ said' = [said EXCEPT ![c] = how]

\* Mutant: only the request for a discussion is told from success.
ParsedLoosely(answer) ==
    CASE answer \in {"success", "prose", "other", "failed"} -> "success"
      [] answer = "needs_discussion" -> "needs_discussion"
      [] answer = "empty" -> "failed"

\* parse_llm_text_response: a status the layer does not know, and an answer that is no
\* JSON object, count as success; content that cannot be read is an error.
Parsed(answer) ==
    CASE answer \in {"success", "prose", "other"} -> "success"
      [] answer = "needs_discussion" -> "needs_discussion"
      [] answer \in {"failed", "empty"} -> "failed"

ProviderAnswers(c) ==
    /\ \E answer \in Answers : Ended(c, answer) /\ Respond(c, Parsed(answer))
    /\ UNCHANGED <<layer, tries, layerRestarts>>

Retried(fault) == fault \in {"server_error", "unreachable"}
\* Mutant: one request too many.
MayRetryOnceMore(c) == tries[c] <= MaxRetries + 1

MayRetry(c) == tries[c] <= MaxRetries

AsksAgain(c) ==
    /\ \E fault \in Faults : Retried(fault) /\ Ended(c, fault)
    /\ MayRetry(c)
    /\ Ask(c)
    /\ UNCHANGED <<layer, caller, layerRestarts>>

GivesUp(c) ==
    /\ \E fault \in Faults \ {"silent"} :
        /\ Ended(c, fault)
        /\ Retried(fault) => ~MayRetry(c)
    /\ Respond(c, "failed")
    /\ UNCHANGED <<layer, tries, layerRestarts>>

\* A timeout or a reset while the answer is read is no URLError: it goes through the
\* handler, the thread ends without a response and the client sees the connection close.
ThreadDies(c) ==
    /\ Ended(c, "silent")
    /\ Respond(c, "failed")
    /\ UNCHANGED <<layer, tries, layerRestarts>>

\* With the process its threads and their connections are gone.
LayerStops ==
    /\ layer \in Serving
    /\ layerRestarts < MaxLayerRestarts
    /\ layer' = "down"
    /\ layerRestarts' = layerRestarts + 1
    /\ caller' = [c \in Calls |-> IF Asking(c) /\ Waits(c) THEN "failed" ELSE caller[c]]
    /\ worker' = [c \in Calls |-> IF Asking(c) THEN "lost" ELSE worker[c]]
    /\ UNCHANGED <<tries, said>>

LayerStarts ==
    /\ layer = "down"
    /\ layer' \in Serving
    /\ UNCHANGED <<caller, worker, tries, said, layerRestarts>>

ActionNext ==
    \/ LayerStops \/ LayerStarts
    \/ \E c \in Calls :
        \/ Route(c) \/ NoConnection(c) \/ CallTimesOut(c) \/ Receive(c)
        \/ ProviderAnswers(c) \/ AsksAgain(c) \/ GivesUp(c) \/ ThreadDies(c)

ActionSpec == ActionInit /\ [][ActionNext]_actionVars

-----------------------------------------------------------------------------
(* What the chain promises. *)

\* Calls, threads and provider requests stay within what the code can hold.
ActionTypeOK ==
    /\ layer \in Serving \cup {"down"}
    /\ caller \in [Calls -> {"idle", "waiting"} \cup Outcome]
    /\ worker \in [Calls -> {"none", "asking", "over", "lost"}]
    /\ tries \in [Calls -> 0..(MaxRetries + 1)]
    /\ said \in [Calls -> {"none"} \cup Answers \cup Faults]
    /\ layerRestarts \in 0..MaxLayerRestarts

\* However many requests failed, threads died and callers left before: a work item whose
\* text went to a provider is told success or a discussion only for the answer to its
\* last request, and a thread gives up over a fault it retries only when it has sent every
\* request it may (default_http_post, parse_llm_text_response, OpenCodeAdapter.execute).
ToldWhatWasSaid ==
    \A c \in Calls : tries[c] > 0 =>
        /\ caller[c] = "success" => said[c] \in {"success", "prose", "other"}
        /\ caller[c] = "needs_discussion" => said[c] = "needs_discussion"
        /\ worker[c] = "over" /\ Retried(said[c]) => tries[c] = MaxRetries + 1
=============================================================================

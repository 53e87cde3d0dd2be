------------------------------- MODULE JudgeApi ------------------------------
(***************************************************************************)
(* The judge API of each region and the network before it, as far as the   *)
(* SDKs rely on them; both are external.                                   *)
(*                                                                         *)
(* A region answers a submission that carries the Idempotency-Key of an    *)
(* earlier one with the run the earlier one started there, and knows its   *)
(* own runs only.  A run is known by the request that started it.  A       *)
(* request may be lost, and it may be served long after the client has     *)
(* given it up.                                                            *)
(***************************************************************************)
EXTENDS Integers

CONSTANTS Calls,        \* calls of operations, by any number of clients
          Op,           \* the operation of a call
          GivenKey,     \* the idempotency key a submit is given, or None
          Uuids,        \* the keys that are UUIDs
          Bases,        \* the regions
          MaxRetries,   \* RetryPolicy.max_retries
          None

ASSUME OpsAssumption ==
  Op \in [Calls -> {"run", "submit", "judge", "get_result", "read"}]
ASSUME KeysAssumption ==
  /\ Uuids \cap Calls = {}
  /\ None \notin Uuids \cup Calls \cup Bases
ASSUME RetriesAssumption == MaxRetries \in Nat

VARIABLES runs,         \* the runs the regions have executed
          finished,     \* those that have ended
          flying        \* requests on their way that nobody waits for

serverVars == <<runs, finished>>

(* `run` generates a fresh key: there is none like it, as there is no call  *)
(* like it.                                                                 *)
Key(c) ==
  IF Op[c] = "run" THEN c
  ELSE IF Op[c] = "submit" THEN GivenKey[c]
  ELSE None

Submits(c) == Op[c] \in {"run", "submit", "judge"}

(* A submission; the attempt tells those of one call apart.                 *)
Requests == [call : {c \in Calls : Submits(c)}, base : Bases,
             key : Calls \cup Uuids \cup {None}, attempt : 0 .. MaxRetries]
-----------------------------------------------------------------------------
Replays(request, run) ==
  request.key # None /\ run.key = request.key /\ run.base = request.base

RunOf(request) ==
  IF \E run \in runs : Replays(request, run)
  THEN CHOOSE run \in runs : Replays(request, run)
  ELSE request

Serve(request) == runs' = runs \cup {RunOf(request)}

(* What a region shows of a run, before and after its end.                  *)
Executions(run) ==
  IF run \in finished
  THEN {[status |-> "completed", verdict |-> TRUE], [status |-> "error", verdict |-> FALSE],
        [status |-> "unknown", verdict |-> TRUE]}
  ELSE {[status |-> "running", verdict |-> FALSE], [status |-> "unknown", verdict |-> FALSE]}

End(run) ==
  /\ run \in runs \ finished
  /\ finished' = finished \cup {run}
  /\ UNCHANGED <<runs, flying>>

(* A request nobody waits for reaches its region after all.                 *)
Deliver(request) ==
  /\ request \in flying
  /\ Serve(request)
  /\ flying' = flying \ {request}
  /\ UNCHANGED finished

(* What becomes of a submission that brings no answer: it is lost, or it is *)
(* served, or it still may be.                                              *)
GoesUnanswered(request) ==
  \/ UNCHANGED <<runs, flying>>
  \/ Serve(request) /\ UNCHANGED flying
  \/ flying' = flying \cup {request} /\ UNCHANGED runs

ApiInit == runs = {} /\ finished = {} /\ flying = {}
=============================================================================

------------------------------ MODULE Operations -----------------------------
(***************************************************************************)
(* What the clients of the four SDKs have in common: how far the call of an *)
(* operation is, what it has used up, and how it ends.  Each SDK's module  *)
(* adds what its own code does, in one action for each way an attempt or a *)
(* wait can end.  Which base a call starts with is Regions' business: here *)
(* it is any.                                                              *)
(***************************************************************************)
EXTENDS JudgeApi

CONSTANT MaxPolls       \* PollPolicy.max_polls

ASSUME PollsAssumption == MaxPolls \in Nat

VARIABLES pc,           \* how far a call is
          base,         \* the base it sends to
          attempt,      \* transport.send's `attempt`
          polls,        \* how many of the poll delays are used up
          runId,        \* the run it polls or asks for
          outcome,      \* what the operation returned
          reported,     \* report_failure was called for its base
          closed,       \* the application has closed the client (Python)
          cancelled     \* the calls whose context it has cancelled (Go)

callVars == <<pc, base, attempt, polls, runId, outcome, reported>>
context == <<base, closed, cancelled>>
vars == <<callVars, closed, cancelled, serverVars, flying>>

(* Of the errors only what the code tells apart: a server, timeout or        *)
(* transport error is "transient", an auth, rate_limit or api error is       *)
(* "refused", but for the 404 of a result.                                   *)
Errors == {"config", "transient", "refused", "not_found", "decode", "unclassified", "dropped"}
Error(kind) == [kind |-> kind]
-----------------------------------------------------------------------------
Init ==
  /\ pc = [c \in Calls |-> "idle"]
  /\ base = [c \in Calls |-> None]
  /\ attempt = [c \in Calls |-> 0]
  /\ polls = [c \in Calls |-> 0]
  /\ runId = [c \in Calls |-> None]
  /\ outcome = [c \in Calls |-> Error("pending")]
  /\ reported = [c \in Calls |-> FALSE]
  /\ closed = FALSE
  /\ cancelled = {}
  /\ ApiInit

GoTo(c, where) == pc' = [pc EXCEPT ![c] = where] /\ UNCHANGED outcome

Return(c, result) ==
  /\ pc' = [pc EXCEPT ![c] = "done"]
  /\ outcome' = [outcome EXCEPT ![c] = result]

(* The call posts: `run` sends its submission first and then reads results. *)
Posts(c) ==
  \/ Op[c] \in {"submit", "judge"}
  \/ Op[c] = "run" /\ runId[c] = None

Request(c) == [call |-> c, base |-> base[c], key |-> Key(c), attempt |-> attempt[c]]

(* The request of the attempt is lost, served or late ...                   *)
Unanswered(c) ==
  IF Posts(c) THEN GoesUnanswered(Request(c)) ELSE UNCHANGED <<runs, flying>>

(* ... or is served, and an answer comes back.                              *)
Served(c) ==
  /\ IF Posts(c) THEN Serve(Request(c)) ELSE UNCHANGED runs
  /\ UNCHANGED flying

(* The ids the application has: of accepted runs, and of runs `run` gave up.*)
KnownIds == {outcome[d].run : d \in {e \in Calls : outcome[e].kind \in {"accepted", "still_running"}}}

(* The application calls the operation, and the call gets a base.           *)
Begin(c) ==
  /\ pc[c] = "idle"
  /\ IF Op[c] = "get_result"
     THEN \E run \in KnownIds : runId' = [runId EXCEPT ![c] = run]
     ELSE UNCHANGED runId
  /\ \E b \in Bases : base' = [base EXCEPT ![c] = b]
  /\ GoTo(c, "attempting")
  /\ UNCHANGED <<attempt, polls, reported, closed, cancelled, serverVars, flying>>

(* The operation fails before anything is sent.                             *)
Reject(c) ==
  /\ pc[c] = "idle"
  /\ Return(c, Error("config"))
  /\ UNCHANGED <<base, attempt, polls, runId, reported, closed, cancelled, serverVars, flying>>

BadKey(c) == Op[c] = "submit" /\ GivenKey[c] \notin Uuids \cup {None}

Environment ==
  /\ (\E run \in runs : End(run)) \/ (\E request \in flying : Deliver(request))
  /\ UNCHANGED <<callVars, closed, cancelled>>
-----------------------------------------------------------------------------
Outcomes ==
  [kind : {"pending", "ok"} \cup Errors]
  \cup [kind : {"execution", "accepted", "judged", "still_running"}, run : Requests]

TypeOK ==
  /\ pc \in [Calls -> {"idle", "attempting", "reading", "backoff", "polling", "done"}]
  /\ base \in [Calls -> Bases \cup {None}]
  /\ attempt \in [Calls -> 0 .. MaxRetries]
  /\ polls \in [Calls -> 0 .. MaxPolls]
  /\ runId \in [Calls -> Requests \cup {None}]
  /\ outcome \in [Calls -> Outcomes]
  /\ reported \in [Calls -> BOOLEAN]
  /\ closed \in BOOLEAN
  /\ cancelled \subseteq Calls
  /\ runs \subseteq Requests
  /\ finished \subseteq runs
  /\ flying \subseteq Requests

(* "A run is never executed twice" (README.md:76): whatever is retried, lost *)
(* or served after the client gave it up, a call causes one execution.      *)
ExecutedAtMostOnce ==
  \A r, s \in runs : r.call = s.call => r = s

(* `run` "polls ... on the region that accepted the run" (README.md:77): the *)
(* region it polls has the run.                                             *)
PollsFindTheRun ==
  \A c \in Calls : Op[c] = "run" => outcome[c].kind # "not_found"

(* The budget is used up before a run is given up as still running.         *)
GivenUpAfterTheBudget ==
  \A c \in Calls : outcome[c].kind = "still_running" => polls[c] = MaxPolls

(* The attempts a request is worth.                                         *)
Attempts(c) == IF Posts(c) /\ Key(c) = None THEN 0 ELSE MaxRetries

(* A region is penalised only for a call that failed for good: all the      *)
(* attempts its last request is worth were made, two more than one for a    *)
(* read or a keyed submission and none for the rest (README.md:76), or, in  *)
(* Go, the caller cancelled it.                                             *)
ReportedOnlyWhenExhausted ==
  \A c \in Calls : reported[c] =>
    /\ outcome[c].kind = "transient"
    /\ c \in cancelled \/ attempt[c] = Attempts(c)

(* Every call that has been started returns, whatever the regions do, or is *)
(* in TypeScript left to read a body.                                       *)
EveryCallReturns ==
  \A c \in Calls : pc[c] = "attempting" ~> pc[c] \in {"done", "reading"}

(* The operations keep the promise of Exchange.                             *)
Phase == [c \in Calls |-> IF pc[c] \in {"idle", "done"} THEN pc[c] ELSE "open"]

Promise == INSTANCE Exchange WITH phase <- Phase

(* What `run` returns is the end of the execution it caused itself, and     *)
(* what it gives up is that execution too.                                  *)
RunReturnsItsOwn == Promise!RunReturnsItsOwn

ImplementsExchange == Promise!Spec
-----------------------------------------------------------------------------
(***************************************************************************)
(* What the documents say and some of the code does not do.                *)
(***************************************************************************)
(* "A region that fails a request is skipped" (README.md:85), and only then: *)
(* a call that is reported has made its last attempt in vain.               *)
OnlyFailuresAreReported ==
  \A c \in Calls : reported[c] => attempt[c] = Attempts(c)

(* "`get_result` can pick the run up later" (README.md:77).                 *)
PickedUpLater ==
  \A c \in Calls : Op[c] = "get_result" => outcome[c].kind # "not_found"

(* "Reads and idempotent submits retry 5xx, timeouts and network errors     *)
(* twice" (README.md:76), and "a region that fails a request is skipped for *)
(* 5 minutes" (README.md:85): an operation that ends with one of these has  *)
(* been retried and the region is reported.                                 *)
TransientFailuresCount ==
  \A c \in Calls : outcome[c].kind = "transient" =>
    attempt[c] = Attempts(c) /\ reported[c]

(* "Per-request timeout" (typescript/README.md:64): each call ends.          *)
EveryCallEnds == \A c \in Calls : pc[c] = "attempting" ~> pc[c] = "done"
=============================================================================

------------------------------ MODULE ClientTs ------------------------------
(***************************************************************************)
(* The operations of the TypeScript SDK (typescript/src/client.ts,         *)
(* transport.ts).  A call cannot be cancelled.                             *)
(***************************************************************************)
EXTENDS Operations

(* Mutant: every request is retried.                                        *)
RetryableAlways(c) == TRUE

(* retryable, and send's `retries`.                                         *)
Retryable(c) == ~Posts(c) \/ Key(c) # None
Retries(c) == IF Retryable(c) THEN MaxRetries ELSE 0

IsDone(execution) == execution.status \in {"completed", "error"} \/ execution.verdict
-----------------------------------------------------------------------------
(* An answer is awaited, or its body.                                       *)
Awaits(c) == pc[c] \in {"attempting", "reading"}

Start(c) == IF BadKey(c) THEN Reject(c) ELSE Begin(c)

(* A 5xx, a timeout or a network error: back off, if attempts are left ...  *)
AttemptFails(c) ==
  /\ pc[c] = "attempting"
  /\ attempt[c] < Retries(c)
  /\ Unanswered(c)
  /\ GoTo(c, "backoff")
  /\ UNCHANGED <<attempt, polls, runId, reported, finished, context>>

Retry(c) ==
  /\ pc[c] = "backoff"
  /\ attempt' = [attempt EXCEPT ![c] = @ + 1]
  /\ GoTo(c, "attempting")
  /\ UNCHANGED <<polls, runId, reported, serverVars, flying, context>>

(* ... or fail with it, and report the region's failure.                    *)
LastAttemptFails(c) ==
  /\ pc[c] = "attempting"
  /\ attempt[c] >= Retries(c)
  /\ Unanswered(c)
  /\ Return(c, Error("transient"))
  /\ reported' = [reported EXCEPT ![c] = TRUE]
  /\ UNCHANGED <<attempt, polls, runId, finished, context>>

(* The headers have come: attempt's `finally` stops the timer, and the body  *)
(* is awaited without one.                                                  *)
Stall(c) ==
  /\ pc[c] = "attempting"
  /\ Served(c) \/ UNCHANGED <<runs, flying>>
  /\ GoTo(c, "reading")
  /\ UNCHANGED <<attempt, polls, runId, reported, finished, context>>

(* The body breaks off and fetch's TypeError is passed on as it is, or it    *)
(* comes in full and cannot be decoded.                                     *)
BodyFails(c) ==
  /\ Awaits(c)
  /\ Served(c)
  /\ \E kind \in {"unclassified", "decode"} : Return(c, Error(kind))
  /\ UNCHANGED <<attempt, polls, runId, reported, finished, context>>

(* fetch rejects with an error `attempt` does not know: it is rethrown.      *)
AttemptThrows(c) ==
  /\ pc[c] = "attempting"
  /\ Unanswered(c)
  /\ Return(c, Error("unclassified"))
  /\ UNCHANGED <<attempt, polls, runId, reported, finished, context>>

(* A 4xx, or another status the operation does not expect.                  *)
Refused(c) ==
  /\ Awaits(c)
  /\ Served(c) \/ UNCHANGED <<runs, flying>>
  /\ Return(c, Error("refused"))
  /\ UNCHANGED <<attempt, polls, runId, reported, finished, context>>

(* The next delay of `poll`, or the end of them.                            *)
PollNext(c, run) ==
  IF polls[c] < MaxPolls
  THEN GoTo(c, "polling")
  ELSE Return(c, [kind |-> "still_running", run |-> run])

(* `run` is answered: by the execution when it ends, or earlier by its id.  *)
AnswerRun(c) ==
  LET run == RunOf(Request(c)) IN
  /\ Awaits(c)
  /\ Op[c] = "run" /\ Posts(c)
  /\ Served(c)
  /\ runId' = [runId EXCEPT ![c] = run]
  /\ \/ /\ finished' = finished \cup {run}
        /\ Return(c, [kind |-> "execution", run |-> run])
     \/ PollNext(c, run) /\ UNCHANGED finished
  /\ UNCHANGED <<attempt, polls, reported, context>>

(* Mutant: each poll asks for the base anew.                                *)
PollAnywhere(c) ==
  /\ pc[c] = "polling"
  /\ polls' = [polls EXCEPT ![c] = @ + 1]
  /\ attempt' = [attempt EXCEPT ![c] = 0]
  /\ \E b \in Bases : base' = [base EXCEPT ![c] = b]
  /\ GoTo(c, "attempting")
  /\ UNCHANGED <<runId, reported, serverVars, flying, closed, cancelled>>

(* The delay has passed: the result is asked for, as a request of its own.  *)
Poll(c) ==
  /\ pc[c] = "polling"
  /\ polls' = [polls EXCEPT ![c] = @ + 1]
  /\ attempt' = [attempt EXCEPT ![c] = 0]
  /\ GoTo(c, "attempting")
  /\ UNCHANGED <<runId, reported, serverVars, flying, context>>

(* A read of a result is answered by the region, if it has the run.         *)
AnswerResult(c) ==
  LET run == runId[c] IN
  /\ Awaits(c)
  /\ Op[c] \in {"run", "get_result"} /\ ~Posts(c)
  /\ IF run \in runs /\ run.base = base[c]
     THEN \E execution \in Executions(run) :
            IF Op[c] = "get_result" \/ IsDone(execution)
            THEN Return(c, [kind |-> "execution", run |-> run])
            ELSE PollNext(c, run)
     ELSE Return(c, Error("not_found"))
  /\ UNCHANGED <<attempt, polls, runId, reported, serverVars, flying, context>>

AnswerSubmit(c) ==
  /\ Awaits(c)
  /\ Op[c] = "submit"
  /\ Served(c)
  /\ Return(c, [kind |-> "accepted", run |-> RunOf(Request(c))])
  /\ UNCHANGED <<attempt, polls, runId, reported, finished, context>>

AnswerJudge(c) ==
  /\ Awaits(c)
  /\ Op[c] = "judge"
  /\ Served(c)
  /\ finished' = finished \cup {RunOf(Request(c))}
  /\ Return(c, [kind |-> "judged", run |-> RunOf(Request(c))])
  /\ UNCHANGED <<attempt, polls, runId, reported, context>>

AnswerRead(c) ==
  /\ Awaits(c)
  /\ Op[c] = "read"
  /\ Return(c, Error("ok"))
  /\ UNCHANGED <<attempt, polls, runId, reported, serverVars, flying, context>>

Go(c) ==
  \/ AttemptFails(c) \/ LastAttemptFails(c) \/ Stall(c) \/ BodyFails(c)
  \/ Refused(c) \/ AttemptThrows(c)
  \/ AnswerRun(c) \/ AnswerResult(c) \/ AnswerSubmit(c) \/ AnswerJudge(c) \/ AnswerRead(c)
  \/ Retry(c) \/ Poll(c)

Next == (\E c \in Calls : Start(c) \/ Go(c)) \/ Environment

Spec == Init /\ [][Next]_vars
=============================================================================

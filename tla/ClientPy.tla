------------------------------ MODULE ClientPy ------------------------------
(***************************************************************************)
(* The operations of the Python SDK (python/rustbox/client.py,             *)
(* transport.py).  A task may be cancelled at any of its awaits, and the   *)
(* client, one for all calls here, may be closed while they are under way. *)
(***************************************************************************)
EXTENDS Operations

(* Request.retryable, and send's `retries`.                                 *)
Retryable(c) == ~Posts(c) \/ Key(c) # None
Retries(c) == IF Retryable(c) THEN MaxRetries ELSE 0

IsDone(execution) == execution.status \in {"completed", "error"} \/ execution.verdict
-----------------------------------------------------------------------------
(* transport.send refuses to start on a closed client.                      *)
Start(c) == IF BadKey(c) \/ closed THEN Reject(c) ELSE Begin(c)

(* A 5xx, a timeout or a network error, which a body that breaks off is too: *)
(* back off, if attempts are left ...                                       *)
AttemptFails(c) ==
  /\ pc[c] = "attempting"
  /\ attempt[c] < Retries(c)
  /\ Unanswered(c)
  /\ GoTo(c, "backoff")
  /\ UNCHANGED <<attempt, polls, runId, reported, finished, context>>

(* Mutant: the attempts are not counted.                                    *)
RetryForever(c) ==
  /\ pc[c] = "backoff"
  /\ GoTo(c, "attempting")
  /\ UNCHANGED <<attempt, polls, runId, reported, serverVars, flying, context>>

Retry(c) ==
  /\ pc[c] = "backoff" /\ ~closed
  /\ attempt' = [attempt EXCEPT ![c] = @ + 1]
  /\ GoTo(c, "attempting")
  /\ UNCHANGED <<polls, runId, reported, serverVars, flying, context>>

(* The client was closed while the call slept: httpx raises a RuntimeError.  *)
RetryWhenClosed(c) ==
  /\ pc[c] = "backoff" /\ closed
  /\ Return(c, Error("unclassified"))
  /\ UNCHANGED <<attempt, polls, runId, reported, serverVars, flying, context>>

(* ... or fail with it, and report the region's failure.                    *)
LastAttemptFails(c) ==
  /\ pc[c] = "attempting"
  /\ attempt[c] >= Retries(c)
  /\ Unanswered(c)
  /\ Return(c, Error("transient"))
  /\ reported' = [reported EXCEPT ![c] = TRUE]
  /\ UNCHANGED <<attempt, polls, runId, finished, context>>

(* A body that cannot be decompressed, of a 5xx too, is neither a timeout    *)
(* nor a TransportError of httpx: its DecodingError passes through.         *)
AttemptThrows(c) ==
  /\ pc[c] = "attempting"
  /\ Unanswered(c)
  /\ Return(c, Error("unclassified"))
  /\ UNCHANGED <<attempt, polls, runId, reported, finished, context>>

(* client.request reads the body too: one that breaks off fails the attempt, *)
(* one that comes in full may still not decode.                             *)
BodyFails(c) ==
  /\ pc[c] = "attempting"
  /\ Served(c)
  /\ Return(c, Error("decode"))
  /\ UNCHANGED <<attempt, polls, runId, reported, finished, context>>

(* A 4xx, or another status the operation does not expect.                  *)
Refused(c) ==
  /\ pc[c] = "attempting"
  /\ Served(c) \/ UNCHANGED <<runs, flying>>
  /\ Return(c, Error("refused"))
  /\ UNCHANGED <<attempt, polls, runId, reported, finished, context>>

(* The next delay of `poll`, or the end of them.                            *)
PollNext(c, run) ==
  IF polls[c] < MaxPolls
  THEN GoTo(c, "polling")
  ELSE Return(c, [kind |-> "still_running", run |-> run])

(* `run` is answered: by the execution when it ends, or earlier by its id.  *)
AnswerRun(c) ==
  LET run == RunOf(Request(c)) IN
  /\ pc[c] = "attempting"
  /\ Op[c] = "run" /\ Posts(c)
  /\ Served(c)
  /\ runId' = [runId EXCEPT ![c] = run]
  /\ \/ /\ finished' = finished \cup {run}
        /\ Return(c, [kind |-> "execution", run |-> run])
     \/ PollNext(c, run) /\ UNCHANGED finished
  /\ UNCHANGED <<attempt, polls, reported, context>>

(* Mutant: each poll asks for the base anew.                                *)
PollAnywhere(c) ==
  /\ pc[c] = "polling"
  /\ polls' = [polls EXCEPT ![c] = @ + 1]
  /\ attempt' = [attempt EXCEPT ![c] = 0]
  /\ \E b \in Bases : base' = [base EXCEPT ![c] = b]
  /\ GoTo(c, "attempting")
  /\ UNCHANGED <<runId, reported, serverVars, flying, closed, cancelled>>

(* The delay has passed: the result is asked for, as a request of its own,  *)
(* if the client is not closed.                                             *)
Poll(c) ==
  /\ pc[c] = "polling" /\ ~closed
  /\ polls' = [polls EXCEPT ![c] = @ + 1]
  /\ attempt' = [attempt EXCEPT ![c] = 0]
  /\ GoTo(c, "attempting")
  /\ UNCHANGED <<runId, reported, serverVars, flying, context>>

PollWhenClosed(c) ==
  /\ pc[c] = "polling" /\ closed
  /\ polls' = [polls EXCEPT ![c] = @ + 1]
  /\ Return(c, Error("config"))
  /\ UNCHANGED <<attempt, runId, reported, serverVars, flying, context>>

(* A read of a result is answered by the region, if it has the run.         *)
AnswerResult(c) ==
  LET run == runId[c] IN
  /\ pc[c] = "attempting"
  /\ Op[c] \in {"run", "get_result"} /\ ~Posts(c)
  /\ IF run \in runs /\ run.base = base[c]
     THEN \E execution \in Executions(run) :
            IF Op[c] = "get_result" \/ IsDone(execution)
            THEN Return(c, [kind |-> "execution", run |-> run])
            ELSE PollNext(c, run)
     ELSE Return(c, Error("not_found"))
  /\ UNCHANGED <<attempt, polls, runId, reported, serverVars, flying, context>>

AnswerSubmit(c) ==
  /\ pc[c] = "attempting"
  /\ Op[c] = "submit"
  /\ Served(c)
  /\ Return(c, [kind |-> "accepted", run |-> RunOf(Request(c))])
  /\ UNCHANGED <<attempt, polls, runId, reported, finished, context>>

AnswerJudge(c) ==
  /\ pc[c] = "attempting"
  /\ Op[c] = "judge"
  /\ Served(c)
  /\ finished' = finished \cup {RunOf(Request(c))}
  /\ Return(c, [kind |-> "judged", run |-> RunOf(Request(c))])
  /\ UNCHANGED <<attempt, polls, runId, reported, context>>

AnswerRead(c) ==
  /\ pc[c] = "attempting"
  /\ Op[c] = "read"
  /\ Return(c, Error("ok"))
  /\ UNCHANGED <<attempt, polls, runId, reported, serverVars, flying, context>>

Drop(c) ==
  /\ pc[c] \in {"attempting", "backoff", "polling"}
  /\ IF pc[c] = "attempting" THEN Unanswered(c) ELSE UNCHANGED <<runs, flying>>
  /\ Return(c, Error("dropped"))
  /\ UNCHANGED <<attempt, polls, runId, reported, finished, context>>

(* The application closes the client; its calls go on as they can.          *)
Close ==
  /\ ~closed
  /\ closed' = TRUE
  /\ UNCHANGED <<callVars, cancelled, serverVars, flying>>

Go(c) ==
  \/ AttemptFails(c) \/ LastAttemptFails(c) \/ AttemptThrows(c) \/ BodyFails(c) \/ Refused(c)
  \/ AnswerRun(c) \/ AnswerResult(c) \/ AnswerSubmit(c) \/ AnswerJudge(c) \/ AnswerRead(c)
  \/ Retry(c) \/ RetryWhenClosed(c) \/ Poll(c) \/ PollWhenClosed(c)

Next == (\E c \in Calls : Start(c) \/ Go(c) \/ Drop(c)) \/ Close \/ Environment

Spec == Init /\ [][Next]_vars
=============================================================================

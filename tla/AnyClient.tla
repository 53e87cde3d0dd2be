------------------------------ MODULE AnyClient ------------------------------
(***************************************************************************)
(* What the clients of the four SDKs have in common, as a specification    *)
(* that each of them implements: the ways in which a call can wait, try    *)
(* again, fail and be answered, whatever makes an SDK take one of them.    *)
(***************************************************************************)
EXTENDS Operations

Awaited(c) == pc[c] \in {"attempting", "reading"}

Begins(c) == ~BadKey(c) /\ Begin(c)

(* The call backs off, if it has attempts left, or goes on to read a body.  *)
Waits(c) ==
  /\ pc[c] = "attempting"
  /\ Unanswered(c)
  /\ (GoTo(c, "backoff") /\ attempt[c] < Attempts(c)) \/ GoTo(c, "reading")
  /\ UNCHANGED <<attempt, polls, runId, reported, finished, context>>

(* The sleep is over: the next attempt ...                                  *)
TriesAgain(c) ==
  /\ pc[c] = "backoff"
  /\ attempt' = [attempt EXCEPT ![c] = @ + 1]
  /\ GoTo(c, "attempting")
  /\ UNCHANGED <<polls, runId, reported, serverVars, flying, context>>

(* ... or the next poll, a request of its own.                              *)
AsksAgain(c) ==
  /\ pc[c] = "polling"
  /\ polls' = [polls EXCEPT ![c] = @ + 1]
  /\ attempt' = [attempt EXCEPT ![c] = 0]
  /\ GoTo(c, "attempting")
  /\ UNCHANGED <<runId, reported, serverVars, flying, context>>

(* The region is reported after the last attempt, or if the call is         *)
(* cancelled.                                                               *)
Reports(c, kind) ==
  /\ kind = "transient"
  /\ attempt[c] = Attempts(c) \/ c \in cancelled'
  /\ reported' = [reported EXCEPT ![c] = TRUE]

(* The call ends with an error, whatever became of its request.             *)
Fails(c) ==
  /\ pc[c] \in {"attempting", "reading", "backoff", "polling"}
  /\ IF Awaited(c) THEN Unanswered(c) ELSE UNCHANGED <<runs, flying>>
  /\ \E kind \in Errors \ {"not_found"} :
       Return(c, Error(kind)) /\ (Reports(c, kind) \/ UNCHANGED reported)
  /\ cancelled' \in {cancelled, cancelled \cup {c}}
  /\ UNCHANGED polls \/ (pc[c] = "polling" /\ polls' = [polls EXCEPT ![c] = @ + 1])
  /\ UNCHANGED <<base, attempt, runId, finished, closed>>

PollsOrGivesUp(c, run) ==
  IF polls[c] < MaxPolls
  THEN GoTo(c, "polling")
  ELSE Return(c, [kind |-> "still_running", run |-> run])

(* The submission of `run` is answered: by the run's end, or by its id.     *)
IsAnsweredRun(c) ==
  LET run == RunOf(Request(c)) IN
  /\ Awaited(c)
  /\ Op[c] = "run" /\ Posts(c)
  /\ Served(c)
  /\ runId' = [runId EXCEPT ![c] = run]
  /\ \/ /\ finished' = finished \cup {run}
        /\ Return(c, [kind |-> "execution", run |-> run])
     \/ PollsOrGivesUp(c, run) /\ UNCHANGED finished
  /\ UNCHANGED <<attempt, polls, reported, context>>

(* The end of a run is shown once it has ended.                             *)
IsAnsweredResult(c) ==
  LET run == runId[c] IN
  /\ Awaited(c)
  /\ Op[c] \in {"run", "get_result"} /\ ~Posts(c)
  /\ IF run \in runs /\ run.base = base[c]
     THEN \/ /\ Op[c] = "get_result" \/ run \in finished
             /\ Return(c, [kind |-> "execution", run |-> run])
          \/ Op[c] = "run" /\ PollsOrGivesUp(c, run)
     ELSE Return(c, Error("not_found"))
  /\ UNCHANGED <<attempt, polls, runId, reported, serverVars, flying, context>>

(* The other operations return what the answer says.                        *)
IsAnsweredSubmit(c) ==
  /\ Awaited(c)
  /\ Op[c] = "submit"
  /\ Served(c)
  /\ Return(c, [kind |-> "accepted", run |-> RunOf(Request(c))])
  /\ UNCHANGED <<attempt, polls, runId, reported, finished, context>>

IsAnsweredJudge(c) ==
  /\ Awaited(c)
  /\ Op[c] = "judge"
  /\ Served(c)
  /\ finished' = finished \cup {RunOf(Request(c))}
  /\ Return(c, [kind |-> "judged", run |-> RunOf(Request(c))])
  /\ UNCHANGED <<attempt, polls, runId, reported, context>>

IsAnsweredRead(c) ==
  /\ Awaited(c)
  /\ Op[c] = "read"
  /\ Return(c, Error("ok"))
  /\ UNCHANGED <<attempt, polls, runId, reported, serverVars, flying, context>>

Closes == closed' = TRUE /\ UNCHANGED <<callVars, cancelled, serverVars, flying>>

Step(c) ==
  \/ Begins(c) \/ Reject(c) \/ Waits(c) \/ TriesAgain(c) \/ AsksAgain(c) \/ Fails(c)
  \/ IsAnsweredRun(c) \/ IsAnsweredResult(c) \/ IsAnsweredSubmit(c) \/ IsAnsweredJudge(c)
  \/ IsAnsweredRead(c)

Next == (\E c \in Calls : Step(c)) \/ Closes \/ Environment

Spec == Init /\ [][Next]_vars
=============================================================================

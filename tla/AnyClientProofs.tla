--------------------------- MODULE AnyClientProofs ---------------------------
(***************************************************************************)
(* AnyClient keeps the promises of Operations for any calls, keys, regions *)
(* and budgets, and it implements Exchange.                                *)
(***************************************************************************)
EXTENDS AnyClient, TLAPS

(* A call that is under way has a key it may send, a base and no outcome.   *)
UnderWay(c) ==
  /\ pc[c] \notin {"idle", "done"} => ~BadKey(c) /\ base[c] \in Bases
  /\ pc[c] # "done" => outcome[c] = Error("pending") /\ ~reported[c]

(* The attempts and the polls stay within their budgets.                    *)
InBudget(c) ==
  /\ attempt[c] <= Attempts(c)
  /\ pc[c] = "backoff" => attempt[c] < Attempts(c)
  /\ pc[c] = "polling" => polls[c] < MaxPolls

(* The run that `run` polls is one of its base, with its key.               *)
PollsOwn(c) ==
  Op[c] = "run" /\ runId[c] # None =>
    /\ pc[c] # "idle"
    /\ runId[c] \in runs
    /\ runId[c].base = base[c]
    /\ runId[c].key = c

(* A call ends as the properties of Operations say.                         *)
EndsWell(c) ==
  /\ reported[c] => outcome[c].kind = "transient" /\ (c \in cancelled \/ attempt[c] = Attempts(c))
  /\ Op[c] = "run" => outcome[c].kind # "not_found"
  /\ outcome[c].kind = "still_running" => polls[c] = MaxPolls

CallInv(c) == UnderWay(c) /\ InBudget(c) /\ PollsOwn(c) /\ EndsWell(c)

IInv == TypeOK /\ \A c \in Calls : CallInv(c)
-----------------------------------------------------------------------------
(* What a call is worth does not change.                                    *)
LEMMA AttemptsOf ==
  ASSUME NEW c \in Calls
  PROVE  /\ Attempts(c) \in 0 .. MaxRetries
         /\ Attempts(c)' = Attempts(c)
         /\ Posts(c) /\ Key(c) = None => Attempts(c) = 0
<1>1. Attempts(c) = IF Op[c] \in {"submit", "judge"} /\ Key(c) = None THEN 0 ELSE MaxRetries
  <2>1. CASE Op[c] = "run"
    BY <2>1, KeysAssumption DEF Attempts, Posts, Key
  <2>2. CASE Op[c] # "run"
    BY <2>2 DEF Attempts, Posts
  <2> QED
    BY <2>1, <2>2
<1>2. Attempts(c)' = IF Op[c] \in {"submit", "judge"} /\ Key(c) = None THEN 0 ELSE MaxRetries
  <2>1. CASE Op[c] = "run"
    BY <2>1, KeysAssumption DEF Attempts, Posts, Key
  <2>2. CASE Op[c] # "run"
    BY <2>2 DEF Attempts, Posts, Key
  <2> QED
    BY <2>1, <2>2
<1>3. Posts(c) /\ Key(c) = None => Attempts(c) = 0
  BY DEF Attempts
<1> QED
  BY <1>1, <1>2, <1>3, RetriesAssumption

(* The request of a call that posts, and the run that comes of it.          *)
LEMMA RequestOf ==
  ASSUME TypeOK, NEW c \in Calls, UnderWay(c), Posts(c), pc[c] \notin {"idle", "done"}
  PROVE  /\ Request(c) \in Requests
         /\ RunOf(Request(c)) \in Requests
         /\ RunOf(Request(c)).base = base[c]
         /\ RunOf(Request(c)).key = Key(c)
<1>1. Key(c) \in Calls \cup Uuids \cup {None}
  BY DEF Key, BadKey, UnderWay
<1>2. Submits(c)
  BY DEF Posts, Submits
<1>3. Request(c) \in Requests
  BY <1>1, <1>2 DEF Request, Requests, TypeOK, UnderWay
<1> QED
  BY <1>3 DEF RunOf, Replays, Request, TypeOK

(* What an attempt may do to the region and to the requests.                *)
Sound == runs' \subseteq Requests /\ flying' \subseteq Requests /\ runs \subseteq runs'

(* Without an answer a region keeps its runs and gets no more than requests ...*)
LEMMA UnansweredIsSound ==
  ASSUME TypeOK, NEW c \in Calls, UnderWay(c), pc[c] \notin {"idle", "done"}, Unanswered(c)
  PROVE  Sound
BY RequestOf DEF Unanswered, GoesUnanswered, Serve, Sound, TypeOK

(* ... and with one it has the run, too.                                    *)
LEMMA ServedIsSound ==
  ASSUME TypeOK, NEW c \in Calls, UnderWay(c), pc[c] \notin {"idle", "done"}, Served(c)
  PROVE  /\ Sound
         /\ Posts(c) => RunOf(Request(c)) \in runs'
BY RequestOf DEF Served, Serve, Sound, TypeOK

(* A step of one call leaves the others as they are.                        *)
Alone(c) ==
  /\ \A d \in Calls \ {c} :
       /\ pc'[d] = pc[d] /\ base'[d] = base[d] /\ attempt'[d] = attempt[d]
       /\ polls'[d] = polls[d] /\ runId'[d] = runId[d] /\ outcome'[d] = outcome[d]
       /\ reported'[d] = reported[d]
  /\ runs \subseteq runs'
  /\ cancelled \subseteq cancelled'

(* So the other calls keep their invariant.                                 *)
LEMMA OthersKeep ==
  ASSUME IInv, NEW c, Alone(c), NEW d \in Calls, d # c
  PROVE  CallInv(d)'
<1>1. Attempts(d)' = Attempts(d)
  BY AttemptsOf
<1>2. CallInv(d) /\ d \in Calls \ {c}
  BY DEF IInv
<1>3. UnderWay(d)' /\ InBudget(d)' /\ PollsOwn(d)'
  BY <1>1, <1>2 DEF CallInv, UnderWay, BadKey, InBudget, PollsOwn, Alone
<1>4. EndsWell(d)'
  BY <1>1, <1>2 DEF CallInv, EndsWell, Alone
<1> QED
  BY <1>3, <1>4 DEF CallInv

(* The invariant holds to begin with, ...                                   *)
LEMMA InitInv == Init => IInv
<1> SUFFICES ASSUME Init PROVE IInv
  OBVIOUS
<1>1. TypeOK
  <2>1. Error("pending") \in Outcomes
    BY DEF Error, Outcomes
  <2>2. reported \in [Calls -> BOOLEAN] /\ outcome \in [Calls -> Outcomes]
    BY <2>1, Zenon DEF Init
  <2>3. 0 \in 0 .. MaxRetries /\ 0 \in 0 .. MaxPolls
    BY RetriesAssumption, PollsAssumption
  <2>4. attempt \in [Calls -> 0 .. MaxRetries] /\ polls \in [Calls -> 0 .. MaxPolls]
    BY <2>3 DEF Init
  <2>5. /\ pc \in [Calls -> {"idle", "attempting", "reading", "backoff", "polling", "done"}]
        /\ base \in [Calls -> Bases \cup {None}]
        /\ runId \in [Calls -> Requests \cup {None}]
    BY DEF Init
  <2> QED
    BY <2>2, <2>4, <2>5 DEF Init, ApiInit, TypeOK
<1>2. ASSUME NEW c \in Calls PROVE CallInv(c)
  BY AttemptsOf DEF Init, CallInv, UnderWay, InBudget, PollsOwn, EndsWell, Error
<1> QED
  BY <1>1, <1>2 DEF IInv

(* ... when a call begins ...                                               *)
LEMMA BeginsInv ==
  ASSUME IInv, NEW c \in Calls, Begins(c)
  PROVE  IInv'
<1>1. TypeOK'
  <2>1. KnownIds \subseteq Requests
    BY DEF KnownIds, IInv, TypeOK, Outcomes, Errors
  <2> QED
    BY <2>1 DEF IInv, TypeOK, Begins, Begin, GoTo, serverVars
<1>2. Alone(c)
  BY DEF IInv, TypeOK, Begins, Begin, GoTo, serverVars, Alone
<1>3. CallInv(c)'
  <2>1. UnderWay(c)' /\ InBudget(c)' /\ EndsWell(c)'
    BY AttemptsOf DEF IInv, TypeOK, Begins, Begin, GoTo, CallInv, UnderWay, BadKey, InBudget, EndsWell, Error
  <2>2. PollsOwn(c)'
    BY DEF IInv, TypeOK, Begins, Begin, GoTo, CallInv, PollsOwn
  <2> QED
    BY <2>1, <2>2 DEF CallInv
<1> QED
  BY <1>1, <1>2, <1>3, OthersKeep DEF IInv

(* ... or is rejected, ...                                                  *)
LEMMA RejectInv ==
  ASSUME IInv, NEW c \in Calls, Reject(c)
  PROVE  IInv'
<1>1. TypeOK'
  BY DEF IInv, TypeOK, Reject, Return, serverVars, Outcomes, Errors, Error
<1>2. Alone(c)
  BY DEF IInv, TypeOK, Reject, Return, serverVars, Alone
<1>3. CallInv(c)'
  BY AttemptsOf DEF IInv, TypeOK, Reject, Return, serverVars, CallInv, UnderWay, InBudget, PollsOwn,
                    EndsWell, Error
<1> QED
  BY <1>1, <1>2, <1>3, OthersKeep DEF IInv

(* ... when it waits ...                                                    *)
LEMMA WaitsInv ==
  ASSUME IInv, NEW c \in Calls, Waits(c)
  PROVE  IInv'
<1>1. Sound
  BY UnansweredIsSound DEF IInv, CallInv, Waits
<1>2. TypeOK'
  BY <1>1 DEF IInv, TypeOK, Waits, GoTo, context, Sound
<1>3. Alone(c)
  BY <1>1 DEF IInv, TypeOK, Waits, GoTo, context, Sound, Alone
<1>4. CallInv(c)'
  BY <1>1, AttemptsOf DEF IInv, TypeOK, Waits, GoTo, context, Sound, CallInv, UnderWay, BadKey,
                          InBudget, PollsOwn, EndsWell
<1> QED
  BY <1>2, <1>3, <1>4, OthersKeep DEF IInv

(* ... and tries again ...                                                  *)
LEMMA TriesAgainInv ==
  ASSUME IInv, NEW c \in Calls, TriesAgain(c)
  PROVE  IInv'
<1>1. attempt[c] + 1 \in 0 .. MaxRetries
  BY AttemptsOf, RetriesAssumption DEF IInv, CallInv, InBudget, TypeOK, TriesAgain
<1>2. TypeOK'
  BY <1>1 DEF IInv, TypeOK, TriesAgain, GoTo, context, serverVars
<1>3. Alone(c)
  BY DEF IInv, TypeOK, TriesAgain, GoTo, context, serverVars, Alone
<1>4. CallInv(c)'
  BY AttemptsOf DEF IInv, TypeOK, TriesAgain, GoTo, context, serverVars, CallInv, UnderWay, BadKey,
                    InBudget, PollsOwn, EndsWell, Error
<1> QED
  BY <1>2, <1>3, <1>4, OthersKeep DEF IInv

(* ... or polls again, ...                                                  *)
LEMMA AsksAgainInv ==
  ASSUME IInv, NEW c \in Calls, AsksAgain(c)
  PROVE  IInv'
<1>1. TypeOK'
  BY RetriesAssumption, PollsAssumption
  DEF IInv, CallInv, InBudget, TypeOK, AsksAgain, GoTo, context, serverVars
<1>2. Alone(c)
  BY DEF IInv, TypeOK, AsksAgain, GoTo, context, serverVars, Alone
<1>3. CallInv(c)'
  BY AttemptsOf DEF IInv, TypeOK, AsksAgain, GoTo, context, serverVars, CallInv, UnderWay, BadKey,
                    InBudget, PollsOwn, EndsWell, Error
<1> QED
  BY <1>1, <1>2, <1>3, OthersKeep DEF IInv

(* ... when it fails ...                                                    *)
LEMMA FailsInv ==
  ASSUME IInv, NEW c \in Calls, Fails(c)
  PROVE  IInv'
<1>1. PICK kind \in Errors \ {"not_found"} :
        Return(c, Error(kind)) /\ (Reports(c, kind) \/ UNCHANGED reported)
  BY DEF Fails
<1>2. Sound
  BY UnansweredIsSound DEF IInv, CallInv, Fails, Sound, TypeOK
<1>3. reported' \in [Calls -> BOOLEAN]
  BY <1>1 DEF IInv, TypeOK, Reports
<1>4. polls' \in [Calls -> 0 .. MaxPolls]
  BY PollsAssumption DEF IInv, CallInv, InBudget, TypeOK, Fails
<1>5. Error(kind) \in Outcomes
  BY DEF Error, Outcomes
<1>6. TypeOK'
  BY <1>1, <1>2, <1>3, <1>4, <1>5 DEF IInv, TypeOK, Fails, Return, Sound
<1>7. Alone(c)
  BY <1>1, <1>2 DEF IInv, TypeOK, Fails, Return, Reports, Sound, Alone
<1>8. CallInv(c)'
  <2>1. UnderWay(c)' /\ InBudget(c)' /\ PollsOwn(c)'
    BY <1>1, <1>2, AttemptsOf DEF IInv, TypeOK, Fails, Return, Sound, CallInv, UnderWay, InBudget, PollsOwn
  <2>2. EndsWell(c)'
    BY <1>1, AttemptsOf DEF IInv, TypeOK, Fails, Return, Reports, CallInv, UnderWay, EndsWell, Error, Errors
  <2> QED
    BY <2>1, <2>2 DEF CallInv
<1> QED
  BY <1>6, <1>7, <1>8, OthersKeep DEF IInv

(* The next poll, or giving up.                                             *)
LEMMA PollsOrGivesUpTyped ==
  ASSUME TypeOK, NEW c \in Calls, NEW run \in Requests, PollsOrGivesUp(c, run)
  PROVE  /\ pc' \in [Calls -> {"idle", "attempting", "reading", "backoff", "polling", "done"}]
         /\ outcome' \in [Calls -> Outcomes]
BY DEF TypeOK, PollsOrGivesUp, GoTo, Return, Outcomes

(* ... or its submission is answered, ...                                   *)
LEMMA IsAnsweredRunInv ==
  ASSUME IInv, NEW c \in Calls, IsAnsweredRun(c)
  PROVE  IInv'
<1> DEFINE run == RunOf(Request(c))
<1>1. run \in Requests /\ run \in runs' /\ run.base = base[c] /\ run.key = c /\ Sound
  BY RequestOf, ServedIsSound DEF IInv, CallInv, IsAnsweredRun, Awaited, Key
<1> HIDE DEF run
<1>2. \/ Return(c, [kind |-> "execution", run |-> run]) /\ finished' = finished \cup {run}
      \/ PollsOrGivesUp(c, run) /\ UNCHANGED finished
  BY DEF IsAnsweredRun, run
<1>3. /\ pc[c] \in {"attempting", "reading"}
      /\ runId' = [runId EXCEPT ![c] = run]
      /\ UNCHANGED <<flying, attempt, polls, reported, base, closed, cancelled>>
  BY DEF IsAnsweredRun, run, Awaited, Served, context
<1>4. TypeOK'
  <2>1. /\ pc' \in [Calls -> {"idle", "attempting", "reading", "backoff", "polling", "done"}]
        /\ outcome' \in [Calls -> Outcomes]
    BY <1>1, <1>2, PollsOrGivesUpTyped DEF IInv, TypeOK, Return, Outcomes
  <2> QED
    BY <2>1, <1>1, <1>2, <1>3 DEF IInv, TypeOK, Sound
<1>5. Alone(c)
  BY <1>1, <1>2, <1>3 DEF IInv, TypeOK, PollsOrGivesUp, GoTo, Return, Sound, Alone
<1>6. CallInv(c)'
  <2>1. UnderWay(c)' /\ InBudget(c)' /\ PollsOwn(c)'
    BY <1>1, <1>2, <1>3, AttemptsOf
    DEF IInv, TypeOK, PollsOrGivesUp, GoTo, Return, CallInv, UnderWay, BadKey, InBudget, PollsOwn
  <2>2. EndsWell(c)'
    BY <1>2, <1>3, PollsAssumption
    DEF IInv, TypeOK, PollsOrGivesUp, GoTo, Return, CallInv, UnderWay, EndsWell, Error
  <2> QED
    BY <2>1, <2>2 DEF CallInv
<1> QED
  BY <1>4, <1>5, <1>6, OthersKeep DEF IInv

(* ... or its read of the result, ...                                       *)
LEMMA IsAnsweredResultInv ==
  ASSUME IInv, NEW c \in Calls, IsAnsweredResult(c)
  PROVE  IInv'
<1>1. /\ pc[c] \in {"attempting", "reading"}
      /\ UNCHANGED <<attempt, polls, runId, reported, runs, finished, flying, base, closed, cancelled>>
  BY DEF IsAnsweredResult, Awaited, serverVars, context
<1>2. \/ runId[c] \in runs /\ Return(c, [kind |-> "execution", run |-> runId[c]])
      \/ runId[c] \in runs /\ PollsOrGivesUp(c, runId[c])
      \/ Op[c] = "get_result" /\ Return(c, Error("not_found"))
  <2>1. Op[c] = "run" => runId[c] \in runs /\ runId[c].base = base[c]
    BY DEF IInv, CallInv, PollsOwn, IsAnsweredResult, Posts
  <2> QED
    BY <2>1 DEF IsAnsweredResult
<1>3. TypeOK'
  <2>1. /\ pc' \in [Calls -> {"idle", "attempting", "reading", "backoff", "polling", "done"}]
        /\ outcome' \in [Calls -> Outcomes]
    BY <1>2, PollsOrGivesUpTyped DEF IInv, TypeOK, Return, Outcomes, Error, Errors
  <2> QED
    BY <2>1, <1>1 DEF IInv, TypeOK
<1>4. Alone(c)
  BY <1>1, <1>2 DEF IInv, TypeOK, PollsOrGivesUp, GoTo, Return, Alone
<1>5. CallInv(c)'
  <2>1. UnderWay(c)' /\ InBudget(c)' /\ PollsOwn(c)'
    BY <1>1, <1>2, AttemptsOf
    DEF IInv, TypeOK, PollsOrGivesUp, GoTo, Return, CallInv, UnderWay, BadKey, InBudget, PollsOwn
  <2>2. EndsWell(c)'
    BY <1>1, <1>2, PollsAssumption
    DEF IInv, TypeOK, PollsOrGivesUp, GoTo, Return, CallInv, UnderWay, EndsWell, Error
  <2> QED
    BY <2>1, <2>2 DEF CallInv
<1> QED
  BY <1>3, <1>4, <1>5, OthersKeep DEF IInv

(* An answer that is returned as it is.                                     *)
LEMMA AnswersKeep ==
  ASSUME IInv, NEW c \in Calls, Awaited(c), NEW result \in Outcomes, Return(c, result),
         result.kind \notin {"not_found", "still_running"},
         Sound, finished' \subseteq runs',
         UNCHANGED <<attempt, polls, runId, reported, flying, context>>
  PROVE  IInv'
<1>1. TypeOK'
  BY DEF IInv, TypeOK, Return, Sound, context
<1>2. Alone(c)
  BY DEF IInv, TypeOK, Return, Sound, context, Alone
<1>3. CallInv(c)'
  BY AttemptsOf DEF IInv, TypeOK, Return, Sound, context, Awaited, CallInv, UnderWay, InBudget,
                    PollsOwn, EndsWell, Error
<1> QED
  BY <1>1, <1>2, <1>3, OthersKeep DEF IInv

(* ... for the other operations too, ...                                    *)
LEMMA AnswersInv ==
  ASSUME IInv, NEW c \in Calls,
         IsAnsweredSubmit(c) \/ IsAnsweredJudge(c) \/ IsAnsweredRead(c)
  PROVE  IInv'
<1>1. Awaited(c) /\ UnderWay(c) /\ TypeOK /\ pc[c] \notin {"idle", "done"}
  BY DEF IInv, CallInv, Awaited, IsAnsweredSubmit, IsAnsweredJudge, IsAnsweredRead
<1> DEFINE run == RunOf(Request(c))
<1>2. CASE IsAnsweredSubmit(c)
  <2>1. Served(c) /\ Posts(c)
    BY <1>2 DEF IsAnsweredSubmit, Posts
  <2>2. Sound /\ run \in Requests
    BY <1>1, <2>1, ServedIsSound, RequestOf
  <2> HIDE DEF run
  <2>3. [kind |-> "accepted", run |-> run] \in Outcomes
    BY <2>2 DEF Outcomes
  <2>4. Return(c, [kind |-> "accepted", run |-> run])
    BY <1>2 DEF IsAnsweredSubmit, run
  <2>5. UNCHANGED <<attempt, polls, runId, reported, flying, context>> /\ finished' \subseteq runs'
    BY <1>2, <2>2 DEF IsAnsweredSubmit, Served, Sound, IInv, TypeOK
  <2> QED
    BY <1>1, <2>2, <2>3, <2>4, <2>5, AnswersKeep
<1>3. CASE IsAnsweredJudge(c)
  <2>1. Served(c) /\ Posts(c)
    BY <1>3 DEF IsAnsweredJudge, Posts
  <2>2. Sound /\ run \in Requests /\ run \in runs'
    BY <1>1, <2>1, ServedIsSound, RequestOf
  <2> HIDE DEF run
  <2>3. [kind |-> "judged", run |-> run] \in Outcomes
    BY <2>2 DEF Outcomes
  <2>4. Return(c, [kind |-> "judged", run |-> run]) /\ finished' = finished \cup {run}
    BY <1>3 DEF IsAnsweredJudge, run
  <2>5. UNCHANGED <<attempt, polls, runId, reported, flying, context>> /\ finished' \subseteq runs'
    BY <1>3, <2>2, <2>4 DEF IsAnsweredJudge, Served, Sound, IInv, TypeOK
  <2> QED
    BY <1>1, <2>2, <2>3, <2>4, <2>5, AnswersKeep
<1>4. CASE IsAnsweredRead(c)
  <2>1. Error("ok") \in Outcomes /\ Error("ok").kind = "ok"
    BY DEF Error, Outcomes
  <2>2. /\ Return(c, Error("ok"))
        /\ UNCHANGED <<attempt, polls, runId, reported, runs, finished, flying, context>>
    BY <1>4 DEF IsAnsweredRead, serverVars
  <2>3. Sound /\ finished' \subseteq runs'
    BY <2>2 DEF Sound, IInv, TypeOK
  <2> QED
    BY <1>1, <2>1, <2>2, <2>3, AnswersKeep
<1> QED
  BY <1>2, <1>3, <1>4

(* What is no call's step changes no call.                                  *)
LEMMA AllKeep ==
  ASSUME IInv, UNCHANGED <<pc, base, attempt, polls, runId, outcome, reported, cancelled>>,
         runs \subseteq runs', TypeOK'
  PROVE  IInv'
<1> SUFFICES ASSUME NEW c \in Calls PROVE CallInv(c)'
  BY DEF IInv
<1> QED
  BY AttemptsOf DEF IInv, CallInv, UnderWay, BadKey, InBudget, PollsOwn, EndsWell

(* ... when the client is closed ...                                        *)
LEMMA ClosesInv == IInv /\ Closes => IInv'
<1> SUFFICES ASSUME IInv, Closes PROVE IInv'
  OBVIOUS
<1>1. /\ UNCHANGED <<pc, base, attempt, polls, runId, outcome, reported, cancelled>>
      /\ runs \subseteq runs'
  BY DEF Closes, callVars, serverVars
<1>2. TypeOK'
  BY DEF IInv, TypeOK, Closes, callVars, serverVars
<1> QED
  BY <1>1, <1>2, AllKeep

(* ... and when something happens in a region.                              *)
LEMMA EnvironmentInv == IInv /\ Environment => IInv'
<1> SUFFICES ASSUME IInv, Environment PROVE IInv'
  OBVIOUS
<1>1. UNCHANGED <<callVars, closed, cancelled>>
  BY DEF Environment
<1>2. CASE \E run \in runs : End(run)
  BY <1>1, <1>2, AllKeep DEF End, callVars, IInv, TypeOK
<1>3. CASE \E request \in flying : Deliver(request)
  <2>1. PICK request \in flying : Deliver(request)
    BY <1>3
  <2>2. request \in Requests /\ RunOf(request) \in Requests
    BY DEF IInv, TypeOK, RunOf
  <2> QED
    BY <1>1, <2>1, <2>2, AllKeep DEF Deliver, Serve, callVars, IInv, TypeOK
<1> QED
  BY <1>2, <1>3 DEF Environment

(* So every step keeps it.                                                  *)
LEMMA NextInv == IInv /\ [Next]_vars => IInv'
<1> SUFFICES ASSUME IInv, [Next]_vars PROVE IInv'
  OBVIOUS
<1>1. ASSUME NEW c \in Calls, Step(c) PROVE IInv'
  BY <1>1, BeginsInv, RejectInv, WaitsInv, TriesAgainInv, AsksAgainInv, FailsInv,
     IsAnsweredRunInv, IsAnsweredResultInv, AnswersInv DEF Step
<1>2. CASE UNCHANGED vars
  BY <1>2, AllKeep DEF vars, callVars, serverVars, IInv, TypeOK
<1> QED
  BY <1>1, <1>2, ClosesInv, EnvironmentInv DEF Next

(* The invariant is one of the specification.                               *)
THEOREM Inductive == Spec => []IInv
BY InitInv, NextInv, PTL DEF Spec

(* The invariant implies the properties of Operations.                      *)
LEMMA InvImplies ==
  IInv => TypeOK /\ ReportedOnlyWhenExhausted /\ PollsFindTheRun /\ GivenUpAfterTheBudget
BY DEF IInv, CallInv, EndsWell, ReportedOnlyWhenExhausted, PollsFindTheRun, GivenUpAfterTheBudget
-----------------------------------------------------------------------------
(***************************************************************************)
(* The ids an application holds.  What a call gives out is the id of a run *)
(* on its base; what a call asks for is such an id, and it is not found    *)
(* only on another base.                                                   *)
(***************************************************************************)
Gives(c) ==
  outcome[c].kind \in {"accepted", "still_running"} =>
    outcome[c].run \in runs /\ outcome[c].run.base = base[c]

Asks(c) ==
  Op[c] = "get_result" =>
    /\ pc[c] \notin {"idle", "done"} => runId[c] \in runs
    /\ outcome[c].kind = "not_found" =>
         runId[c] \in runs /\ runId[c].base # base[c] /\ base[c] \in Bases

IdInv == \A c \in Calls : Gives(c) /\ Asks(c)

LEMMA StepAlone == ASSUME IInv, NEW c \in Calls, Step(c) PROVE Alone(c)
<1> USE DEF IInv, TypeOK, Alone, GoTo, Return, context, serverVars, callVars
<1>1. CASE Begins(c) \/ Reject(c) \/ TriesAgain(c) \/ AsksAgain(c)
  BY <1>1 DEF Begins, Begin, Reject, TriesAgain, AsksAgain
<1>2. CASE Waits(c) \/ Fails(c)
  <2>1. runs \subseteq runs'
    BY <1>2, UnansweredIsSound DEF CallInv, Waits, Fails, Sound
  <2>2. reported' = [reported EXCEPT ![c] = reported'[c]]
    BY <1>2 DEF Waits, Fails, Reports
  <2> QED
    BY <1>2, <2>1, <2>2 DEF Waits, Fails
<1>3. CASE IsAnsweredRun(c) \/ IsAnsweredSubmit(c) \/ IsAnsweredJudge(c)
  <2>1. runs \subseteq runs'
    BY <1>3 DEF IsAnsweredRun, IsAnsweredSubmit, IsAnsweredJudge, Served, Serve
  <2> QED
    BY <1>3, <2>1 DEF IsAnsweredRun, IsAnsweredSubmit, IsAnsweredJudge, PollsOrGivesUp
<1>4. CASE IsAnsweredResult(c) \/ IsAnsweredRead(c)
  BY <1>4 DEF IsAnsweredResult, IsAnsweredRead, PollsOrGivesUp
<1> QED
  BY <1>1, <1>2, <1>3, <1>4 DEF Step

(* A call that neither begins nor is answered leaves what it asks for alone. *)
LEMMA QuietAsks ==
  ASSUME IInv, IdInv, NEW c \in Calls, runs \subseteq runs',
         Reject(c) \/ Waits(c) \/ TriesAgain(c) \/ AsksAgain(c) \/ Fails(c)
  PROVE  Gives(c)' /\ Asks(c)'
<1>1. outcome[c].kind = "pending"
  BY DEF IInv, CallInv, UnderWay, Error, Reject, Waits, TriesAgain, AsksAgain, Fails
<1>2. outcome'[c].kind \in {"pending"} \cup (Errors \ {"not_found"})
  BY <1>1 DEF IInv, TypeOK, Reject, Waits, TriesAgain, AsksAgain, Fails, GoTo, Return, Error, Errors
<1>3. UNCHANGED <<base, runId>>
      /\ (pc'[c] \notin {"idle", "done"} => pc[c] \notin {"idle", "done"})
  BY DEF IInv, TypeOK, Reject, Waits, TriesAgain, AsksAgain, Fails, GoTo, Return, context
<1> QED
  BY <1>2, <1>3 DEF IdInv, Gives, Asks, Errors

LEMMA StepIds ==
  ASSUME IInv, IdInv, NEW c \in Calls, Step(c)
  PROVE  IdInv'
<1>1. Alone(c)
  BY StepAlone
<1>2. ASSUME NEW d \in Calls, d # c PROVE Gives(d)' /\ Asks(d)'
  BY <1>1, <1>2 DEF Alone, IdInv, Gives, Asks
<1>3. Gives(c)' /\ Asks(c)'
  <2> USE DEF IInv, TypeOK, GoTo, Return
  <2>1. CASE Begins(c)
    <3>1. Op[c] = "get_result" => runId'[c] \in KnownIds
      BY <2>1 DEF Begins, Begin
    <3>2. KnownIds \subseteq runs
      BY DEF KnownIds, IdInv, Gives
    <3>3. outcome'[c] = Error("pending") /\ runs' = runs
      BY <2>1 DEF Begins, Begin, CallInv, UnderWay, serverVars
    <3> QED
      BY <3>1, <3>2, <3>3 DEF Gives, Asks, Error
  <2>2. CASE Reject(c) \/ Waits(c) \/ TriesAgain(c) \/ AsksAgain(c) \/ Fails(c)
    BY <1>1, <2>2, QuietAsks DEF Alone
  <2>3. CASE IsAnsweredRun(c) \/ IsAnsweredSubmit(c)
    <3> DEFINE run == RunOf(Request(c))
    <3>1. run \in runs' /\ run.base = base[c] /\ base' = base
      BY <2>3, RequestOf, ServedIsSound
      DEF IsAnsweredRun, IsAnsweredSubmit, Awaited, Posts, CallInv, context
    <3>2. outcome[c] = Error("pending")
      BY <2>3 DEF IsAnsweredRun, IsAnsweredSubmit, Awaited, CallInv, UnderWay
    <3>3. outcome'[c].kind \in {"accepted", "still_running"} => outcome'[c].run = run
      BY <2>3, <3>2 DEF IsAnsweredRun, IsAnsweredSubmit, PollsOrGivesUp, Error
    <3> QED
      BY <2>3, <3>1, <3>3 DEF Gives, Asks, IsAnsweredRun, IsAnsweredSubmit
  <2>4. CASE IsAnsweredResult(c)
    <3>1. outcome[c] = Error("pending") /\ UNCHANGED <<runId, base, runs>>
      BY <2>4 DEF IsAnsweredResult, Awaited, CallInv, UnderWay, context, serverVars
    <3>2. outcome'[c].kind \in {"accepted", "still_running"} =>
            outcome'[c].run = runId[c] /\ runId[c] \in runs /\ runId[c].base = base[c]
      BY <2>4, <3>1 DEF IsAnsweredResult, PollsOrGivesUp, Error
    <3>3. Op[c] = "get_result" => runId[c] \in runs
      BY <2>4 DEF IdInv, Asks, IsAnsweredResult, Awaited
    <3>4. outcome'[c].kind = "not_found" => ~(runId[c] \in runs /\ runId[c].base = base[c])
      BY <2>4, <3>1 DEF IsAnsweredResult, PollsOrGivesUp, Error
    <3>5. base[c] \in Bases
      BY <2>4 DEF IsAnsweredResult, Awaited, CallInv, UnderWay
    <3> QED
      BY <3>1, <3>2, <3>3, <3>4, <3>5 DEF Gives, Asks
  <2>5. CASE IsAnsweredJudge(c) \/ IsAnsweredRead(c)
    BY <2>5 DEF IsAnsweredJudge, IsAnsweredRead, Gives, Asks, Error
  <2> QED
    BY <2>1, <2>2, <2>3, <2>4, <2>5 DEF Step
<1> QED
  BY <1>2, <1>3 DEF IdInv

(* An id is found wherever it was given out: a read of a result that is not  *)
(* found has asked another region than the call that gave the id out used.  *)
LEMMA Ids == Spec => []IdInv
<1>1. Init => IdInv
  <2> SUFFICES ASSUME Init, NEW c \in Calls PROVE Gives(c) /\ Asks(c)
    BY DEF IdInv
  <2>1. pc[c] = "idle" /\ outcome[c] = Error("pending")
    BY DEF Init
  <2>2. outcome[c].kind = "pending"
    BY <2>1 DEF Error
  <2> QED
    BY <2>1, <2>2 DEF Gives, Asks
<1>2. IInv /\ IdInv /\ [Next]_vars => IdInv'
  <2> SUFFICES ASSUME IInv, IdInv, [Next]_vars PROVE IdInv'
    OBVIOUS
  <2>1. ASSUME UNCHANGED <<pc, base, runId, outcome>>, runs \subseteq runs' PROVE IdInv'
    BY <2>1 DEF IdInv, Gives, Asks
  <2>2. CASE UNCHANGED vars \/ Closes
    BY <2>1, <2>2 DEF vars, callVars, serverVars, Closes
  <2>3. CASE Environment
    BY <2>1, <2>3 DEF Environment, End, Deliver, Serve, callVars
  <2> QED
    BY <2>2, <2>3, StepIds DEF Next
<1> QED
  BY <1>1, <1>2, Inductive, PTL DEF Spec
-----------------------------------------------------------------------------
(* AnyClient's attempts have the effects that Exchange allows.              *)
LEMMA UnansweredIsEffect ==
  ASSUME IInv, NEW c \in Calls, Unanswered(c)
  PROVE  Promise!Effect(c)
<1>1. CASE ~Posts(c)
  BY <1>1 DEF Unanswered, Promise!Effect
<1>2. CASE Posts(c)
  <2>1. GoesUnanswered(Request(c)) /\ Promise!Submits(c)
    BY <1>2 DEF Unanswered, Posts, Promise!Submits
  <2>2. attempt[c] \in Promise!Attempts(c)
    BY <1>2, AttemptsOf DEF IInv, TypeOK, CallInv, InBudget, Promise!Attempts, Promise!Key, Key
  <2>3. Request(c) = Promise!Request(c, attempt[c])
    BY DEF Request, Promise!Request, Promise!Key, Key
  <2>4. Promise!GoesUnanswered(Request(c))
    BY <2>1 DEF GoesUnanswered, Serve, RunOf, Replays,
                Promise!GoesUnanswered, Promise!Serve, Promise!RunOf, Promise!Replays
  <2> QED
    BY <2>1, <2>2, <2>3, <2>4 DEF Promise!Effect
<1> QED
  BY <1>1, <1>2

(* So has an answer.                                                        *)
LEMMA ServedIsEffect ==
  ASSUME IInv, NEW c \in Calls, Served(c)
  PROVE  Promise!Effect(c)
BY UnansweredIsEffect DEF Served, Unanswered, GoesUnanswered

(* A call that returns does so in Exchange.                                 *)
LEMMA ReturnsMap ==
  ASSUME IInv, NEW c \in Calls, pc[c] \notin {"idle", "done"}, Promise!Effect(c),
         NEW result, Return(c, result), result \in Promise!Results(c, runs'),
         finished' = finished \/ \E run \in runs' : finished' = finished \cup {run},
         Op[c] = "run" /\ result.kind = "execution" => result.run \in finished',
         UNCHANGED base
  PROVE  Promise!Return(c)
<1>1. Phase[c] = "open" /\ Phase' = [Phase EXCEPT ![c] = "done"]
  BY DEF IInv, TypeOK, Return, Phase
<1>2. outcome' = [outcome EXCEPT ![c] = result]
  BY DEF Return
<1> QED
  BY <1>1, <1>2 DEF Promise!Return

(* ... and one that does not goes on.                                       *)
LEMMA GoesOnMap ==
  ASSUME IInv, NEW c \in Calls, pc[c] \notin {"idle", "done"}, Promise!Effect(c),
         NEW where, GoTo(c, where), where \notin {"idle", "done"}, UNCHANGED <<base, finished>>
  PROVE  Promise!GoOn(c)
<1>1. Phase[c] = "open" /\ Phase' = Phase
  BY DEF IInv, TypeOK, GoTo, Phase
<1> QED
  BY <1>1 DEF Promise!GoOn, GoTo

(* A call begins in Exchange when it does in AnyClient ...                  *)
LEMMA BeginsMaps ==
  ASSUME IInv, NEW c \in Calls, Begins(c)
  PROVE  \E b \in Bases : Promise!Begin(c, b)
<1>1. PICK b \in Bases : base' = [base EXCEPT ![c] = b]
  BY DEF Begins, Begin
<1>2. Phase[c] = "idle" /\ Phase' = [Phase EXCEPT ![c] = "open"]
  BY DEF IInv, TypeOK, Begins, Begin, GoTo, Phase
<1>3. Op[c] = "submit" => GivenKey[c] \in Uuids \cup {None}
  BY DEF Begins, BadKey
<1> QED
  BY <1>1, <1>2, <1>3 DEF Begins, Begin, GoTo, serverVars, Promise!Begin, Promise!serverVars

(* ... and is rejected when it is there.                                    *)
LEMMA RejectMaps ==
  ASSUME IInv, NEW c \in Calls, Reject(c)
  PROVE  Promise!Reject(c)
<1>1. Phase[c] = "idle" /\ Phase' = [Phase EXCEPT ![c] = "done"]
  BY DEF IInv, TypeOK, Reject, Return, Phase
<1>2. outcome' = [outcome EXCEPT ![c] = [kind |-> "config"]] /\ "config" \in Promise!Errors
  BY DEF Reject, Return, Error, Promise!Errors
<1>3. UNCHANGED <<base, runs, finished, flying>>
  BY DEF Reject, serverVars
<1> QED
  BY <1>1, <1>2, <1>3 DEF Promise!Reject, Promise!serverVars

(* To back off, or to wait for a body, is to go on.                         *)
LEMMA WaitsMaps ==
  ASSUME IInv, NEW c \in Calls, Waits(c)
  PROVE  Promise!GoOn(c)
<1>1. Promise!Effect(c)
  BY UnansweredIsEffect DEF Waits
<1>2. pc[c] \notin {"idle", "done"} /\ UNCHANGED <<base, finished>>
  BY DEF Waits, context
<1> QED
  BY <1>1, <1>2, GoesOnMap DEF Waits

(* To wait for the next attempt or poll is no step of Exchange.             *)
LEMMA AgainMaps ==
  ASSUME IInv, NEW c \in Calls, TriesAgain(c) \/ AsksAgain(c)
  PROVE  UNCHANGED Promise!vars
<1>1. Phase' = Phase
  BY DEF IInv, TypeOK, TriesAgain, AsksAgain, GoTo, Phase
<1> QED
  BY <1>1 DEF TriesAgain, AsksAgain, GoTo, context, serverVars, Promise!vars, Promise!serverVars

(* To fail is to return an error.                                           *)
LEMMA FailsMaps ==
  ASSUME IInv, NEW c \in Calls, Fails(c)
  PROVE  Promise!Return(c)
<1>1. PICK kind \in Errors : Return(c, Error(kind))
  BY DEF Fails
<1>2. Promise!Effect(c)
  BY UnansweredIsEffect DEF Fails, Promise!Effect
<1>3. Error(kind) \in Promise!Results(c, runs')
  BY DEF Error, Errors, Promise!Results, Promise!Errors
<1>4. Op[c] = "run" /\ Error(kind).kind = "execution" => Error(kind).run \in finished'
  BY DEF Error, Errors
<1>5. pc[c] \notin {"idle", "done"} /\ finished' = finished /\ UNCHANGED base
  BY DEF Fails
<1> HIDE DEF Errors
<1> QED
  BY <1>1, <1>2, <1>3, <1>4, <1>5, ReturnsMap

(* A run that a call may be about is one that Exchange lets it return.      *)
LEMMA ResultsOf ==
  ASSUME NEW c \in Calls, NEW run \in runs', run.base = base[c],
         Op[c] = "get_result" \/ run.call = c \/ (Key(c) # None /\ run.key = Key(c)),
         NEW kind \in {"accepted", "judged", "execution", "still_running"}
  PROVE  [kind |-> kind, run |-> run] \in Promise!Results(c, runs')
BY DEF Promise!Results, Promise!Own, Promise!Key, Key

(* A poll to come is to go on, and to give up is to return the run.         *)
LEMMA PollsOrGivesUpMaps ==
  ASSUME IInv, NEW c \in Calls, pc[c] \notin {"idle", "done"}, Promise!Effect(c),
         NEW run \in runs', run.base = base[c], run.key = c, Op[c] = "run",
         PollsOrGivesUp(c, run), UNCHANGED <<base, finished>>
  PROVE  Promise!GoOn(c) \/ Promise!Return(c)
<1>1. CASE GoTo(c, "polling")
  BY <1>1, GoesOnMap
<1>2. CASE Return(c, [kind |-> "still_running", run |-> run])
  <2>1. [kind |-> "still_running", run |-> run] \in Promise!Results(c, runs')
    BY ResultsOf, KeysAssumption DEF Key
  <2> QED
    BY <1>2, <2>1, ReturnsMap
<1> QED
  BY <1>1, <1>2 DEF PollsOrGivesUp

(* The answer to the submission of `run` ...                                *)
LEMMA IsAnsweredRunMaps ==
  ASSUME IInv, NEW c \in Calls, IsAnsweredRun(c)
  PROVE  Promise!GoOn(c) \/ Promise!Return(c)
<1> DEFINE run == RunOf(Request(c))
<1>1. run \in runs' /\ run.base = base[c] /\ run.key = c
  BY RequestOf, ServedIsSound DEF IInv, CallInv, IsAnsweredRun, Awaited, Key
<1> HIDE DEF run
<1>2. \/ Return(c, [kind |-> "execution", run |-> run]) /\ finished' = finished \cup {run}
      \/ PollsOrGivesUp(c, run) /\ UNCHANGED finished
  BY DEF IsAnsweredRun, run
<1>3. Op[c] = "run" /\ pc[c] \notin {"idle", "done"} /\ UNCHANGED base /\ Served(c)
  BY DEF IsAnsweredRun, run, Awaited, context
<1>4. Promise!Effect(c)
  BY <1>3, ServedIsEffect
<1>5. [kind |-> "execution", run |-> run] \in Promise!Results(c, runs')
  BY <1>1, <1>3, ResultsOf, KeysAssumption DEF Key
<1> QED
  BY <1>1, <1>2, <1>3, <1>4, <1>5, PollsOrGivesUpMaps, ReturnsMap

(* ... and to a read of a result is one or the other.                       *)
LEMMA IsAnsweredResultMaps ==
  ASSUME IInv, NEW c \in Calls, IsAnsweredResult(c)
  PROVE  Promise!GoOn(c) \/ Promise!Return(c)
<1>1. /\ pc[c] \notin {"idle", "done"}
      /\ UNCHANGED <<runs, finished, flying, base>>
      /\ Promise!Effect(c)
      /\ Op[c] \in {"run", "get_result"}
  BY DEF IsAnsweredResult, Awaited, serverVars, context, Promise!Effect
<1>2. Op[c] = "run" => runId[c] \in runs /\ runId[c].base = base[c] /\ runId[c].key = c
  BY DEF IInv, CallInv, PollsOwn, IsAnsweredResult, Posts
<1>3. CASE /\ runId[c] \in runs /\ runId[c].base = base[c]
           /\ Op[c] = "get_result" \/ runId[c] \in finished
           /\ Return(c, [kind |-> "execution", run |-> runId[c]])
  <2>1. [kind |-> "execution", run |-> runId[c]] \in Promise!Results(c, runs')
    BY <1>1, <1>2, <1>3, ResultsOf, KeysAssumption DEF Key
  <2> QED
    BY <1>1, <1>3, <2>1, ReturnsMap
<1>4. CASE Op[c] = "run" /\ PollsOrGivesUp(c, runId[c])
  BY <1>1, <1>2, <1>4, PollsOrGivesUpMaps
<1>5. CASE Return(c, Error("not_found"))
  <2>1. Error("not_found") \in Promise!Results(c, runs') /\ Error("not_found").kind # "execution"
    BY DEF Error, Promise!Results, Promise!Errors
  <2> QED
    BY <1>1, <1>5, <2>1, ReturnsMap
<1> QED
  BY <1>3, <1>4, <1>5 DEF IsAnsweredResult

(* The other operations return what they are answered.                      *)
LEMMA AnswersMap ==
  ASSUME IInv, NEW c \in Calls,
         IsAnsweredSubmit(c) \/ IsAnsweredJudge(c) \/ IsAnsweredRead(c)
  PROVE  Promise!Return(c)
<1>1. Awaited(c) /\ UnderWay(c) /\ TypeOK /\ pc[c] \notin {"idle", "done"}
  BY DEF IInv, CallInv, Awaited, IsAnsweredSubmit, IsAnsweredJudge, IsAnsweredRead
<1> DEFINE run == RunOf(Request(c))
<1>2. CASE IsAnsweredSubmit(c) \/ IsAnsweredJudge(c)
  <2>1. Served(c) /\ Posts(c) /\ UNCHANGED base /\ Op[c] # "run"
    BY <1>2 DEF IsAnsweredSubmit, IsAnsweredJudge, Posts, context
  <2>2. run \in runs' /\ run.base = base[c] /\ Promise!Effect(c)
    BY <1>1, <2>1, ServedIsSound, ServedIsEffect, RequestOf
  <2>3. run.call = c \/ (Key(c) # None /\ run.key = Key(c))
    BY DEF RunOf, Replays, Request
  <2>4. PICK kind \in {"accepted", "judged"} : Return(c, [kind |-> kind, run |-> run])
    BY <1>2 DEF IsAnsweredSubmit, IsAnsweredJudge
  <2>5. finished' = finished \/ finished' = finished \cup {run}
    BY <1>2 DEF IsAnsweredSubmit, IsAnsweredJudge
  <2> HIDE DEF run
  <2>6. [kind |-> kind, run |-> run] \in Promise!Results(c, runs')
    BY <2>2, <2>3, ResultsOf
  <2> QED
    BY <1>1, <2>1, <2>2, <2>4, <2>5, <2>6, ReturnsMap
<1>3. CASE IsAnsweredRead(c)
  <2>1. /\ Op[c] # "run"
        /\ Return(c, Error("ok"))
        /\ UNCHANGED <<base, finished>>
        /\ Promise!Effect(c)
    BY <1>3 DEF IsAnsweredRead, serverVars, context, Promise!Effect
  <2>2. Error("ok") \in Promise!Results(c, runs')
    BY DEF Error, Promise!Results
  <2> QED
    BY <1>1, <2>1, <2>2, ReturnsMap
<1> QED
  BY <1>2, <1>3

(* What happens in the regions is the same.                                 *)
LEMMA EnvironmentMaps ==
  ASSUME IInv, Environment
  PROVE  Promise!Next
<1>1. UNCHANGED <<Phase, base, outcome>>
  BY DEF Environment, callVars, Phase
<1>2. CASE \E run \in runs : End(run)
  BY <1>1, <1>2 DEF End, Promise!End, Promise!Next
<1>3. CASE \E request \in flying : Deliver(request)
  BY <1>1, <1>3 DEF Deliver, Serve, RunOf, Replays,
                    Promise!Deliver, Promise!Serve, Promise!RunOf, Promise!Replays, Promise!Next
<1> QED
  BY <1>2, <1>3 DEF Environment

(* Every step of a call is one of Exchange or none.                         *)
LEMMA NextMaps == IInv /\ [Next]_vars => [Promise!Next]_Promise!vars
<1> SUFFICES ASSUME IInv, [Next]_vars PROVE Promise!Next \/ UNCHANGED Promise!vars
  OBVIOUS
<1>1. ASSUME NEW c \in Calls, Begins(c) PROVE Promise!Next
  BY <1>1, BeginsMaps DEF Promise!Next
<1>2. ASSUME NEW c \in Calls, Reject(c) PROVE Promise!Next
  BY <1>2, RejectMaps DEF Promise!Next
<1>3. ASSUME NEW c \in Calls, Waits(c) PROVE Promise!Next
  BY <1>3, WaitsMaps DEF Promise!Next
<1>4. ASSUME NEW c \in Calls, Fails(c) PROVE Promise!Next
  BY <1>4, FailsMaps DEF Promise!Next
<1>5. ASSUME NEW c \in Calls, IsAnsweredRun(c) \/ IsAnsweredResult(c) PROVE Promise!Next
  BY <1>5, IsAnsweredRunMaps, IsAnsweredResultMaps DEF Promise!Next
<1>6. ASSUME NEW c \in Calls, IsAnsweredSubmit(c) \/ IsAnsweredJudge(c) \/ IsAnsweredRead(c)
      PROVE  Promise!Next
  BY <1>6, AnswersMap DEF Promise!Next
<1>7. ASSUME NEW c \in Calls, Step(c) PROVE Promise!Next \/ UNCHANGED Promise!vars
  BY <1>1, <1>2, <1>3, <1>4, <1>5, <1>6, <1>7, AgainMaps DEF Step
<1>8. CASE Closes \/ UNCHANGED vars
  BY <1>8 DEF Closes, vars, callVars, serverVars, Phase, Promise!vars, Promise!serverVars
<1> QED
  BY <1>7, <1>8, EnvironmentMaps DEF Next

(* The initial states are initial states of Exchange.                       *)
LEMMA InitMaps == Init => Promise!Init
BY DEF Init, ApiInit, Error, Phase, Promise!Init, Promise!ApiInit

(* AnyClient implements Exchange.                                           *)
THEOREM Implements == Spec => ImplementsExchange
BY Inductive, InitMaps, NextMaps, PTL DEF Spec, ImplementsExchange, Promise!Spec
=============================================================================

---------------------------- MODULE ClientsProofs ----------------------------
(***************************************************************************)
(* Each of the four SDKs implements AnyClient, and so keeps what AnyClient *)
(* and Exchange keep.                                                      *)
(***************************************************************************)
EXTENDS AnyClientProofs

Rust == INSTANCE ClientRust
Go == INSTANCE ClientGo
Py == INSTANCE ClientPy
Ts == INSTANCE ClientTs

(* Exchange and what is proved of it, for the phases of the calls.          *)
P == INSTANCE ExchangeProofs WITH phase <- Phase

(* An attempt that is not below what the call is worth is the last.         *)
LEMMA LastAttempt ==
  ASSUME IInv, NEW c \in Calls, attempt[c] >= Attempts(c)
  PROVE  attempt[c] = Attempts(c)
BY AttemptsOf, RetriesAssumption DEF IInv, TypeOK, CallInv, InBudget

(* What serving does to a region may also happen without an answer.         *)
LEMMA ServedIsUnanswered == ASSUME NEW c, Served(c) PROVE Unanswered(c)
BY DEF Served, Unanswered, GoesUnanswered
-----------------------------------------------------------------------------
(***************************************************************************)
(* Rust SDK.                                                               *)
(***************************************************************************)
(* The operators that the SDKs share mean the same in each of them.         *)
LEMMA RustMeans ==
  ASSUME NEW c \in Calls
  PROVE  /\ Rust!Unanswered(c) <=> Unanswered(c)
         /\ Rust!Served(c) <=> Served(c)
         /\ Rust!Posts(c) <=> Posts(c)
         /\ Rust!RunOf(Rust!Request(c)) = RunOf(Request(c))
         /\ Rust!Retries(c) = Attempts(c)
         /\ Rust!BadKey(c) <=> BadKey(c)
<1>1. Rust!Request(c) = Request(c) /\ (Rust!Posts(c) <=> Posts(c))
  BY DEF Rust!Request, Rust!Key, Rust!Posts, Request, Key, Posts
<1>2. /\ Rust!GoesUnanswered(Request(c)) <=> GoesUnanswered(Request(c))
      /\ Rust!Serve(Request(c)) <=> Serve(Request(c))
      /\ Rust!RunOf(Request(c)) = RunOf(Request(c))
  BY DEF Rust!GoesUnanswered, Rust!Serve, Rust!RunOf, Rust!Replays,
         GoesUnanswered, Serve, RunOf, Replays
<1>3. Rust!Retries(c) = Attempts(c)
  BY DEF Rust!Retries, Rust!Retryable, Rust!Posts, Rust!Key, Attempts, Posts, Key
<1> QED
  BY <1>1, <1>2, <1>3 DEF Rust!Unanswered, Rust!Served, Rust!BadKey, Unanswered, Served, BadKey

(* Every action of a call is one of AnyClient ...                           *)
LEMMA RustStep ==
  ASSUME IInv, NEW c \in Calls, Rust!Start(c) \/ Rust!Go(c) \/ Rust!Drop(c)
  PROVE  Step(c)
<1> USE DEF context, Rust!context, serverVars, Rust!serverVars
<1>1. CASE Rust!Start(c)
  BY <1>1, RustMeans
  DEF Rust!Start, Rust!Begin, Rust!Reject, Rust!Return, Rust!KnownIds, Rust!GoTo, Rust!Error,
      Begins, Begin, Reject, Return, KnownIds, GoTo, Error, Step
<1>2. CASE Rust!AttemptFails(c)
  BY <1>2, RustMeans, ServedIsUnanswered
  DEF Rust!AttemptFails, Rust!GoTo, Waits, GoTo, Unanswered, GoesUnanswered, Step
<1>3. CASE Rust!Retry(c) \/ Rust!Poll(c)
  BY <1>3 DEF Rust!Retry, Rust!Poll, Rust!GoTo, TriesAgain, AsksAgain, GoTo, Step
<1>4. CASE Rust!LastAttemptFails(c)
  BY <1>4, RustMeans, LastAttempt
  DEF Rust!LastAttemptFails, Rust!Return, Rust!Error, Fails, Reports, Awaited,
      Return, Error, Errors, Step
<1>5. CASE Rust!BodyFails(c)
  BY <1>5, RustMeans, ServedIsUnanswered
  DEF Rust!BodyFails, Rust!Return, Rust!Error, Fails, Reports, Awaited, Return, Error, Errors,
      Unanswered, GoesUnanswered, Step
<1>6. CASE Rust!Refused(c)
  BY <1>6, RustMeans, ServedIsUnanswered
  DEF Rust!Refused, Rust!Return, Rust!Error, Fails, Reports, Awaited, Return, Error, Errors,
      Unanswered, GoesUnanswered, Step
<1>7. CASE Rust!Drop(c)
  BY <1>7, RustMeans, ServedIsUnanswered
  DEF Rust!Drop, Rust!Return, Rust!Error, Fails, Reports, Awaited, Return, Error, Errors,
      Unanswered, GoesUnanswered, Step
<1>8. CASE Rust!AnswerRun(c)
  BY <1>8, RustMeans
  DEF Rust!AnswerRun, Rust!PollNext, Rust!GoTo, Rust!Return,
      IsAnsweredRun, PollsOrGivesUp, Awaited, GoTo, Return, Step
<1>9. CASE Rust!AnswerResult(c)
  <2>1. ASSUME NEW execution \in Rust!Executions(runId[c]), Rust!IsDone(execution)
        PROVE  runId[c] \in finished
    BY <2>1 DEF Rust!Executions, Rust!IsDone
  <2> QED
    BY <1>9, <2>1, RustMeans
    DEF Rust!AnswerResult, Rust!PollNext, Rust!GoTo, Rust!Return, Rust!Error,
        IsAnsweredResult, PollsOrGivesUp, Awaited, GoTo, Return, Error, Step
<1>10. CASE Rust!AnswerSubmit(c) \/ Rust!AnswerJudge(c) \/ Rust!AnswerRead(c)
  BY <1>10, RustMeans
  DEF Rust!AnswerSubmit, Rust!AnswerJudge, Rust!AnswerRead, Rust!Return, Rust!Error,
      IsAnsweredSubmit, IsAnsweredJudge, IsAnsweredRead, Awaited, Return, Error, Step
<1> QED
  BY <1>1, <1>2, <1>3, <1>4, <1>5, <1>6, <1>7, <1>8, <1>9, <1>10 DEF Rust!Go

(* ... and so is every step.                                                *)
LEMMA RustNext == IInv /\ [Rust!Next]_Rust!vars => [Next]_vars
<1> SUFFICES ASSUME IInv, Rust!Next PROVE Next
  BY DEF Rust!vars, Rust!callVars, Rust!serverVars, vars, callVars, serverVars
<1>1. Rust!Environment => Environment
  BY DEF Rust!Environment, Rust!End, Rust!Deliver, Rust!Serve, Rust!RunOf, Rust!Replays,
         Rust!callVars,
         Environment, End, Deliver, Serve, RunOf, Replays, callVars
<1> QED
  BY <1>1, RustStep DEF Rust!Next, Next

(* The Rust SDK implements AnyClient.                                       *)
THEOREM RustImplements == Rust!Spec => Spec
<1>1. Rust!Init => Init
  BY DEF Rust!Init, Rust!ApiInit, Rust!Error, Init, ApiInit, Error
<1> QED
  BY <1>1, InitInv, NextInv, RustNext, PTL DEF Rust!Spec, Spec
-----------------------------------------------------------------------------
(***************************************************************************)
(* Go SDK.                                                                 *)
(***************************************************************************)
(* The operators that the SDKs share mean the same in each of them.         *)
LEMMA GoMeans ==
  ASSUME NEW c \in Calls
  PROVE  /\ Go!Unanswered(c) <=> Unanswered(c)
         /\ Go!Served(c) <=> Served(c)
         /\ Go!Posts(c) <=> Posts(c)
         /\ Go!RunOf(Go!Request(c)) = RunOf(Request(c))
         /\ Go!Retries(c) = Attempts(c)
         /\ Go!BadKey(c) <=> BadKey(c)
<1>1. Go!Request(c) = Request(c) /\ (Go!Posts(c) <=> Posts(c))
  BY DEF Go!Request, Go!Key, Go!Posts, Request, Key, Posts
<1>2. /\ Go!GoesUnanswered(Request(c)) <=> GoesUnanswered(Request(c))
      /\ Go!Serve(Request(c)) <=> Serve(Request(c))
      /\ Go!RunOf(Request(c)) = RunOf(Request(c))
  BY DEF Go!GoesUnanswered, Go!Serve, Go!RunOf, Go!Replays,
         GoesUnanswered, Serve, RunOf, Replays
<1>3. Go!Retries(c) = Attempts(c)
  BY DEF Go!Retries, Go!Retryable, Go!Posts, Go!Key, Attempts, Posts, Key
<1> QED
  BY <1>1, <1>2, <1>3 DEF Go!Unanswered, Go!Served, Go!BadKey, Unanswered, Served, BadKey

(* Every action of a call is one of AnyClient ...                           *)
LEMMA GoStep ==
  ASSUME IInv, NEW c \in Calls, Go!Start(c) \/ Go!Go(c) \/ Go!CancelSend(c) \/ Go!CancelPoll(c)
  PROVE  Step(c)
<1> USE DEF context, Go!context, serverVars, Go!serverVars
<1>1. CASE Go!Start(c)
  BY <1>1, GoMeans
  DEF Go!Start, Go!Begin, Go!Reject, Go!Return, Go!KnownIds, Go!GoTo, Go!Error,
      Begins, Begin, Reject, Return, KnownIds, GoTo, Error, Step
<1>2. CASE Go!AttemptFails(c)
  BY <1>2, GoMeans, ServedIsUnanswered
  DEF Go!AttemptFails, Go!GoTo, Waits, GoTo, Unanswered, GoesUnanswered, Step
<1>3. CASE Go!Retry(c) \/ Go!Poll(c)
  BY <1>3 DEF Go!Retry, Go!Poll, Go!GoTo, TriesAgain, AsksAgain, GoTo, Step
<1>4. CASE Go!LastAttemptFails(c)
  BY <1>4, GoMeans, LastAttempt
  DEF Go!LastAttemptFails, Go!Return, Go!Error, Fails, Reports, Awaited,
      Return, Error, Errors, Step
<1>5. CASE Go!BodyFails(c)
  BY <1>5, GoMeans, ServedIsUnanswered
  DEF Go!BodyFails, Go!Return, Go!Error, Fails, Reports, Awaited, Return, Error, Errors,
      Unanswered, GoesUnanswered, Step
<1>6. CASE Go!Refused(c)
  BY <1>6, GoMeans, ServedIsUnanswered
  DEF Go!Refused, Go!Return, Go!Error, Fails, Reports, Awaited, Return, Error, Errors,
      Unanswered, GoesUnanswered, Step
<1>7. CASE Go!CancelSend(c)
  BY <1>7, GoMeans, ServedIsUnanswered
  DEF Go!CancelSend, Go!Return, Go!Error, Fails, Reports, Awaited, Return, Error, Errors,
      Unanswered, GoesUnanswered, Step
<1>8. CASE Go!CancelPoll(c)
  BY <1>8, GoMeans, ServedIsUnanswered
  DEF Go!CancelPoll, Go!Return, Go!Error, Fails, Reports, Awaited, Return, Error, Errors,
      Unanswered, GoesUnanswered, Step
<1>9. CASE Go!AnswerRun(c)
  BY <1>9, GoMeans
  DEF Go!AnswerRun, Go!PollNext, Go!GoTo, Go!Return,
      IsAnsweredRun, PollsOrGivesUp, Awaited, GoTo, Return, Step
<1>10. CASE Go!AnswerResult(c)
  <2>1. ASSUME NEW execution \in Go!Executions(runId[c]), Go!IsDone(execution)
        PROVE  runId[c] \in finished
    BY <2>1 DEF Go!Executions, Go!IsDone
  <2> QED
    BY <1>10, <2>1, GoMeans
    DEF Go!AnswerResult, Go!PollNext, Go!GoTo, Go!Return, Go!Error,
        IsAnsweredResult, PollsOrGivesUp, Awaited, GoTo, Return, Error, Step
<1>11. CASE Go!AnswerSubmit(c) \/ Go!AnswerJudge(c) \/ Go!AnswerRead(c)
  BY <1>11, GoMeans
  DEF Go!AnswerSubmit, Go!AnswerJudge, Go!AnswerRead, Go!Return, Go!Error,
      IsAnsweredSubmit, IsAnsweredJudge, IsAnsweredRead, Awaited, Return, Error, Step
<1> QED
  BY <1>1, <1>2, <1>3, <1>4, <1>5, <1>6, <1>7, <1>8, <1>9, <1>10, <1>11 DEF Go!Go

(* ... and so is every step.                                                *)
LEMMA GoNext == IInv /\ [Go!Next]_Go!vars => [Next]_vars
<1> SUFFICES ASSUME IInv, Go!Next PROVE Next
  BY DEF Go!vars, Go!callVars, Go!serverVars, vars, callVars, serverVars
<1>1. Go!Environment => Environment
  BY DEF Go!Environment, Go!End, Go!Deliver, Go!Serve, Go!RunOf, Go!Replays,
         Go!callVars,
         Environment, End, Deliver, Serve, RunOf, Replays, callVars
<1> QED
  BY <1>1, GoStep DEF Go!Next, Next

(* The Go SDK implements AnyClient.                                         *)
THEOREM GoImplements == Go!Spec => Spec
<1>1. Go!Init => Init
  BY DEF Go!Init, Go!ApiInit, Go!Error, Init, ApiInit, Error
<1> QED
  BY <1>1, InitInv, NextInv, GoNext, PTL DEF Go!Spec, Spec
-----------------------------------------------------------------------------
(***************************************************************************)
(* Python SDK.                                                             *)
(***************************************************************************)
(* The operators that the SDKs share mean the same in each of them.         *)
LEMMA PyMeans ==
  ASSUME NEW c \in Calls
  PROVE  /\ Py!Unanswered(c) <=> Unanswered(c)
         /\ Py!Served(c) <=> Served(c)
         /\ Py!Posts(c) <=> Posts(c)
         /\ Py!RunOf(Py!Request(c)) = RunOf(Request(c))
         /\ Py!Retries(c) = Attempts(c)
         /\ Py!BadKey(c) <=> BadKey(c)
<1>1. Py!Request(c) = Request(c) /\ (Py!Posts(c) <=> Posts(c))
  BY DEF Py!Request, Py!Key, Py!Posts, Request, Key, Posts
<1>2. /\ Py!GoesUnanswered(Request(c)) <=> GoesUnanswered(Request(c))
      /\ Py!Serve(Request(c)) <=> Serve(Request(c))
      /\ Py!RunOf(Request(c)) = RunOf(Request(c))
  BY DEF Py!GoesUnanswered, Py!Serve, Py!RunOf, Py!Replays,
         GoesUnanswered, Serve, RunOf, Replays
<1>3. Py!Retries(c) = Attempts(c)
  BY DEF Py!Retries, Py!Retryable, Py!Posts, Py!Key, Attempts, Posts, Key
<1> QED
  BY <1>1, <1>2, <1>3 DEF Py!Unanswered, Py!Served, Py!BadKey, Unanswered, Served, BadKey

(* Every action of a call is one of AnyClient ...                           *)
LEMMA PyStep ==
  ASSUME IInv, NEW c \in Calls, Py!Start(c) \/ Py!Go(c) \/ Py!Drop(c)
  PROVE  Step(c)
<1> USE DEF context, Py!context, serverVars, Py!serverVars
<1>1. CASE Py!Start(c)
  BY <1>1, PyMeans
  DEF Py!Start, Py!Begin, Py!Reject, Py!Return, Py!KnownIds, Py!GoTo, Py!Error,
      Begins, Begin, Reject, Return, KnownIds, GoTo, Error, Step
<1>2. CASE Py!AttemptFails(c)
  BY <1>2, PyMeans, ServedIsUnanswered
  DEF Py!AttemptFails, Py!GoTo, Waits, GoTo, Unanswered, GoesUnanswered, Step
<1>3. CASE Py!Retry(c) \/ Py!Poll(c)
  BY <1>3 DEF Py!Retry, Py!Poll, Py!GoTo, TriesAgain, AsksAgain, GoTo, Step
<1>4. CASE Py!LastAttemptFails(c)
  BY <1>4, PyMeans, LastAttempt
  DEF Py!LastAttemptFails, Py!Return, Py!Error, Fails, Reports, Awaited,
      Return, Error, Errors, Step
<1>5. CASE Py!RetryWhenClosed(c)
  BY <1>5, PyMeans, ServedIsUnanswered
  DEF Py!RetryWhenClosed, Py!Return, Py!Error, Fails, Reports, Awaited, Return, Error, Errors,
      Unanswered, GoesUnanswered, Step
<1>6. CASE Py!BodyFails(c)
  BY <1>6, PyMeans, ServedIsUnanswered
  DEF Py!BodyFails, Py!Return, Py!Error, Fails, Reports, Awaited, Return, Error, Errors,
      Unanswered, GoesUnanswered, Step
<1>7. CASE Py!AttemptThrows(c)
  BY <1>7, PyMeans, ServedIsUnanswered
  DEF Py!AttemptThrows, Py!Return, Py!Error, Fails, Reports, Awaited, Return, Error, Errors,
      Unanswered, GoesUnanswered, Step
<1>8. CASE Py!Refused(c)
  BY <1>8, PyMeans, ServedIsUnanswered
  DEF Py!Refused, Py!Return, Py!Error, Fails, Reports, Awaited, Return, Error, Errors,
      Unanswered, GoesUnanswered, Step
<1>9. CASE Py!PollWhenClosed(c)
  BY <1>9, PyMeans, ServedIsUnanswered
  DEF Py!PollWhenClosed, Py!Return, Py!Error, Fails, Reports, Awaited, Return, Error, Errors,
      Unanswered, GoesUnanswered, Step
<1>10. CASE Py!Drop(c)
  BY <1>10, PyMeans, ServedIsUnanswered
  DEF Py!Drop, Py!Return, Py!Error, Fails, Reports, Awaited, Return, Error, Errors,
      Unanswered, GoesUnanswered, Step
<1>11. CASE Py!AnswerRun(c)
  BY <1>11, PyMeans
  DEF Py!AnswerRun, Py!PollNext, Py!GoTo, Py!Return,
      IsAnsweredRun, PollsOrGivesUp, Awaited, GoTo, Return, Step
<1>12. CASE Py!AnswerResult(c)
  <2>1. ASSUME NEW execution \in Py!Executions(runId[c]), Py!IsDone(execution)
        PROVE  runId[c] \in finished
    BY <2>1 DEF Py!Executions, Py!IsDone
  <2> QED
    BY <1>12, <2>1, PyMeans
    DEF Py!AnswerResult, Py!PollNext, Py!GoTo, Py!Return, Py!Error,
        IsAnsweredResult, PollsOrGivesUp, Awaited, GoTo, Return, Error, Step
<1>13. CASE Py!AnswerSubmit(c) \/ Py!AnswerJudge(c) \/ Py!AnswerRead(c)
  BY <1>13, PyMeans
  DEF Py!AnswerSubmit, Py!AnswerJudge, Py!AnswerRead, Py!Return, Py!Error,
      IsAnsweredSubmit, IsAnsweredJudge, IsAnsweredRead, Awaited, Return, Error, Step
<1> QED
  BY <1>1, <1>2, <1>3, <1>4, <1>5, <1>6, <1>7, <1>8, <1>9, <1>10, <1>11, <1>12, <1>13
  DEF Py!Go

(* ... and so is every step.                                                *)
LEMMA PyNext == IInv /\ [Py!Next]_Py!vars => [Next]_vars
<1> SUFFICES ASSUME IInv, Py!Next PROVE Next
  BY DEF Py!vars, Py!callVars, Py!serverVars, vars, callVars, serverVars
<1>1. Py!Environment => Environment
  BY DEF Py!Environment, Py!End, Py!Deliver, Py!Serve, Py!RunOf, Py!Replays,
         Py!callVars,
         Environment, End, Deliver, Serve, RunOf, Replays, callVars
<1>2. Py!Close => Closes
  BY DEF Py!Close, Py!callVars, Py!serverVars, Closes, callVars, serverVars
<1> QED
  BY <1>1, <1>2, PyStep DEF Py!Next, Next

(* The Python SDK implements AnyClient.                                     *)
THEOREM PyImplements == Py!Spec => Spec
<1>1. Py!Init => Init
  BY DEF Py!Init, Py!ApiInit, Py!Error, Init, ApiInit, Error
<1> QED
  BY <1>1, InitInv, NextInv, PyNext, PTL DEF Py!Spec, Spec
-----------------------------------------------------------------------------
(***************************************************************************)
(* TypeScript SDK.                                                         *)
(***************************************************************************)
(* The operators that the SDKs share mean the same in each of them.         *)
LEMMA TsMeans ==
  ASSUME NEW c \in Calls
  PROVE  /\ Ts!Unanswered(c) <=> Unanswered(c)
         /\ Ts!Served(c) <=> Served(c)
         /\ Ts!Posts(c) <=> Posts(c)
         /\ Ts!RunOf(Ts!Request(c)) = RunOf(Request(c))
         /\ Ts!Retries(c) = Attempts(c)
         /\ Ts!BadKey(c) <=> BadKey(c)
<1>1. Ts!Request(c) = Request(c) /\ (Ts!Posts(c) <=> Posts(c))
  BY DEF Ts!Request, Ts!Key, Ts!Posts, Request, Key, Posts
<1>2. /\ Ts!GoesUnanswered(Request(c)) <=> GoesUnanswered(Request(c))
      /\ Ts!Serve(Request(c)) <=> Serve(Request(c))
      /\ Ts!RunOf(Request(c)) = RunOf(Request(c))
  BY DEF Ts!GoesUnanswered, Ts!Serve, Ts!RunOf, Ts!Replays,
         GoesUnanswered, Serve, RunOf, Replays
<1>3. Ts!Retries(c) = Attempts(c)
  BY DEF Ts!Retries, Ts!Retryable, Ts!Posts, Ts!Key, Attempts, Posts, Key
<1> QED
  BY <1>1, <1>2, <1>3 DEF Ts!Unanswered, Ts!Served, Ts!BadKey, Unanswered, Served, BadKey

(* Every action of a call is one of AnyClient ...                           *)
LEMMA TsStep ==
  ASSUME IInv, NEW c \in Calls, Ts!Start(c) \/ Ts!Go(c)
  PROVE  Step(c)
<1> USE DEF context, Ts!context, serverVars, Ts!serverVars
<1>1. CASE Ts!Start(c)
  BY <1>1, TsMeans
  DEF Ts!Start, Ts!Begin, Ts!Reject, Ts!Return, Ts!KnownIds, Ts!GoTo, Ts!Error,
      Begins, Begin, Reject, Return, KnownIds, GoTo, Error, Step
<1>2. CASE Ts!AttemptFails(c) \/ Ts!Stall(c)
  BY <1>2, TsMeans, ServedIsUnanswered
  DEF Ts!AttemptFails, Ts!Stall, Ts!GoTo, Waits, GoTo, Unanswered, GoesUnanswered, Step
<1>3. CASE Ts!Retry(c) \/ Ts!Poll(c)
  BY <1>3 DEF Ts!Retry, Ts!Poll, Ts!GoTo, TriesAgain, AsksAgain, GoTo, Step
<1>4. CASE Ts!LastAttemptFails(c)
  BY <1>4, TsMeans, LastAttempt
  DEF Ts!LastAttemptFails, Ts!Return, Ts!Error, Fails, Reports, Awaited,
      Return, Error, Errors, Step
<1>5. CASE Ts!BodyFails(c)
  BY <1>5, TsMeans, ServedIsUnanswered
  DEF Ts!BodyFails, Ts!Awaits, Ts!Return, Ts!Error, Fails, Reports, Awaited, Return, Error, Errors,
      Unanswered, GoesUnanswered, Step
<1>6. CASE Ts!AttemptThrows(c)
  BY <1>6, TsMeans, ServedIsUnanswered
  DEF Ts!AttemptThrows, Ts!Return, Ts!Error, Fails, Reports, Awaited, Return, Error, Errors,
      Unanswered, GoesUnanswered, Step
<1>7. CASE Ts!Refused(c)
  BY <1>7, TsMeans, ServedIsUnanswered
  DEF Ts!Refused, Ts!Awaits, Ts!Return, Ts!Error, Fails, Reports, Awaited, Return, Error, Errors,
      Unanswered, GoesUnanswered, Step
<1>8. CASE Ts!AnswerRun(c)
  BY <1>8, TsMeans
  DEF Ts!AnswerRun, Ts!Awaits, Ts!PollNext, Ts!GoTo, Ts!Return,
      IsAnsweredRun, PollsOrGivesUp, Awaited, GoTo, Return, Step
<1>9. CASE Ts!AnswerResult(c)
  <2>1. ASSUME NEW execution \in Ts!Executions(runId[c]), Ts!IsDone(execution)
        PROVE  runId[c] \in finished
    BY <2>1 DEF Ts!Executions, Ts!IsDone
  <2> QED
    BY <1>9, <2>1, TsMeans
    DEF Ts!AnswerResult, Ts!Awaits, Ts!PollNext, Ts!GoTo, Ts!Return, Ts!Error,
        IsAnsweredResult, PollsOrGivesUp, Awaited, GoTo, Return, Error, Step
<1>10. CASE Ts!AnswerSubmit(c) \/ Ts!AnswerJudge(c) \/ Ts!AnswerRead(c)
  BY <1>10, TsMeans
  DEF Ts!AnswerSubmit, Ts!AnswerJudge, Ts!AnswerRead, Ts!Awaits, Ts!Return, Ts!Error,
      IsAnsweredSubmit, IsAnsweredJudge, IsAnsweredRead, Awaited, Return, Error, Step
<1> QED
  BY <1>1, <1>2, <1>3, <1>4, <1>5, <1>6, <1>7, <1>8, <1>9, <1>10 DEF Ts!Go

(* ... and so is every step.                                                *)
LEMMA TsNext == IInv /\ [Ts!Next]_Ts!vars => [Next]_vars
<1> SUFFICES ASSUME IInv, Ts!Next PROVE Next
  BY DEF Ts!vars, Ts!callVars, Ts!serverVars, vars, callVars, serverVars
<1>1. Ts!Environment => Environment
  BY DEF Ts!Environment, Ts!End, Ts!Deliver, Ts!Serve, Ts!RunOf, Ts!Replays,
         Ts!callVars,
         Environment, End, Deliver, Serve, RunOf, Replays, callVars
<1> QED
  BY <1>1, TsStep DEF Ts!Next, Next

(* The TypeScript SDK implements AnyClient.                                 *)
THEOREM TsImplements == Ts!Spec => Spec
<1>1. Ts!Init => Init
  BY DEF Ts!Init, Ts!ApiInit, Ts!Error, Init, ApiInit, Error
<1> QED
  BY <1>1, InitInv, NextInv, TsNext, PTL DEF Ts!Spec, Spec
-----------------------------------------------------------------------------
(***************************************************************************)
(* All four.                                                               *)
(***************************************************************************)
AnySdk == Rust!Spec \/ Go!Spec \/ Py!Spec \/ Ts!Spec

LEMMA AnySdkInv == AnySdk => []IInv
BY Inductive, RustImplements, GoImplements, PyImplements, TsImplements, PTL DEF AnySdk

(* Each SDK's operations keep the promise of Exchange: one base for a call, *)
(* repeated only what can be, and the result is one of the call's own.      *)
THEOREM SdksImplementExchange == AnySdk => ImplementsExchange
BY Implements, RustImplements, GoImplements, PyImplements, TsImplements, PTL DEF AnySdk

(* The states of the operations are those of the type invariant.            *)
THEOREM SdksTyped == AnySdk => []TypeOK
BY AnySdkInv, InvImplies, PTL

(* No SDK reports a region before the attempts of a call are exhausted, but *)
(* for a call that is cancelled.                                            *)
THEOREM SdksReport == AnySdk => []ReportedOnlyWhenExhausted
BY AnySdkInv, InvImplies, PTL

(* The region that `run` polls has the run.                                 *)
THEOREM SdksFindTheRun == AnySdk => []PollsFindTheRun
BY AnySdkInv, InvImplies, PTL

(* `run` gives a run up when all the polls are made, and no earlier.        *)
THEOREM SdksGiveUp == AnySdk => []GivenUpAfterTheBudget
BY AnySdkInv, InvImplies, PTL

(* What ExchangeProofs proves is about the promise that Operations states.  *)
LEMMA ExchangeIsP == ImplementsExchange => P!Spec
<1>1. Promise!Init => P!Init
  BY DEF Promise!Init, Promise!ApiInit, P!Init, P!ApiInit
<1>2. [Promise!Next]_Promise!vars => [P!Next]_P!vars
  BY DEF Promise!Next, Promise!vars, Promise!serverVars, Promise!Begin, Promise!Reject,
         Promise!GoOn, Promise!Return, Promise!Effect, Promise!Attempts, Promise!Request,
         Promise!Results, Promise!Own, Promise!Submits, Promise!Key, Promise!Errors,
         Promise!End, Promise!Deliver, Promise!GoesUnanswered, Promise!Serve, Promise!RunOf,
         Promise!Replays,
         P!Next, P!vars, P!serverVars, P!Begin, P!Reject, P!GoOn, P!Return, P!Effect,
         P!Attempts, P!Request, P!Results, P!Own, P!Submits, P!Key, P!Errors, P!End,
         P!Deliver, P!GoesUnanswered, P!Serve, P!RunOf, P!Replays
<1> QED
  BY <1>1, <1>2, PTL DEF ImplementsExchange, Promise!Spec, P!Spec

(* Whatever an SDK retries, and whatever the network loses or delays, a call *)
(* causes one execution.                                                    *)
THEOREM SdksExecuteOnce == AnySdk => []ExecutedAtMostOnce
<1>1. P!Spec => []P!ExecutedAtMostOnce
  BY P!Once, OpsAssumption, KeysAssumption, RetriesAssumption
<1>2. P!ExecutedAtMostOnce => ExecutedAtMostOnce
  BY DEF P!ExecutedAtMostOnce, ExecutedAtMostOnce
<1> QED
  BY <1>1, <1>2, SdksImplementExchange, ExchangeIsP, PTL

(* `run` returns the end of its own execution in every SDK.                 *)
THEOREM SdksReturnTheirOwn == AnySdk => []RunReturnsItsOwn
<1>1. P!Spec => []P!RunReturnsItsOwn
  BY P!ReturnsItsOwn, OpsAssumption, KeysAssumption, RetriesAssumption
<1>2. P!RunReturnsItsOwn => RunReturnsItsOwn
  BY DEF P!RunReturnsItsOwn, RunReturnsItsOwn, Promise!RunReturnsItsOwn
<1> QED
  BY <1>1, <1>2, SdksImplementExchange, ExchangeIsP, PTL
=============================================================================

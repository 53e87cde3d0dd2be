--------------------------- MODULE RustboxTsProofs ---------------------------
(***************************************************************************)
(* The TypeScript SDK as a whole: its operations are those of ClientTs and *)
(* its selectors those of RegionsTs, so that each keeps what is proved of  *)
(* it alone; and what the two promise together.                            *)
(***************************************************************************)
EXTENDS RustboxTs, ClientsProofs

(* RegionsTs and what is proved of it, for the calls of the SDK.            *)
S == INSTANCE RegionsTsProofs WITH pc <- where, base <- endpoint

(* The client of RustboxTs is the one of ClientsProofs.                     *)
LEMMA ClientIsTs ==
  ASSUME NEW c
  PROVE  /\ Client!Start(c) <=> Ts!Start(c)
         /\ Client!Go(c) <=> Ts!Go(c)
<1>1. Client!Start(c) <=> Ts!Start(c)
  BY DEF Client!Start, Client!BadKey, Client!Reject, Client!Begin, Client!Return, Client!Error,
         Client!GoTo, Client!KnownIds, Client!serverVars,
         Ts!Start, Ts!BadKey, Ts!Reject, Ts!Begin, Ts!Return, Ts!Error, Ts!GoTo, Ts!KnownIds,
         Ts!serverVars
<1>2. Client!Go(c) <=> Ts!Go(c)
  BY DEF Client!Go, Client!AttemptFails, Client!LastAttemptFails, Client!Stall, Client!BodyFails,
         Client!Refused, Client!AttemptThrows, Client!AnswerRun, Client!AnswerResult,
         Client!AnswerSubmit, Client!AnswerJudge, Client!AnswerRead, Client!Retry, Client!Poll,
         Client!Awaits, Client!PollNext, Client!IsDone, Client!Retries, Client!Retryable,
         Client!Unanswered, Client!Served, Client!Posts, Client!Key, Client!Request,
         Client!GoesUnanswered, Client!Serve, Client!RunOf, Client!Replays, Client!Executions,
         Client!Return, Client!Error, Client!GoTo, Client!serverVars, Client!context,
         Ts!Go, Ts!AttemptFails, Ts!LastAttemptFails, Ts!Stall, Ts!BodyFails,
         Ts!Refused, Ts!AttemptThrows, Ts!AnswerRun, Ts!AnswerResult,
         Ts!AnswerSubmit, Ts!AnswerJudge, Ts!AnswerRead, Ts!Retry, Ts!Poll,
         Ts!Awaits, Ts!PollNext, Ts!IsDone, Ts!Retries, Ts!Retryable,
         Ts!Unanswered, Ts!Served, Ts!Posts, Ts!Key, Ts!Request,
         Ts!GoesUnanswered, Ts!Serve, Ts!RunOf, Ts!Replays, Ts!Executions,
         Ts!Return, Ts!Error, Ts!GoTo, Ts!serverVars, Ts!context
<1> QED
  BY <1>1, <1>2

(* Each step of the SDK is one of the client, or changes nothing it has.     *)
LEMMA StepOfClient == [SdkNext]_<<vars, selectorVars>> => [Ts!Next]_Ts!vars
<1> SUFFICES ASSUME [SdkNext]_<<vars, selectorVars>> PROVE Ts!Next \/ UNCHANGED Ts!vars
  OBVIOUS
<1>1. UNCHANGED vars => UNCHANGED Ts!vars
  BY DEF vars, callVars, serverVars, Ts!vars, Ts!callVars, Ts!serverVars
<1>2. ASSUME NEW c \in Calls, Ask(c) \/ Refuse(c) \/ Send(c) \/ Work(c) \/ ReturnToApp(c)
      PROVE  Ts!Next \/ UNCHANGED vars
  BY <1>2, ClientIsTs DEF Ask, Refuse, Send, Work, ReturnToApp, Ts!Next
<1>3. Environment => Ts!Environment
  BY DEF Ts!Environment, Ts!End, Ts!Deliver, Ts!Serve, Ts!RunOf, Ts!Replays, Ts!callVars,
         Environment, End, Deliver, Serve, RunOf, Replays, callVars
<1> QED
  BY <1>1, <1>2, <1>3 DEF SdkNext, Elsewhere, Ts!Next

(* ... and one of the selectors, or changes nothing they have.              *)
LEMMA StepOfSelector == [SdkNext]_<<vars, selectorVars>> => [Selector!Next]_Selector!vars
<1> SUFFICES ASSUME [SdkNext]_<<vars, selectorVars>>
             PROVE  Selector!Next \/ UNCHANGED Selector!vars
  OBVIOUS
<1>1. UNCHANGED selectorVars => UNCHANGED Selector!vars
  BY DEF selectorVars, Selector!vars, Selector!historyVars
<1>2. ASSUME NEW c \in Calls, Ask(c) \/ Refuse(c) \/ Send(c) \/ Work(c) \/ ReturnToApp(c)
      PROVE  Selector!Next \/ UNCHANGED selectorVars
  BY <1>2 DEF Ask, Refuse, Send, Work, ReturnToApp, Selector!Next
<1> QED
  BY <1>1, <1>2 DEF SdkNext, Elsewhere, Selector!Next

(* The operations of the SDK are those of its client, whatever bases the    *)
(* selectors give them.                                                     *)
THEOREM SdkIsClient == SdkSpec => Ts!Spec
<1>1. SdkInit => Ts!Init
  BY DEF SdkInit, Init, ApiInit, Error, Ts!Init, Ts!ApiInit, Ts!Error
<1> QED
  BY <1>1, StepOfClient, PTL DEF SdkSpec, Ts!Spec

(* The selectors of the SDK are those of RegionsTs, whatever its operations  *)
(* do with the bases they get.                                              *)
THEOREM SdkIsSelector == SdkSpec => Selector!Spec
<1>1. SdkInit => Selector!Init
  BY DEF SdkInit
<1> QED
  BY <1>1, StepOfSelector, PTL DEF SdkSpec, Selector!Spec
-----------------------------------------------------------------------------
(***************************************************************************)
(* What each keeps holds in the whole.                                     *)
(***************************************************************************)
LEMMA SelectorIsS == Selector!Spec => S!Spec
<1>1. Selector!Init => S!Init
  BY DEF Selector!Init, Selector!HistoryInit, S!Init, S!HistoryInit
<1>2. [Selector!Next]_Selector!vars => [S!Next]_S!vars
  <2> SUFFICES ASSUME Selector!Next PROVE S!Next
    BY DEF Selector!vars, Selector!historyVars, S!vars, S!historyVars
  <2>1. ASSUME NEW c \in Calls, Selector!Current(c) PROVE S!Current(c)
    BY <2>1
    DEF Selector!Current, Selector!HistoryBegin, Selector!Penalised, Selector!Healthy,
        Selector!Table, Selector!Pinned, Selector!Selection, Selector!Candidates,
        Selector!CachedPick,
        S!Current, S!HistoryBegin, S!Penalised, S!Healthy, S!Table, S!Pinned, S!Selection,
        S!Candidates, S!CachedPick
  <2>2. ASSUME NEW c \in Calls, Selector!Resume(c) \/ Selector!Succeed(c) \/ Selector!Fail(c)
        PROVE  S!Resume(c) \/ S!Succeed(c) \/ S!Fail(c)
    BY <2>2
    DEF Selector!Resume, Selector!HistoryEnd, Selector!Succeed, Selector!Fail, Selector!Finish,
        Selector!ReportFailure, Selector!HistoryReport, Selector!Pinned, Selector!Table,
        Selector!SameTable, Selector!historyVars,
        S!Resume, S!HistoryEnd, S!Succeed, S!Fail, S!Finish, S!ReportFailure, S!HistoryReport,
        S!Pinned, S!Table, S!SameTable, S!historyVars
  <2>3. ASSUME NEW k \in Clients, Selector!Probed(k) \/ Selector!Clear(k)
        PROVE  S!Probed(k) \/ S!Clear(k)
    BY <2>3
    DEF Selector!Probed, Selector!Settle, Selector!FallbackOf, Selector!SameTable,
        Selector!Table, Selector!Clear, Selector!historyVars,
        S!Probed, S!Settle, S!FallbackOf, S!SameTable, S!Table, S!Clear, S!historyVars
  <2>4. Selector!Tick => S!Tick
    BY DEF Selector!Tick, Selector!HistoryTick, Selector!Healthy,
           S!Tick, S!HistoryTick, S!Healthy
  <2> QED
    BY <2>1, <2>2, <2>3, <2>4 DEF Selector!Next, S!Next
<1> QED
  BY <1>1, <1>2, PTL DEF Selector!Spec, S!Spec

LEMMA PartsKeep == SdkSpec => []IInv /\ []IdInv /\ []S!IInv
<1>1. S!Spec => []S!IInv
  <2>1. Selector!Pick = S!Pick /\ Selector!Flight = S!Flight
    BY DEF Selector!Pick, Selector!Flight, Selector!Time, S!Pick, S!Flight, S!Time
  <2> QED
    BY <2>1, S!Inductive, TablesAssumption, ClockAssumption, KeysAssumption
<1> QED
  BY <1>1, SdkIsClient, TsImplements, Inductive, Ids, SdkIsSelector, SelectorIsS, PTL
-----------------------------------------------------------------------------
(***************************************************************************)
(* What only the whole keeps.                                              *)
(***************************************************************************)
(* An operation sends while its call of current() is over and not yet       *)
(* settled, and it sends to the base that call gave it.                     *)
LinkInv ==
  /\ cancelled = {}
  /\ \A c \in Calls :
       /\ where[c] = "sending" => pc[c] \notin {"idle", "done"} /\ endpoint[c] = base[c]
       /\ where[c] \in {"awaiting", "resumable"} => pc[c] = "idle" /\ ~BadKey(c)
       /\ where[c] = "idle" => pc[c] \in {"idle", "done"}

(* A base is penalised for the operation that reported it.                  *)
PenaltyInv ==
  \A b \in Bases : penalisedAt[b] # None =>
    \E c \in Calls : Selecting(c) /\ base[c] = b /\ reported[c]

(* Operations go to the pin of their client, or to its table.               *)
BaseInv ==
  \A c \in Calls : base[c] # None =>
    base[c] \in IF Selecting(c) THEN BasesOf[TableOf[ClientOf[c]]] ELSE {Pin[ClientOf[c]]}

(* The pick of a client stands while nothing has replaced or removed it.    *)
Stands(k) ==
  /\ Pin[k] = None
  /\ SelectsAlone(k)
  /\ clock < TTL
  /\ \A b \in Bases : penalisedAt[b] = None

IsPick(t, b) == (picked[t] # None /\ picked[t].base = b) \/ BasesOf[t] = {b}

(* While it does, all that the client gives and has given its calls is the  *)
(* pick, or the only base there is; and it probes before there is one.      *)
OwnPick(k) ==
  /\ \A c \in Calls : ClientOf[c] = k =>
       /\ base[c] # None => IsPick(TableOf[k], base[c])
       /\ endpoint[c] # None => IsPick(TableOf[k], endpoint[c])
  /\ selecting[k] # None =>
       /\ selecting[k].stage = "probing" => picked[TableOf[k]] = None
       /\ selecting[k].stage = "settled" => IsPick(TableOf[k], selecting[k].base)

StandInv == \A k \in Clients : Stands(k) => OwnPick(k)

SdkInv == LinkInv /\ PenaltyInv /\ BaseInv /\ StandInv
-----------------------------------------------------------------------------
LEMMA TableConstants ==
  ASSUME NEW c \in Calls
  PROVE  /\ ClientOf[c] \in Clients
         /\ TableOf[ClientOf[c]] \in Tables
         /\ BasesOf[TableOf[ClientOf[c]]] \in (SUBSET Bases) \ {{}}
         /\ Pin[ClientOf[c]] \in Bases \cup {None}
         /\ None \notin Bases
BY TablesAssumption, KeysAssumption

LEMMA SdkInitInv == SdkInit => SdkInv
<1> SUFFICES ASSUME SdkInit PROVE SdkInv
  OBVIOUS
<1> USE DEF SdkInit, Init, Selector!Init
<1>1. LinkInv /\ PenaltyInv /\ BaseInv
  BY DEF LinkInv, PenaltyInv, BaseInv
<1>2. StandInv
  BY TableConstants DEF StandInv, OwnPick
<1> QED
  BY <1>1, <1>2 DEF SdkInv

(* What a step of an operation does to the call.                            *)
LEMMA GoIs ==
  ASSUME IInv, NEW c \in Calls, Client!Go(c)
  PROVE  /\ pc[c] \notin {"idle", "done"}
         /\ pc'[c] # "idle"
         /\ \A d \in Calls \ {c} : pc'[d] = pc[d]
         /\ UNCHANGED <<base, cancelled>>
<1>1. Ts!Go(c) /\ Step(c)
  BY ClientIsTs, TsStep
<1>2. Alone(c)
  BY <1>1, StepAlone
<1> USE DEF IInv, TypeOK, Ts!context, Ts!GoTo, Ts!Return
<1>3. CASE Ts!AttemptFails(c) \/ Ts!Retry(c) \/ Ts!LastAttemptFails(c) \/ Ts!Stall(c)
  BY <1>2, <1>3 DEF Alone, Ts!AttemptFails, Ts!Retry, Ts!LastAttemptFails, Ts!Stall
<1>4. CASE Ts!BodyFails(c) \/ Ts!AttemptThrows(c) \/ Ts!Refused(c) \/ Ts!Poll(c)
  BY <1>2, <1>4 DEF Alone, Ts!BodyFails, Ts!AttemptThrows, Ts!Refused, Ts!Poll, Ts!Awaits
<1>5. CASE Ts!AnswerRun(c) \/ Ts!AnswerResult(c)
  BY <1>2, <1>5 DEF Alone, Ts!AnswerRun, Ts!AnswerResult, Ts!PollNext, Ts!Awaits
<1>6. CASE Ts!AnswerSubmit(c) \/ Ts!AnswerJudge(c) \/ Ts!AnswerRead(c)
  BY <1>2, <1>6 DEF Alone, Ts!AnswerSubmit, Ts!AnswerJudge, Ts!AnswerRead, Ts!Awaits
<1> QED
  BY <1>1, <1>3, <1>4, <1>5, <1>6 DEF Ts!Go

(* ... and what the step does that gives the call its base.                 *)
LEMMA SendIs ==
  ASSUME IInv, S!IInv, NEW c \in Calls, Send(c)
  PROVE  /\ pc[c] = "idle" /\ pc' = [pc EXCEPT ![c] = "attempting"]
         /\ where[c] = "resumable" /\ where' = [where EXCEPT ![c] = "sending"]
         /\ base' = [base EXCEPT ![c] = endpoint[c]]
         /\ endpoint[c] \in Bases
         /\ UNCHANGED <<clock, picked, penalisedAt, selecting, endpoint, reported, cancelled>>
<1>1. Ts!Begin(c)
  BY ClientIsTs DEF Send, Ts!Start, Ts!BadKey, BadKey
<1>2. Selector!Resume(c) /\ base'[c] = endpoint[c]
  BY DEF Send
<1>3. PICK b \in Bases : base' = [base EXCEPT ![c] = b]
  BY <1>1 DEF Ts!Begin
<1>4. b = endpoint[c]
  BY <1>2, <1>3 DEF IInv, TypeOK
<1> QED
  BY <1>1, <1>2, <1>3, <1>4 DEF Ts!Begin, Ts!GoTo, Selector!Resume

(* An operation that reported its region has ended, and keeps its base.     *)
LEMMA ReportsLast ==
  ASSUME IInv, [SdkNext]_<<vars, selectorVars>>, NEW d \in Calls, reported[d]
  PROVE  reported'[d] /\ base'[d] = base[d]
<1>1. pc[d] = "done"
  BY DEF IInv, CallInv, UnderWay
<1>2. [Next]_vars
  BY StepOfClient, TsNext
<1>3. ASSUME NEW c \in Calls, Step(c) PROVE c # d /\ Alone(c)
  BY <1>1, <1>3, StepAlone
  DEF Step, Begins, Begin, Reject, Waits, TriesAgain, AsksAgain, Fails, IsAnsweredRun,
      IsAnsweredResult, IsAnsweredSubmit, IsAnsweredJudge, IsAnsweredRead, Awaited
<1> QED
  BY <1>2, <1>3 DEF Next, Closes, Environment, vars, callVars, Alone

(* What the steps do that are no operation's.                               *)
LEMMA ElsewhereIs ==
  ASSUME S!IInv, Elsewhere
  PROVE  /\ UNCHANGED <<pc, base, cancelled, penalisedAt>>
         /\ \A c \in Calls :
              \/ where'[c] = where[c] /\ endpoint'[c] = endpoint[c]
              \/ where[c] = "awaiting" /\ where'[c] = "resumable"
<1> USE DEF S!IInv, S!TypeOK
<1>1. CASE \E k \in Clients : Selector!Probed(k)
  BY <1>1 DEF Elsewhere, Selector!Probed, Selector!Settle, Selector!Tick, Selector!Clear,
              Environment, vars, callVars, selectorVars
<1>2. CASE \E k \in Clients : Selector!Clear(k)
  BY <1>2 DEF Elsewhere, Selector!Clear, Selector!Probed, Selector!Settle, Selector!Tick,
              Environment, vars, callVars, selectorVars
<1>3. CASE Selector!Tick \/ UNCHANGED selectorVars
  BY <1>3 DEF Elsewhere, Selector!Tick, Environment, vars, callVars, selectorVars
<1> QED
  BY <1>1, <1>2, <1>3 DEF Elsewhere

LEMMA LinkKept ==
  ASSUME IInv, S!IInv, LinkInv, [SdkNext]_<<vars, selectorVars>>
  PROVE  LinkInv'
<1> USE DEF LinkInv, IInv, TypeOK, S!IInv, S!TypeOK
<1>1. CASE UNCHANGED <<vars, selectorVars>>
  BY <1>1 DEF vars, callVars, selectorVars, BadKey
<1>2. ASSUME NEW c \in Calls, Ask(c) PROVE LinkInv'
  <2>1. /\ where[c] = "idle" /\ pc[c] = "idle" /\ ~BadKey(c)
        /\ \A d \in Calls \ {c} : where'[d] = where[d] /\ endpoint'[d] = endpoint[d]
        /\ where'[c] \in {"awaiting", "resumable"}
        /\ UNCHANGED <<pc, base, cancelled>>
    BY <1>2 DEF Ask, Selector!Current, vars, callVars
  <2> QED
    BY <2>1 DEF BadKey
<1>3. ASSUME NEW c \in Calls, Refuse(c) PROVE LinkInv'
  <2>1. /\ BadKey(c) /\ pc[c] = "idle" /\ pc' = [pc EXCEPT ![c] = "done"]
        /\ UNCHANGED <<base, cancelled, where, endpoint>>
    BY <1>3, ClientIsTs
    DEF Refuse, Ts!Start, Ts!BadKey, BadKey, Ts!Reject, Ts!Return, selectorVars
  <2>2. where[c] = "idle"
    BY <2>1
  <2> QED
    BY <2>1, <2>2 DEF BadKey
<1>4. ASSUME NEW c \in Calls, Send(c) PROVE LinkInv'
  BY <1>4, SendIs DEF BadKey
<1>5. ASSUME NEW c \in Calls, Work(c) PROVE LinkInv'
  <2>1. where[c] = "sending"
    BY <1>5, GoIs DEF Work
  <2> QED
    BY <1>5, <2>1, GoIs DEF Work, selectorVars, BadKey
<1>6. ASSUME NEW c \in Calls, ReturnToApp(c) PROVE LinkInv'
  <2>1. where[c] = "sending" /\ where' = [where EXCEPT ![c] = "idle"]
        /\ endpoint' = [endpoint EXCEPT ![c] = None] /\ pc'[c] = "done"
    BY <1>6 DEF ReturnToApp, Selector!Fail, Selector!Succeed, Selector!Finish
  <2> QED
    BY <1>6, <2>1, GoIs DEF ReturnToApp, BadKey
<1>7. CASE Elsewhere
  BY <1>7, ElsewhereIs DEF BadKey
<1> QED
  BY <1>1, <1>2, <1>3, <1>4, <1>5, <1>6, <1>7 DEF SdkNext

(* Penalties come from operations that return with a region reported.       *)
LEMMA PenaltyIs ==
  ASSUME S!IInv, SdkNext
  PROVE  \/ UNCHANGED penalisedAt
         \/ \E c \in Calls :
              /\ where[c] = "sending" /\ reported'[c] /\ Selecting(c)
              /\ Client!Go(c)
              /\ penalisedAt' = [penalisedAt EXCEPT ![endpoint[c]] = clock]
<1>1. ASSUME NEW c \in Calls, Ask(c) \/ Refuse(c) \/ Send(c) \/ Work(c)
      PROVE  UNCHANGED penalisedAt
  BY <1>1 DEF Ask, Selector!Current, Refuse, Send, Selector!Resume, Work, selectorVars
<1>2. ASSUME NEW c \in Calls, ReturnToApp(c), penalisedAt' # penalisedAt
      PROVE  /\ where[c] = "sending" /\ reported'[c] /\ Selecting(c)
             /\ Client!Go(c)
             /\ penalisedAt' = [penalisedAt EXCEPT ![endpoint[c]] = clock]
  BY <1>2 DEF ReturnToApp, Selector!Succeed, Selector!Fail, Selector!Finish,
              Selector!ReportFailure, Selector!Pinned, Selecting
<1> QED
  BY <1>1, <1>2, ElsewhereIs DEF SdkNext

LEMMA PenaltyKept ==
  ASSUME IInv, S!IInv, LinkInv, PenaltyInv, [SdkNext]_<<vars, selectorVars>>
  PROVE  PenaltyInv'
<1>1. CASE UNCHANGED penalisedAt
  BY <1>1, ReportsLast DEF PenaltyInv, Selecting
<1>2. CASE penalisedAt' # penalisedAt
  <2>1. PICK c \in Calls :
          /\ where[c] = "sending" /\ reported'[c] /\ Selecting(c)
          /\ Client!Go(c)
          /\ penalisedAt' = [penalisedAt EXCEPT ![endpoint[c]] = clock]
    BY <1>2, PenaltyIs DEF selectorVars
  <2>2. base'[c] = endpoint[c]
    BY <2>1, GoIs DEF LinkInv
  <2>3. ASSUME NEW b \in Bases, penalisedAt'[b] # None, b # endpoint[c]
        PROVE  \E d \in Calls : Selecting(d) /\ base'[d] = b /\ reported'[d]
    BY <2>1, <2>3, ReportsLast DEF PenaltyInv, S!IInv, S!TypeOK
  <2> QED
    BY <2>1, <2>2, <2>3 DEF PenaltyInv, Selecting
<1> QED
  BY <1>1, <1>2

LEMMA BaseKept ==
  ASSUME IInv, S!IInv, LinkInv, BaseInv, [SdkNext]_<<vars, selectorVars>>
  PROVE  BaseInv'
<1>1. ASSUME NEW c \in Calls, Send(c) PROVE BaseInv'
  <2>1. endpoint[c] \in IF Selecting(c) THEN BasesOf[TableOf[ClientOf[c]]] ELSE {Pin[ClientOf[c]]}
    BY <1>1, SendIs DEF S!IInv, S!EndpointInv, S!Pinned, S!Table, Selecting
  <2> QED
    BY <1>1, <2>1, SendIs DEF BaseInv, Selecting, IInv, TypeOK
<1>2. CASE UNCHANGED base
  BY <1>2 DEF BaseInv, Selecting
<1>3. ASSUME NEW c \in Calls, Ask(c) \/ Refuse(c) \/ Work(c) \/ ReturnToApp(c)
      PROVE  UNCHANGED base
  <2>1. Refuse(c) => UNCHANGED base
    BY ClientIsTs DEF Refuse, Ts!Start, Ts!BadKey, BadKey, Ts!Reject
  <2> QED
    BY <1>3, <2>1, GoIs DEF Ask, Work, ReturnToApp, vars, callVars
<1> QED
  BY <1>1, <1>2, <1>3, ElsewhereIs DEF SdkNext, vars, callVars
-----------------------------------------------------------------------------
(* A pick that stands has stood, and only the client's own probes set it.   *)
LEMMA StandsFrom ==
  ASSUME S!IInv, SdkNext, NEW k \in Clients, Stands(k)'
  PROVE  /\ Stands(k)
         /\ picked'[TableOf[k]] = picked[TableOf[k]] \/ Selector!Probed(k)
<1> USE TablesAssumption, ClockAssumption DEF S!IInv, S!TypeOK
<1>1. UNCHANGED penalisedAt
  <2> SUFFICES ASSUME NEW c \in Calls, where[c] = "sending", Selecting(c),
                      penalisedAt' = [penalisedAt EXCEPT ![endpoint[c]] = clock]
               PROVE  FALSE
    BY PenaltyIs
  <2>1. endpoint[c] \in Bases
    BY TableConstants DEF S!EndpointInv, S!Pinned, S!Table, Selecting
  <2>2. penalisedAt'[endpoint[c]] # None
    BY <2>1 DEF S!Time
  <2> QED
    BY <2>1, <2>2 DEF Stands
<1>2. clock' \in {clock, clock + 1}
  BY DEF SdkNext, Ask, Refuse, Send, Work, ReturnToApp, Elsewhere, selectorVars,
         Selector!Current, Selector!Resume, Selector!Succeed, Selector!Fail, Selector!Finish,
         Selector!Probed, Selector!Settle, Selector!Clear, Selector!Tick
<1>3. Stands(k)
  BY <1>1, <1>2 DEF Stands, SelectsAlone, S!Time
<1>4. ASSUME NEW c \in Calls, Ask(c) \/ Refuse(c) \/ Send(c) \/ Work(c)
      PROVE  UNCHANGED picked
  BY <1>4 DEF Ask, Selector!Current, Refuse, Send, Selector!Resume, Work, selectorVars
<1>5. ASSUME NEW c \in Calls, ReturnToApp(c) PROVE UNCHANGED picked
  <2> SUFFICES ASSUME ~Selector!Pinned(c), Selector!ReportFailure(c, endpoint[c]),
                      where[c] = "sending"
               PROVE  FALSE
    BY <1>5 DEF ReturnToApp, Selector!Succeed, Selector!Fail, Selector!Finish,
                Selector!ReportFailure
  <2>1. endpoint[c] \in Bases
    BY TableConstants DEF S!EndpointInv, S!Pinned, S!Table, Selector!Pinned
  <2>2. penalisedAt'[endpoint[c]] # None
    BY <2>1 DEF S!Time, Selector!ReportFailure
  <2> QED
    BY <2>1, <2>2 DEF Stands
<1>6. CASE Elsewhere
  <2>1. ASSUME NEW j \in Clients, Selector!Probed(j), j # k
        PROVE  picked'[TableOf[k]] = picked[TableOf[k]]
    <3>1. Pin[j] = None
      BY <2>1 DEF Selector!Probed, S!FlightInv
    <3>2. TableOf[j] # TableOf[k]
      BY <1>3, <2>1, <3>1 DEF Stands, SelectsAlone
    <3> QED
      BY <2>1, <3>2 DEF Selector!Probed, Selector!Settle
  <2>2. CASE \E j \in Clients : Selector!Probed(j)
    BY <1>3, <2>1, <2>2
  <2>3. CASE Selector!Tick \/ UNCHANGED selectorVars \/ \E j \in Clients : Selector!Clear(j)
    BY <1>3, <2>3 DEF Selector!Clear, Selector!Tick, selectorVars
  <2> QED
    BY <1>6, <2>2, <2>3 DEF Elsewhere
<1> QED
  BY <1>3, <1>4, <1>5, <1>6 DEF SdkNext

(* A call that starts a selection while the pick stands gets the pick.      *)
LEMMA StandingSelection ==
  ASSUME S!IInv, NEW k \in Clients, Stands(k)
  PROVE  LET flight == Selector!Selection(TableOf[k]) IN
         /\ flight.stage = "probing" => picked[TableOf[k]] = None
         /\ flight.stage = "settled" => IsPick(TableOf[k], flight.base)
<1> USE TablesAssumption, ClockAssumption DEF S!IInv, S!TypeOK
<1> DEFINE t == TableOf[k]
<1>1. t \in Tables /\ BasesOf[t] \in (SUBSET Bases) \ {{}}
  OBVIOUS
<1>2. Selector!Candidates(t) = BasesOf[t]
  BY <1>1 DEF Selector!Candidates, Selector!Healthy, Stands
<1>3. picked[t] # None => Selector!CachedPick(t)
  <2> SUFFICES ASSUME picked[t] # None PROVE Selector!CachedPick(t)
    OBVIOUS
  <2>1. picked[t] \in S!Pick /\ picked[t].base \in BasesOf[t]
    BY <1>1 DEF S!PickInv
  <2>2. clock - picked[t].at < TTL
    BY <2>1 DEF S!Pick, S!Time, Stands
  <2> QED
    BY <1>2, <2>1, <2>2 DEF Selector!CachedPick
<1>4. CASE \E only \in BasesOf[t] : BasesOf[t] = {only}
  <2>1. First[BasesOf[t]] \in BasesOf[t]
    BY <1>1
  <2> QED
    BY <1>2, <1>4, <2>1 DEF Selector!Selection, IsPick
<1>5. CASE ~\E only \in BasesOf[t] : BasesOf[t] = {only}
  BY <1>2, <1>3, <1>5 DEF Selector!Selection, Selector!CachedPick, IsPick
<1> QED
  BY <1>4, <1>5

(* What is handed on is the pick that was there.                            *)
LEMMA HandedOn ==
  ASSUME NEW k \in Clients, OwnPick(k), UNCHANGED picked[TableOf[k]],
         \A c \in Calls : ClientOf[c] = k =>
           /\ base'[c] \in {None, base[c], endpoint[c]}
           /\ \/ endpoint'[c] \in {None, endpoint[c]}
              \/ /\ selecting[k] # None /\ selecting[k].stage = "settled"
                 /\ endpoint'[c] = selecting[k].base,
         selecting'[k] \in {None, selecting[k]}
  PROVE  OwnPick(k)'
BY DEF OwnPick, IsPick

(* Probes that end leave what they found as the pick, and in the promise.   *)
LEMMA ProbedSets ==
  ASSUME S!IInv, NEW k \in Clients, Selector!Probed(k)
  PROVE  \E flight \in S!Flight :
           /\ flight.stage = "settled" /\ selecting'[k] = flight
           /\ picked'[TableOf[k]] # None /\ picked'[TableOf[k]].base = flight.base
<1> USE TablesAssumption, ClockAssumption DEF S!IInv, S!TypeOK
<1> DEFINE t == TableOf[k]
           flight == selecting[k]
<1>1. /\ flight.stage = "probing" /\ flight.candidates # {}
      /\ flight.candidates \subseteq BasesOf[t] /\ t \in Tables
      /\ flight \in S!Flight /\ flight.since \in S!Time
  BY DEF Selector!Probed, S!FlightInv, S!Flight
<1>2. PICK reachable \in SUBSET flight.candidates : Selector!Settle(k, reachable)
  BY DEF Selector!Probed
<1>3. Selector!FallbackOf(t, flight.candidates) \in Bases
  BY <1>1 DEF Selector!FallbackOf
<1>4. PICK b \in Bases :
        /\ picked' = [picked EXCEPT ![t] = [base |-> b, at |-> flight.since]]
        /\ selecting' = [selecting EXCEPT ![k] =
                           [stage |-> "settled", since |-> flight.since, base |-> b]]
  <2>1. reachable \subseteq Bases
    BY <1>1, <1>2
  <2> QED
    BY <1>2, <1>3, <2>1 DEF Selector!Settle
<1>5. [base |-> b, at |-> flight.since] \in Selector!Pick
      /\ [stage |-> "settled", since |-> flight.since, base |-> b] \in S!Flight
  BY <1>1 DEF Selector!Pick, Selector!Time, S!Time, S!Flight
<1> QED
  BY <1>1, <1>4, <1>5

LEMMA StandKept ==
  ASSUME IInv, S!IInv, LinkInv, StandInv, [SdkNext]_<<vars, selectorVars>>
  PROVE  StandInv'
<1>1. CASE UNCHANGED <<vars, selectorVars>>
  BY <1>1 DEF vars, callVars, selectorVars, StandInv, Stands, SelectsAlone, OwnPick, IsPick
<1> SUFFICES ASSUME SdkNext, NEW k \in Clients, Stands(k)' PROVE OwnPick(k)'
  BY <1>1 DEF StandInv
<1> DEFINE t == TableOf[k]
<1>2. Stands(k) /\ OwnPick(k) /\ Pin[k] = None
  BY StandsFrom DEF StandInv, Stands
<1>3. picked'[t] = picked[t] \/ Selector!Probed(k)
  BY StandsFrom
<1> USE DEF S!IInv, S!TypeOK
<1>4. ASSUME NEW c \in Calls, Ask(c) PROVE OwnPick(k)'
  <2>1. UNCHANGED <<base, picked>>
    BY <1>4 DEF Ask, vars, callVars, Selector!Current
  <2>2. \A d \in Calls : ClientOf[d] = k => endpoint'[d] = endpoint[d]
    BY <1>2, <1>4 DEF Ask, Selector!Current, Selector!Pinned
  <2>3. selecting'[k] \in {selecting[k], Selector!Selection(t)}
    BY <1>2, <1>4 DEF Ask, Selector!Current, Selector!Table
  <2> QED
    BY <1>2, <2>1, <2>2, <2>3, StandingSelection DEF OwnPick, IsPick
<1>5. ASSUME NEW c \in Calls, Refuse(c) \/ Work(c) PROVE OwnPick(k)'
  <2>1. UNCHANGED base
    BY <1>5, ClientIsTs, GoIs DEF Refuse, Ts!Start, Ts!BadKey, BadKey, Ts!Reject, Work
  <2> QED
    BY <1>2, <1>5, <2>1 DEF Refuse, Work, selectorVars, OwnPick, IsPick
<1>6. ASSUME NEW c \in Calls, Send(c) PROVE OwnPick(k)'
  <2>1. \A d \in Calls : base'[d] \in {base[d], endpoint[d]}
    BY <1>6, SendIs DEF IInv, TypeOK
  <2> QED
    BY <1>2, <1>6, <2>1, SendIs, HandedOn
<1>7. ASSUME NEW c \in Calls, ReturnToApp(c) PROVE OwnPick(k)'
  <2>1. picked'[t] = picked[t]
    BY <1>3, <1>7 DEF ReturnToApp, Selector!Succeed, Selector!Fail, Selector!Finish,
                      Selector!Probed, Selector!Settle
  <2>2. UNCHANGED <<base, selecting>> /\ endpoint' = [endpoint EXCEPT ![c] = None]
    BY <1>7, GoIs DEF ReturnToApp, Selector!Succeed, Selector!Fail, Selector!Finish
  <2> QED
    BY <1>2, <2>1, <2>2, HandedOn
<1>8. CASE Elsewhere
  <2>1. CASE Selector!Probed(k)
    <3>1. picked[t] = None
      BY <1>2, <2>1 DEF OwnPick, Selector!Probed
    <3>2. PICK flight \in S!Flight :
            /\ flight.stage = "settled" /\ selecting'[k] = flight
            /\ picked'[t] # None /\ picked'[t].base = flight.base
      BY <2>1, ProbedSets
    <3>3. UNCHANGED <<base, endpoint>>
      BY <1>8, <2>1, ElsewhereIs DEF Selector!Probed, Selector!Settle
    <3> QED
      BY <1>2, <3>1, <3>2, <3>3 DEF OwnPick, IsPick
  <2>2. CASE ~Selector!Probed(k)
    <3>1. picked'[t] = picked[t] /\ UNCHANGED base
      BY <1>3, <1>8, <2>2, ElsewhereIs
    <3>2. ASSUME NEW j \in Clients, Selector!Probed(j)
          PROVE  UNCHANGED endpoint /\ selecting'[k] = selecting[k]
      BY <2>2, <3>2 DEF Selector!Probed, Selector!Settle
    <3>3. ASSUME NEW j \in Clients, Selector!Clear(j)
          PROVE  /\ selecting'[k] \in {None, selecting[k]}
                 /\ \A c \in Calls : ClientOf[c] = k =>
                      \/ endpoint'[c] = endpoint[c]
                      \/ /\ selecting[k] # None /\ selecting[k].stage = "settled"
                         /\ endpoint'[c] = selecting[k].base
      BY <3>3 DEF Selector!Clear
    <3>4. Selector!Tick \/ UNCHANGED selectorVars => UNCHANGED <<endpoint, selecting>>
      BY DEF Selector!Tick, selectorVars
    <3> QED
      BY <1>2, <1>8, <3>1, <3>2, <3>3, <3>4, HandedOn DEF Elsewhere
  <2> QED
    BY <2>1, <2>2
<1> QED
  BY <1>4, <1>5, <1>6, <1>7, <1>8 DEF SdkNext

(* The invariant is one of the whole.                                       *)
THEOREM SdkInductive == SdkSpec => []SdkInv
<1>1. IInv /\ S!IInv /\ SdkInv /\ [SdkNext]_<<vars, selectorVars>> => SdkInv'
  BY LinkKept, PenaltyKept, BaseKept, StandKept DEF SdkInv
<1> QED
  BY <1>1, SdkInitInv, PartsKeep, PTL DEF SdkSpec
-----------------------------------------------------------------------------
(* A region is skipped by every client only for an operation that was sent  *)
(* to it and failed for good, whatever the selectors picked meanwhile.      *)
THEOREM PenaltiesEarned == SdkSpec => []PenaltiesAreEarned
<1>1. IInv /\ SdkInv => PenaltiesAreEarned
  BY DEF IInv, CallInv, EndsWell, SdkInv, LinkInv, PenaltyInv, PenaltiesAreEarned
<1> QED
  BY <1>1, PartsKeep, SdkInductive, PTL

(* `run` finds its run on the region that accepted it, though the pick may   *)
(* move between two polls.                                                  *)
THEOREM RunFound == SdkSpec => []RunIsFoundWhateverIsPicked
<1>1. IInv => RunIsFoundWhateverIsPicked
  BY DEF IInv, CallInv, EndsWell, PollsOwn, RunIsFoundWhateverIsPicked
<1> QED
  BY <1>1, PartsKeep, PTL

(* An id is found by the client that was given it, if it is pinned or as     *)
(* long as its pick stands.                                                 *)
THEOREM PickedUp == SdkSpec => []PickedUpWhileThePickStands
<1>1. IInv /\ IdInv /\ S!IInv /\ SdkInv => PickedUpWhileThePickStands
  <2> SUFFICES ASSUME IInv, IdInv, S!IInv, SdkInv,
                      NEW c \in Calls, NEW d \in Calls,
                      Op[c] = "get_result", outcome[c].kind = "not_found",
                      outcome[d].kind \in {"accepted", "still_running"},
                      outcome[d].run = runId[c],
                      ClientOf[c] = ClientOf[d]
               PROVE  Selecting(c) /\ ~Stands(ClientOf[c])
    BY TablesAssumption, ClockAssumption
    DEF PickedUpWhileThePickStands, Stands, Selecting, S!IInv, S!TypeOK, S!Time
  <2>1. base[c] \in Bases /\ base[d] \in Bases /\ base[c] # base[d]
    BY DEF IdInv, Asks, Gives, IInv, TypeOK, Requests
  <2>2. Selecting(c)
    BY <2>1, TableConstants DEF SdkInv, BaseInv, Selecting
  <2>3. ASSUME Stands(ClientOf[c]) PROVE FALSE
    <3>1. OwnPick(ClientOf[c])
      BY <2>3, TableConstants DEF SdkInv, StandInv
    <3>2. base[c] # None /\ base[d] # None
      BY <2>1, TableConstants
    <3>3. IsPick(TableOf[ClientOf[c]], base[c]) /\ IsPick(TableOf[ClientOf[c]], base[d])
      BY <3>1, <3>2 DEF OwnPick
    <3>4. base[c] \in BasesOf[TableOf[ClientOf[c]]] /\ base[d] \in BasesOf[TableOf[ClientOf[c]]]
      BY <2>2, <3>2 DEF SdkInv, BaseInv, Selecting
    <3> QED
      BY <2>1, <3>3, <3>4 DEF IsPick
  <2> QED
    BY <2>2, <2>3
<1> QED
  BY <1>1, PartsKeep, SdkInductive, PTL
=============================================================================

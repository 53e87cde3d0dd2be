---------------------------- MODULE RegionsProofs ----------------------------
(***************************************************************************)
(* Proofs about Regions: its type invariant, the promises a call relies on *)
(* when it gets its endpoint, and the inductive invariant behind them.     *)
(***************************************************************************)
EXTENDS Regions, TLAPS

Selecting(c) == pc[c] \in {"filtering", "looking", "probing"}

(* No timestamp lies in the future.                                         *)
ClockInv ==
  /\ \A b \in Bases : penalisedAt[b] # None => penalisedAt[b] <= clock
  /\ \A t \in Tables : picked[t] # None => picked[t].at <= clock
  /\ \A c \in Calls : now[c] <= clock

(* A selection holds its client's mutex from beginning to end.              *)
LockInv ==
  \A c \in Calls : Selecting(c) => selecting[ClientOf[c]] = c /\ ~Pinned(c)

(* A call sends to its pin or to a base of its table.                       *)
EndpointInv ==
  \A c \in Calls :
    IF pc[c] = "sending"
    THEN base[c] \in IF Pinned(c) THEN {Pin[ClientOf[c]]} ELSE BasesOf[Table(c)]
    ELSE base[c] = None

CandidatesInv ==
  \A c \in Calls : pc[c] \in {"looking", "probing"} =>
    candidates[c] # {} /\ candidates[c] \subseteq BasesOf[Table(c)]

(* The bases of avoid[c] are penalised now, those of clean[c] are healthy   *)
(* now and were when the selection read the time ...                        *)
AvoidInv ==
  \A c \in Calls : \A b \in avoid[c] :
    penalisedAt[b] # None /\ clock - penalisedAt[b] <= Penalty

CleanInv ==
  \A c \in Calls : \A b \in clean[c] :
    /\ b \in BasesOf[Table(c)]
    /\ Healthy(b, clock)
    /\ Selecting(c) => Healthy(b, now[c])

(* ... so the latter are candidates, and then the former are not.           *)
SkipInv ==
  \A c \in Calls : pc[c] \in {"looking", "probing"} =>
    /\ clean[c] \subseteq candidates[c]
    /\ clean[c] # {} => candidates[c] \cap avoid[c] = {}

(* A pick a call relies on is in place, and such a call does not probe.     *)
SharedInv ==
  \A c \in Calls :
    /\ shared[c] => picked[Table(c)] # None
    /\ pc[c] = "probing" => ~Keeps(c, picked[Table(c)], TTL, clock)

(* Of a table one client chooses from, no pick is newer than the selection. *)
OrderInv ==
  \A c \in Calls :
    /\ Selecting(c)
    /\ picked[Table(c)] # None
    /\ Selectors(Table(c)) \subseteq {ClientOf[c]}
    => picked[Table(c)].at <= now[c]

(* The history of a call is empty while it has nothing to rely on.          *)
RestInv ==
  \A c \in Calls : pc[c] \in {"idle", "sending"} =>
    avoid[c] = {} /\ clean[c] = {} /\ ~shared[c]

IInv ==
  /\ TypeOK
  /\ ClockInv
  /\ LockInv
  /\ EndpointInv
  /\ CandidatesInv
  /\ AvoidInv
  /\ CleanInv
  /\ SkipInv
  /\ SharedInv
  /\ OrderInv
  /\ RestInv
  /\ LeftOutOnlyWhilePenalised
  /\ PinnedNeverAbandoned
-----------------------------------------------------------------------------
LEMMA Constants ==
  ASSUME NEW c \in Calls
  PROVE  /\ ClientOf[c] \in Clients
         /\ Table(c) \in Tables
         /\ BasesOf[Table(c)] \in (SUBSET Bases) \ {{}}
         /\ Pin[ClientOf[c]] \in Bases \cup {None}
BY TablesAssumption DEF Table

(* At the present time, being penalised is a matter of the age alone.      *)
LEMMA HealthyNow ==
  ASSUME TypeOK, ClockInv, NEW b \in Bases
  PROVE  ~Healthy(b, clock) <=> penalisedAt[b] # None /\ clock - penalisedAt[b] <= Penalty
BY TimeAssumption DEF TypeOK, ClockInv, Healthy, Elapsed, Time

(* Neither a penalty nor a recovery is undone by the mere passing of time.  *)
LEMMA HealthyLater ==
  ASSUME TypeOK, NEW b \in Bases, NEW t \in Int, NEW u \in Int, t <= u, Healthy(b, t)
  PROVE  Healthy(b, u)
BY TimeAssumption DEF TypeOK, Healthy, Elapsed, Time

LEMMA InitIInv == Init => IInv
<1> SUFFICES ASSUME Init PROVE IInv
  OBVIOUS
<1> USE DEF Init, HistoryInit
<1>1. TypeOK
  BY TimeAssumption DEF TypeOK, HistoryTypeOK, Time
<1>2. ClockInv /\ LockInv /\ EndpointInv /\ CandidatesInv
  BY DEF ClockInv, LockInv, Selecting, EndpointInv, CandidatesInv
<1>3. AvoidInv /\ CleanInv /\ SkipInv /\ SharedInv /\ OrderInv /\ RestInv
  BY DEF AvoidInv, CleanInv, SkipInv, SharedInv, OrderInv, RestInv, Selecting
<1>4. LeftOutOnlyWhilePenalised /\ PinnedNeverAbandoned
  BY DEF LeftOutOnlyWhilePenalised, PinnedNeverAbandoned
<1> QED
  BY <1>1, <1>2, <1>3, <1>4 DEF IInv

LEMMA BeginStep ==
  ASSUME IInv, NEW c \in Calls, Begin(c)
  PROVE  IInv'
<1> USE Constants DEF IInv, Begin, HistoryBegin, processVars, localVars
<1>1. TypeOK'
  BY DEF TypeOK, HistoryTypeOK, Penalised
<1>2. ClockInv' /\ LockInv' /\ EndpointInv' /\ CandidatesInv'
  BY <1>1 DEF ClockInv, LockInv, Selecting, EndpointInv, CandidatesInv, TypeOK
<1>3. AvoidInv'
  BY HealthyNow DEF AvoidInv, TypeOK, HistoryTypeOK, Penalised
<1>4. CleanInv'
  BY DEF CleanInv, TypeOK, HistoryTypeOK, Penalised, Healthy, Selecting
<1>5. SkipInv' /\ SharedInv'
  BY DEF SkipInv, SharedInv, TypeOK, HistoryTypeOK, Keeps
<1>6. OrderInv' /\ LeftOutOnlyWhilePenalised' /\ PinnedNeverAbandoned' /\ RestInv'
  BY DEF OrderInv, LeftOutOnlyWhilePenalised, PinnedNeverAbandoned, RestInv, HistoryTypeOK, TypeOK, Selecting
<1> QED
  BY <1>1, <1>2, <1>3, <1>4, <1>5, <1>6

LEMMA AcquireStep ==
  ASSUME IInv, NEW c \in Calls, Acquire(c)
  PROVE  IInv'
<1> USE Constants DEF IInv, Acquire, processVars, historyVars
<1>1. TypeOK'
  BY DEF TypeOK, HistoryTypeOK
<1>2. ClockInv' /\ EndpointInv' /\ CandidatesInv'
  BY <1>1, TimeAssumption DEF ClockInv, EndpointInv, CandidatesInv, TypeOK, Time
<1>3. LockInv'
  BY NoneAssumption DEF LockInv, Selecting, TypeOK
<1>4. AvoidInv' /\ SkipInv' /\ SharedInv'
  BY DEF AvoidInv, SkipInv, SharedInv, TypeOK, HistoryTypeOK, Keeps
<1>5. CleanInv'
  BY DEF CleanInv, TypeOK, HistoryTypeOK, Selecting, Healthy
<1>6. OrderInv'
  BY DEF OrderInv, ClockInv, TypeOK, Selecting
<1>7. LeftOutOnlyWhilePenalised' /\ PinnedNeverAbandoned' /\ RestInv'
  BY DEF LeftOutOnlyWhilePenalised, PinnedNeverAbandoned, RestInv, HistoryTypeOK, TypeOK
<1> QED
  BY <1>1, <1>2, <1>3, <1>4, <1>5, <1>6, <1>7

(* Call c leaves the selection, or the request, with the endpoint b or None.*)
Leave(c, p, b, readers) ==
  /\ pc' = [pc EXCEPT ![c] = p]
  /\ base' = [base EXCEPT ![c] = b]
  /\ selecting' = [k \in Clients |-> IF selecting[k] = c THEN None ELSE selecting[k]]
  /\ now' = [now EXCEPT ![c] = 0]
  /\ candidates' = [candidates EXCEPT ![c] = {}]
  /\ HistoryEnd(c, readers)
  /\ UNCHANGED <<clock, penalisedAt>>

Endpoint(c, p, b) ==
  \/ p = "idle" /\ b = None
  \/ p = "sending" /\ Pinned(c) /\ b = Pin[ClientOf[c]]
  \/ p = "sending" /\ ~Pinned(c) /\ b \in BasesOf[Table(c)]

(* The pick of the table stays, or the holder of the mutex replaces it.     *)
Repick(c, readers) ==
  \/ picked' = picked
  \/ /\ Selecting(c)
     /\ readers = SameTable(c)
     /\ \E b \in Bases : picked' = [picked EXCEPT ![Table(c)] = [base |-> b, at |-> now[c]]]

LEMMA LeaveStep ==
  ASSUME IInv, NEW c \in Calls, NEW p, NEW b, NEW readers \in SUBSET Calls,
         Leave(c, p, b, readers), Endpoint(c, p, b), Repick(c, readers)
  PROVE  IInv'
<1> USE Constants DEF IInv, Leave, Endpoint, HistoryEnd
<1>1. TypeOK'
  <2>1. picked' \in [Tables -> Pick \cup {None}]
    BY DEF Repick, TypeOK, Pick
  <2> QED
    BY <2>1, NoneAssumption, TimeAssumption DEF TypeOK, HistoryTypeOK, Time
<1>2. ClockInv'
  <2>1. \A t \in Tables : picked'[t] # None => picked'[t].at <= clock
    BY DEF Repick, ClockInv, TypeOK
  <2> QED
    BY <2>1, TimeAssumption DEF ClockInv, TypeOK, Time
<1>3. LockInv'
  BY DEF LockInv, Selecting, TypeOK
<1>4. EndpointInv' /\ CandidatesInv'
  BY DEF EndpointInv, CandidatesInv, TypeOK
<1>5. AvoidInv' /\ SkipInv'
  BY DEF AvoidInv, SkipInv, TypeOK, HistoryTypeOK
<1>6. CleanInv'
  BY DEF CleanInv, TypeOK, HistoryTypeOK, Selecting, Healthy
<1>7. SharedInv'
  BY DEF SharedInv, Repick, Keeps, SameTable, TypeOK, HistoryTypeOK
<1>8. OrderInv'
  <2> SUFFICES ASSUME NEW d \in Calls, Selecting(d)', picked'[Table(d)] # None,
                      Selectors(Table(d)) \subseteq {ClientOf[d]}
               PROVE  picked'[Table(d)].at <= now'[d]
    BY DEF OrderInv, Table, Selectors
  <2>1. d # c /\ Selecting(d)
    BY DEF Selecting, TypeOK
  <2>2. ~Selecting(c) \/ Table(c) # Table(d)
    BY <2>1, Constants DEF LockInv, Pinned, Selectors, Table
  <2>3. picked'[Table(d)] = picked[Table(d)]
    BY <2>2 DEF Repick, TypeOK
  <2> QED
    BY <2>1, <2>3 DEF OrderInv, TypeOK
<1>9. LeftOutOnlyWhilePenalised'
  BY DEF LeftOutOnlyWhilePenalised, TypeOK
<1>10. PinnedNeverAbandoned' /\ RestInv'
  BY DEF PinnedNeverAbandoned, RestInv, TypeOK, HistoryTypeOK
<1> QED
  BY <1>1, <1>2, <1>3, <1>4, <1>5, <1>6, <1>7, <1>8, <1>9, <1>10

LEMMA UsePinStep ==
  ASSUME IInv, NEW c \in Calls, UsePin(c)
  PROVE  IInv'
<1> DEFINE pin == Pin[ClientOf[c]]
<1>1. Leave(c, "sending", pin, {})
  BY DEF UsePin, GoOnWith, Leave, processVars
<1>2. Endpoint(c, "sending", pin) /\ Repick(c, {})
  BY DEF UsePin, Endpoint, Repick, processVars
<1> QED
  BY <1>1, <1>2, LeaveStep, Zenon

(* What the first visit to the process mutex finds.                         *)
LEMMA FilterFinds ==
  ASSUME IInv, NEW c \in Calls, pc[c] = "filtering",
         NEW among, among = Candidates(Table(c), now[c])
  PROVE  /\ among # {} /\ among \subseteq BasesOf[Table(c)]
         /\ clean[c] \subseteq among
         /\ clean[c] # {} => among \cap avoid[c] = {}
         /\ \A b \in BasesOf[Table(c)] \ among :
              penalisedAt[b] # None /\ now[c] - penalisedAt[b] <= Penalty
<1> USE Constants DEF IInv
<1> DEFINE healthy == {b \in BasesOf[Table(c)] : Healthy(b, now[c])}
<1>1. among = IF healthy = {} THEN BasesOf[Table(c)] ELSE healthy
  BY DEF Candidates
<1>2. clean[c] \subseteq healthy
  BY DEF CleanInv, Selecting
<1>3. healthy \cap avoid[c] = {}
  <2> SUFFICES ASSUME NEW b \in healthy, b \in avoid[c] PROVE FALSE
    OBVIOUS
  <2>1. Healthy(b, clock)
    BY HealthyLater DEF TypeOK, ClockInv, Time
  <2> QED
    BY <2>1, HealthyNow DEF AvoidInv
<1>4. \A b \in BasesOf[Table(c)] \ healthy :
        penalisedAt[b] # None /\ now[c] - penalisedAt[b] <= Penalty
  BY TimeAssumption DEF Healthy, Elapsed, TypeOK, Time
<1>5. healthy \subseteq BasesOf[Table(c)]
  OBVIOUS
<1> HIDE DEF healthy
<1> QED
  BY <1>1, <1>2, <1>3, <1>4, <1>5

LEMMA FilterStep ==
  ASSUME IInv, NEW c \in Calls, Filter(c)
  PROVE  IInv'
<1> DEFINE among == Candidates(Table(c), now[c])
<1>1. pc[c] = "filtering"
  BY DEF Filter
<1>2. ~Pinned(c)
  BY <1>1 DEF IInv, LockInv, Selecting
<1>3. ASSUME NEW only \in among, GoOnWith(c, only, {}), UNCHANGED <<clock, processVars>>
      PROVE  IInv'
  <2>1. Leave(c, "sending", only, {}) /\ Repick(c, {})
    BY <1>3 DEF GoOnWith, Leave, Repick, processVars
  <2>2. Endpoint(c, "sending", only)
    BY <1>1, <1>2, <1>3, FilterFinds DEF Endpoint
  <2> QED
    BY <2>1, <2>2, LeaveStep, Zenon
<1>4. ASSUME candidates' = [candidates EXCEPT ![c] = among],
             pc' = [pc EXCEPT ![c] = "looking"],
             UNCHANGED <<clock, processVars, selecting, now, base, historyVars>>
      PROVE  IInv'
  <2> USE <1>1, <1>4, Constants DEF IInv, processVars, historyVars
  <2> HIDE DEF among
  <2>1. /\ among # {} /\ among \subseteq BasesOf[Table(c)]
        /\ clean[c] \subseteq among
        /\ clean[c] # {} => among \cap avoid[c] = {}
        /\ \A b \in BasesOf[Table(c)] \ among :
             penalisedAt[b] # None /\ now[c] - penalisedAt[b] <= Penalty
    BY FilterFinds DEF among
  <2>2. TypeOK'
    BY <2>1 DEF TypeOK, HistoryTypeOK
  <2>3. ClockInv' /\ LockInv' /\ EndpointInv' /\ CandidatesInv'
    BY <2>1 DEF ClockInv, LockInv, Selecting, EndpointInv, CandidatesInv, TypeOK
  <2>4. AvoidInv' /\ CleanInv' /\ OrderInv'
    BY DEF AvoidInv, CleanInv, OrderInv, Selecting, Healthy, TypeOK
  <2>5. SkipInv' /\ SharedInv' /\ LeftOutOnlyWhilePenalised' /\ PinnedNeverAbandoned' /\ RestInv'
    BY <2>1 DEF SkipInv, SharedInv, Keeps, LeftOutOnlyWhilePenalised,
                PinnedNeverAbandoned, RestInv, HistoryTypeOK, TypeOK
  <2> QED
    BY <2>2, <2>3, <2>4, <2>5
<1> QED
  BY <1>3, <1>4 DEF Filter

LEMMA LookUpStep ==
  ASSUME IInv, NEW c \in Calls, LookUp(c)
  PROVE  IInv'
<1> DEFINE pick == picked[Table(c)]
<1>1. pc[c] = "looking" /\ ~Pinned(c)
  BY DEF LookUp, IInv, LockInv, Selecting
<1>2. CASE Usable(pick, candidates[c], now[c])
  <2>1. Leave(c, "sending", pick.base, {}) /\ Repick(c, {})
    BY <1>2 DEF LookUp, GoOnWith, Leave, Repick, processVars
  <2>2. Endpoint(c, "sending", pick.base)
    BY <1>1, <1>2 DEF Endpoint, Usable, IInv, CandidatesInv
  <2> QED
    BY <2>1, <2>2, LeaveStep, Zenon
<1>3. CASE ~Usable(pick, candidates[c], now[c])
  <2> USE <1>1, <1>3, Constants DEF IInv, LookUp, processVars, localVars, historyVars
  <2>1. TypeOK'
    BY DEF TypeOK, HistoryTypeOK
  <2>2. ClockInv' /\ LockInv' /\ EndpointInv' /\ CandidatesInv'
    BY DEF ClockInv, LockInv, Selecting, EndpointInv, CandidatesInv, TypeOK
  <2>3. AvoidInv' /\ CleanInv' /\ SkipInv' /\ OrderInv'
    BY DEF AvoidInv, CleanInv, SkipInv, OrderInv, Selecting, Healthy, TypeOK
  <2>4. SharedInv'
    <3>1. ~Keeps(c, pick, TTL, clock)
      <4> SUFFICES ASSUME Keeps(c, pick, TTL, clock) PROVE FALSE
        OBVIOUS
      <4>1. pick \in Pick /\ pick.base \in candidates[c]
        BY DEF Keeps, SharedInv, SkipInv, TypeOK
      <4>2. pick.at \in Int /\ pick.at <= clock /\ now[c] <= clock /\ now[c] \in Int
        BY <4>1, NoneAssumption DEF ClockInv, TypeOK, Time, Pick
      <4>3. Elapsed(now[c], pick.at) >= TTL
        BY <4>1, <4>2, NoneAssumption, TimeAssumption DEF Usable, Elapsed
      <4> QED
        BY <4>2, <4>3, TimeAssumption DEF Keeps, Elapsed, TypeOK, Time
    <3> QED
      BY <3>1 DEF SharedInv, Keeps, TypeOK
  <2>5. LeftOutOnlyWhilePenalised' /\ PinnedNeverAbandoned' /\ RestInv'
    BY DEF LeftOutOnlyWhilePenalised, PinnedNeverAbandoned, RestInv, HistoryTypeOK, TypeOK
  <2> QED
    BY <2>1, <2>2, <2>3, <2>4, <2>5
<1> QED
  BY <1>2, <1>3

(* What the selection stores is one of its candidates.                      *)
LEMMA StoreChooses ==
  ASSUME IInv, NEW c \in Calls, Probed(c)
  PROVE  \E b \in candidates[c] :
           /\ picked' = [picked EXCEPT ![Table(c)] = [base |-> b, at |-> now[c]]]
           /\ GoOnWith(c, b, SameTable(c))
           /\ UNCHANGED <<clock, penalisedAt>>
<1> PICK reachable \in SUBSET candidates[c] : Store(c, reachable)
  BY DEF Probed
<1>1. candidates[c] \in (SUBSET Bases) \ {{}}
  BY Constants DEF Store, IInv, CandidatesInv
<1>2. FallbackOf(Table(c), candidates[c]) \in candidates[c]
  BY <1>1, ChoiceAssumption DEF FallbackOf
<1> QED
  BY <1>2 DEF Store

LEMMA StoreStep ==
  ASSUME IInv, NEW c \in Calls, Probed(c)
  PROVE  IInv'
<1>1. pc[c] = "probing"
  BY DEF Probed, Store
<1> PICK b \in candidates[c] :
      /\ picked' = [picked EXCEPT ![Table(c)] = [base |-> b, at |-> now[c]]]
      /\ GoOnWith(c, b, SameTable(c))
      /\ UNCHANGED <<clock, penalisedAt>>
  BY StoreChooses
<1>2. b \in BasesOf[Table(c)] /\ b \in Bases
  BY <1>1, Constants DEF IInv, CandidatesInv
<1>3. Leave(c, "sending", b, SameTable(c))
  BY DEF GoOnWith, Leave
<1>4. Endpoint(c, "sending", b) /\ Repick(c, SameTable(c))
  BY <1>1, <1>2 DEF Endpoint, Repick, Selecting, IInv, LockInv
<1>5. SameTable(c) \in SUBSET Calls
  BY DEF SameTable
<1> QED
  BY <1>3, <1>4, <1>5, LeaveStep, Zenon

LEMMA DropStep ==
  ASSUME IInv, NEW c \in Calls, Drop(c)
  PROVE  IInv'
<1>1. Leave(c, "idle", None, {})
  BY DEF Drop, Leave, processVars
<1>2. Endpoint(c, "idle", None) /\ Repick(c, {})
  BY DEF Drop, Endpoint, Repick, processVars
<1> QED
  BY <1>1, <1>2, LeaveStep, Zenon

LEMMA SucceedStep ==
  ASSUME IInv, NEW c \in Calls, Succeed(c)
  PROVE  IInv'
<1> USE Constants DEF IInv, Succeed, processVars, localVars, historyVars
<1>1. TypeOK'
  BY DEF TypeOK, HistoryTypeOK
<1>2. ClockInv' /\ LockInv' /\ EndpointInv' /\ CandidatesInv'
  BY DEF ClockInv, LockInv, Selecting, EndpointInv, CandidatesInv, TypeOK
<1>3. AvoidInv' /\ CleanInv' /\ SkipInv' /\ SharedInv' /\ OrderInv'
  BY DEF AvoidInv, CleanInv, SkipInv, SharedInv, Keeps, OrderInv, Selecting, Healthy, TypeOK
<1>4. LeftOutOnlyWhilePenalised' /\ PinnedNeverAbandoned' /\ RestInv'
  BY DEF LeftOutOnlyWhilePenalised, PinnedNeverAbandoned, RestInv, HistoryTypeOK, TypeOK
<1> QED
  BY <1>1, <1>2, <1>3, <1>4

LEMMA FailStep ==
  ASSUME IInv, NEW c \in Calls, Fail(c)
  PROVE  IInv'
<1> USE Constants DEF IInv, Fail, ReportFailure, processVars, localVars, historyVars
<1>1. CASE Pinned(c)
  <2> USE <1>1
  <2>1. TypeOK'
    BY DEF TypeOK, HistoryTypeOK
  <2>2. ClockInv' /\ LockInv' /\ EndpointInv' /\ CandidatesInv'
    BY DEF ClockInv, LockInv, Selecting, EndpointInv, CandidatesInv, TypeOK
  <2>3. AvoidInv' /\ CleanInv' /\ SkipInv' /\ SharedInv' /\ OrderInv'
    BY DEF AvoidInv, CleanInv, SkipInv, SharedInv, Keeps, OrderInv, Selecting, Healthy, TypeOK
  <2>4. LeftOutOnlyWhilePenalised' /\ PinnedNeverAbandoned' /\ RestInv'
    BY DEF LeftOutOnlyWhilePenalised, PinnedNeverAbandoned, RestInv, HistoryTypeOK, TypeOK
  <2> QED
    BY <2>1, <2>2, <2>3, <2>4
<1>2. CASE ~Pinned(c)
  <2> USE <1>2 DEF HistoryReport, SameTable
  <2>1. base[c] \in BasesOf[Table(c)] /\ base[c] \in Bases
    BY DEF EndpointInv
  <2>2. TypeOK'
    <3>1. shared' \in [Calls -> BOOLEAN]
      BY Zenon
    <3>2. clean' \in [Calls -> SUBSET Bases]
      BY DEF TypeOK, HistoryTypeOK
    <3> QED
      BY <2>1, <3>1, <3>2 DEF TypeOK, HistoryTypeOK
  <2>3. ClockInv'
    BY <2>1 DEF ClockInv, TypeOK, Time
  <2>4. LockInv' /\ EndpointInv' /\ CandidatesInv'
    BY DEF LockInv, Selecting, EndpointInv, CandidatesInv, TypeOK
  <2>5. AvoidInv'
    BY <2>1, NoneAssumption, TimeAssumption DEF AvoidInv, TypeOK, Time, HistoryTypeOK
  <2>6. CleanInv'
    BY <2>1 DEF CleanInv, Selecting, Healthy, TypeOK, HistoryTypeOK
  <2>7. SkipInv'
    BY DEF SkipInv, TypeOK, HistoryTypeOK
  <2>8. SharedInv'
    <3>1. \A d \in Calls : shared'[d] => shared[d] /\ Table(d) # Table(c)
      BY Zenon
    <3>2. \A d \in Calls : shared'[d] => picked'[Table(d)] = picked[Table(d)]
      BY <3>1 DEF TypeOK
    <3>3. \A d \in Calls : clean'[d] \subseteq clean[d]
      BY DEF TypeOK, HistoryTypeOK
    <3> QED
      BY <3>1, <3>2, <3>3 DEF SharedInv, Keeps, TypeOK
  <2>9. OrderInv'
    BY DEF OrderInv, Selecting, TypeOK
  <2>10. LeftOutOnlyWhilePenalised'
    BY <2>1, NoneAssumption, TimeAssumption
       DEF LeftOutOnlyWhilePenalised, ClockInv, TypeOK, Time
  <2>11. PinnedNeverAbandoned' /\ RestInv'
    BY <2>1 DEF PinnedNeverAbandoned, RestInv, TypeOK, HistoryTypeOK
  <2> QED
    BY <2>2, <2>3, <2>4, <2>5, <2>6, <2>7, <2>8, <2>9, <2>10, <2>11
<1> QED
  BY <1>1, <1>2

LEMMA TickStep ==
  ASSUME IInv, Tick
  PROVE  IInv'
<1> USE Constants DEF IInv, Tick, HistoryTick, processVars, localVars
<1>1. TypeOK'
  BY TimeAssumption DEF TypeOK, HistoryTypeOK, Time
<1>2. ClockInv'
  BY NoneAssumption, TimeAssumption DEF ClockInv, TypeOK, Time, Pick
<1>3. LockInv' /\ EndpointInv' /\ CandidatesInv'
  BY DEF LockInv, Selecting, EndpointInv, CandidatesInv, TypeOK
<1>4. AvoidInv'
  <2>1. ASSUME NEW c \in Calls, NEW b \in avoid'[c]
        PROVE  b \in avoid[c] /\ b \in Bases /\ ~Healthy(b, clock + 1)
    BY <2>1 DEF TypeOK, HistoryTypeOK
  <2>2. ASSUME NEW c \in Calls, NEW b \in avoid'[c]
        PROVE  (penalisedAt[b] # None /\ clock - penalisedAt[b] <= Penalty)'
    <3>1. b \in avoid[c] /\ b \in Bases /\ ~Healthy(b, clock + 1)
      BY <2>1, <2>2
    <3>2. penalisedAt[b] # None /\ penalisedAt[b] \in Int /\ penalisedAt[b] <= clock
      BY <3>1 DEF AvoidInv, TypeOK, Time, ClockInv
    <3> QED
      BY <3>1, <3>2, TimeAssumption DEF Healthy, Elapsed, TypeOK, Time
  <2> QED
    BY <2>2, Zenon DEF AvoidInv
<1>5. CleanInv'
  <2> SUFFICES ASSUME NEW c \in Calls, NEW b \in clean[c]
               PROVE  /\ b \in BasesOf[Table(c)]
                      /\ Healthy(b, clock + 1)
                      /\ Selecting(c) => Healthy(b, now[c])
    BY DEF CleanInv, Healthy, Selecting, TypeOK
  <2> QED
    BY HealthyLater DEF CleanInv, TypeOK, HistoryTypeOK, Time
<1>6. SkipInv' /\ OrderInv'
  BY DEF SkipInv, OrderInv, Selecting, TypeOK, HistoryTypeOK
<1>7. SharedInv'
  <2> SUFFICES ASSUME NEW c \in Calls, pc[c] = "probing",
                      Keeps(c, picked[Table(c)], TTL, clock + 1)
               PROVE  FALSE
    BY DEF SharedInv, Keeps, TypeOK
  <2>1. picked[Table(c)] \in Pick
    BY DEF SharedInv, Keeps, TypeOK
  <2> QED
    BY <2>1, TimeAssumption DEF SharedInv, Keeps, TypeOK, Time, Pick
<1>8. LeftOutOnlyWhilePenalised' /\ PinnedNeverAbandoned' /\ RestInv'
  BY DEF LeftOutOnlyWhilePenalised, PinnedNeverAbandoned, RestInv, HistoryTypeOK, TypeOK
<1> QED
  BY <1>1, <1>2, <1>3, <1>4, <1>5, <1>6, <1>7, <1>8
-----------------------------------------------------------------------------
LEMMA StutterStep ==
  ASSUME IInv, UNCHANGED vars
  PROVE  IInv'
<1> USE DEF IInv, vars, processVars, localVars, historyVars
<1>1. TypeOK' /\ ClockInv' /\ LockInv' /\ EndpointInv' /\ CandidatesInv'
  BY DEF TypeOK, HistoryTypeOK, ClockInv, LockInv, Selecting, EndpointInv, CandidatesInv
<1>2. AvoidInv' /\ CleanInv' /\ SkipInv' /\ SharedInv' /\ OrderInv'
  BY DEF AvoidInv, CleanInv, SkipInv, SharedInv, Keeps, OrderInv, Selecting, Healthy
<1>3. LeftOutOnlyWhilePenalised' /\ PinnedNeverAbandoned' /\ RestInv'
  BY DEF LeftOutOnlyWhilePenalised, PinnedNeverAbandoned, RestInv, HistoryTypeOK
<1> QED
  BY <1>1, <1>2, <1>3

LEMMA Step == IInv /\ [Next]_vars => IInv'
<1> SUFFICES ASSUME IInv, [Next]_vars PROVE IInv'
  OBVIOUS
<1> QED
  BY BeginStep, AcquireStep, UsePinStep, FilterStep, LookUpStep, StoreStep,
     SucceedStep, FailStep, DropStep, TickStep, StutterStep DEF Next, Select

(* Every reachable state satisfies the inductive invariant.                 *)
THEOREM Inductive == Spec => []IInv
BY InitIInv, Step, PTL DEF Spec

(* The variables keep their types.                                          *)
THEOREM Typing == Spec => []TypeOK
<1>1. IInv => TypeOK
  BY DEF IInv
<1> QED
  BY <1>1, Inductive, PTL

(* A selection leaves a region of the table out only because of a failure   *)
(* that is recent enough, whatever is reported while it runs.               *)
THEOREM LeftOut == Spec => []LeftOutOnlyWhilePenalised
<1>1. IInv => LeftOutOnlyWhilePenalised
  BY DEF IInv
<1> QED
  BY <1>1, Inductive, PTL

(* A pinned client stays on its base and never has it held against others.  *)
THEOREM PinnedStays == Spec => []PinnedNeverAbandoned
<1>1. IInv => PinnedNeverAbandoned
  BY DEF IInv
<1> QED
  BY <1>1, Inductive, PTL
-----------------------------------------------------------------------------
(* The step in which an unpinned call gets its endpoint ends a selection.   *)
LEMMA ChoosingStep ==
  ASSUME IInv, [Next]_vars, NEW c \in Calls, Chooses(c)
  PROVE  Filter(c) \/ LookUp(c) \/ Probed(c)
<1>1. CASE UNCHANGED vars
  BY <1>1 DEF vars, Chooses
<1>2. CASE Tick
  BY <1>2 DEF Tick, Chooses
<1>3. ASSUME NEW d \in Calls,
             Begin(d) \/ Acquire(d) \/ Select(d) \/ Succeed(d) \/ Fail(d) \/ Drop(d)
      PROVE  d = c /\ (Filter(c) \/ LookUp(c) \/ Probed(c))
  <2> USE DEF Chooses, IInv, TypeOK
  <2>1. pc' = [pc EXCEPT ![d] = "sending"] \/ pc'[d] # "sending"
    BY <1>3 DEF Begin, Acquire, Select, UsePin, Filter, LookUp, Probed, Store, GoOnWith,
                Succeed, Fail, Drop
  <2>2. \A e \in Calls : e # d => pc'[e] = pc[e]
    BY <1>3 DEF Begin, Acquire, Select, UsePin, Filter, LookUp, Probed, Store, GoOnWith,
                Succeed, Fail, Drop
  <2>3. d = c
    BY <2>2
  <2> QED
    BY <1>3, <2>3 DEF Begin, Acquire, Select, UsePin, Succeed, Fail, Drop
<1> QED
  BY <1>1, <1>2, <1>3 DEF Next

(* "A region that fails a request is skipped for 5 minutes by later calls". *)
THEOREM Skips == Spec => SkipsFailedRegions
<1>1. IInv /\ [Next]_vars => [\A c \in Calls : Chooses(c) => SkipsFailed(c, base'[c])]_vars
  <2> SUFFICES ASSUME IInv, [Next]_vars, NEW c \in Calls, Chooses(c)
               PROVE  SkipsFailed(c, base'[c])
    OBVIOUS
  <2> USE DEF IInv, TypeOK, Chooses, SkipsFailed
  <2>1. CASE Filter(c)
    <3> PICK only \in Candidates(Table(c), now[c]) : GoOnWith(c, only, {})
      BY <2>1 DEF Filter
    <3>1. pc[c] = "filtering" /\ base'[c] = only
      BY <2>1 DEF Filter, GoOnWith
    <3> QED
      BY <3>1, FilterFinds
  <2>2. CASE LookUp(c)
    BY <2>2 DEF LookUp, GoOnWith, Usable, SkipInv
  <2>3. CASE Probed(c)
    <3> PICK b \in candidates[c] : GoOnWith(c, b, SameTable(c))
      BY <2>3, StoreChooses
    <3>1. pc[c] = "probing" /\ base'[c] = b
      BY <2>3 DEF Probed, Store, GoOnWith
    <3> QED
      BY <3>1 DEF SkipInv
  <2> QED
    BY <2>1, <2>2, <2>3, ChoosingStep
<1> QED
  BY <1>1, Inductive, PTL DEF Spec, SkipsFailedRegions

(* "Shares that pick across every client in the process".                   *)
THEOREM Shares == Spec => UsesSharedPick
<1> DEFINE P(c) == Chooses(c) /\ Keeps(c, picked[Table(c)], TTL, clock)
             => base'[c] = picked[Table(c)].base /\ picked'[Table(c)] = picked[Table(c)]
<1>1. IInv /\ [Next]_vars => [\A c \in Calls : P(c)]_vars
  <2> SUFFICES ASSUME IInv, [Next]_vars, NEW c \in Calls,
                      Chooses(c), Keeps(c, picked[Table(c)], TTL, clock)
               PROVE  /\ base'[c] = picked[Table(c)].base
                      /\ picked'[Table(c)] = picked[Table(c)]
    OBVIOUS
  <2> USE DEF IInv, TypeOK, Chooses, Keeps, processVars
  <2>1. CASE Filter(c)
    <3> PICK only \in Candidates(Table(c), now[c]) :
          /\ Candidates(Table(c), now[c]) = {only}
          /\ GoOnWith(c, only, {})
          /\ UNCHANGED <<clock, processVars>>
      BY <2>1 DEF Filter
    <3>1. pc[c] = "filtering" /\ base'[c] = only
      BY <2>1 DEF Filter, GoOnWith
    <3> QED
      BY <3>1, FilterFinds
  <2>2. CASE LookUp(c)
    BY <2>2 DEF LookUp, GoOnWith
  <2>3. CASE Probed(c)
    BY <2>3 DEF Probed, Store, SharedInv
  <2> QED
    BY <2>1, <2>2, <2>3, ChoosingStep
<1> QED
  BY <1>1, Inductive, PTL DEF Spec, UsesSharedPick

(* While one client chooses from a table, its picks only get newer.         *)
THEOREM PicksGetNewer == Spec => OlderPickOnlyFromAnotherClient
<1> DEFINE P(t) ==
             /\ picked[t] # None /\ picked'[t] # None
             /\ picked'[t].at < picked[t].at
             => \E k, m \in Selectors(t) : k # m
<1>1. IInv /\ [Next]_vars => [\A t \in Tables : P(t)]_vars
  <2> SUFFICES ASSUME IInv, [Next]_vars, NEW t \in Tables,
                      picked[t] # None, picked'[t] # None, picked'[t].at < picked[t].at
               PROVE  \E k, m \in Selectors(t) : k # m
    OBVIOUS
  <2> USE DEF IInv, TypeOK, processVars
  <2>1. picked'[t] # picked[t]
    BY TimeAssumption, NoneAssumption DEF Pick, Time
  <2>2. PICK c \in Calls : Probed(c)
    BY <2>1 DEF Next, Begin, Acquire, Select, UsePin, Filter, LookUp, Succeed, Fail, Drop,
                Tick, ReportFailure, vars
  <2>3. pc[c] = "probing" /\ Selecting(c)
    BY <2>2 DEF Probed, Store, Selecting
  <2>4. t = Table(c) /\ picked'[t].at = now[c]
    BY <2>1, <2>2, StoreChooses
  <2>5. ~ (Selectors(Table(c)) \subseteq {ClientOf[c]})
    BY <2>3, <2>4, TimeAssumption, NoneAssumption DEF OrderInv, Pick, Time
  <2> QED
    BY <2>3, <2>4, <2>5, Constants DEF Table, LockInv, Pinned, Selectors
<1> QED
  BY <1>1, Inductive, PTL DEF Spec, OlderPickOnlyFromAnotherClient
-----------------------------------------------------------------------------
(***************************************************************************)
(* The selection implements Failover.                                      *)
(***************************************************************************)
LEMMA InitRefines == Init => Promise!Init
BY DEF Init, HistoryInit, Promise!Init, Promise!HistoryInit, Phase

(* The penalised bases of the promise are the unhealthy ones of the code.   *)
LEMMA SamePenalised ==
  ASSUME IInv, NEW t \in Int, clock <= t
  PROVE  Promise!Penalised(t) = {b \in Bases : ~Healthy(b, t)}
<1>1. ASSUME NEW b \in Bases
      PROVE  penalisedAt[b] # None /\ t - penalisedAt[b] <= Penalty <=> ~Healthy(b, t)
  BY TimeAssumption DEF IInv, TypeOK, ClockInv, Healthy, Elapsed, Time
<1> QED
  BY <1>1, Zenon DEF Promise!Penalised

LEMMA BeginRefines ==
  ASSUME IInv, NEW c \in Calls, Begin(c)
  PROVE  Promise!Begin(c)
<1>1. Phase[c] = "idle" /\ Phase' = [Phase EXCEPT ![c] = "asking"]
  BY DEF Begin, Phase, IInv, TypeOK
<1>2. Promise!Penalised(clock) = Penalised
  BY SamePenalised DEF Penalised, IInv, TypeOK, Time
<1> QED
  BY <1>1, <1>2
     DEF Begin, HistoryBegin, Promise!Begin, Promise!HistoryBegin, processVars

LEMMA QuietRefines ==
  ASSUME IInv, NEW c \in Calls,
         pc[c] \in {"asking", "filtering", "looking"},
         NEW p \in {"filtering", "looking", "probing"},
         pc' = [pc EXCEPT ![c] = p],
         UNCHANGED <<clock, processVars, base, historyVars>>
  PROVE  UNCHANGED Promise!vars
<1>1. Phase' = Phase
  BY DEF Phase, IInv, TypeOK
<1> QED
  BY <1>1 DEF Promise!vars, Promise!historyVars, processVars, historyVars

(* A selection ends with the pick in place, or with a base of its choice.   *)
KeepsOrChooses(c, b, readers) ==
  LET keeps == Keeps(c, picked[Table(c)], TTL, clock) IN
  \/ /\ keeps => b = picked[Table(c)].base
     /\ picked' = picked
     /\ readers = {}
  \/ /\ ~keeps
     /\ picked' = [picked EXCEPT ![Table(c)] = [base |-> b, at |-> now[c]]]
     /\ readers = SameTable(c)

LEMMA ChoiceRefines ==
  ASSUME IInv, NEW c \in Calls, NEW b \in BasesOf[Table(c)], ~Pinned(c),
         Selecting(c), NEW readers, GoOnWith(c, b, readers), SkipsFailed(c, b),
         UNCHANGED <<clock, penalisedAt>>, KeepsOrChooses(c, b, readers)
  PROVE  Promise!Choose(c)
<1> USE Constants DEF IInv
<1>1. Phase[c] = "asking" /\ Phase' = [Phase EXCEPT ![c] = "sending"]
  BY DEF GoOnWith, Phase, TypeOK, Selecting
<1>2. Promise!GoTo(c, b)
  BY <1>1 DEF Promise!GoTo, GoOnWith
<1>3. Promise!HistoryEnd(c, readers)
  BY DEF GoOnWith, HistoryEnd, Promise!HistoryEnd
<1>4. Promise!SkipsFailed(c, b)
  BY DEF SkipsFailed, Promise!SkipsFailed
<1>5. Promise!MustKeep(c) <=> Keeps(c, picked[Table(c)], TTL, clock)
  BY DEF Promise!MustKeep, Promise!Keeps, Keeps
<1>6. Promise!Rivals(c) = SameTable(c)
  BY DEF Promise!Rivals, SameTable
<1>7. CASE Keeps(c, picked[Table(c)], TTL, clock)
  <2>1. picked[Table(c)] # None
    BY <1>7 DEF Keeps, SharedInv
  <2>2. Promise!KeepPick(c)
    BY <1>2, <1>3, <1>4, <1>7, <2>1 DEF KeepsOrChooses, Promise!KeepPick, Pinned
  <2> QED
    BY <2>2 DEF Promise!Choose
<1>8. CASE ~Keeps(c, picked[Table(c)], TTL, clock)
  <2>1. now[c] \in 0 .. clock
    BY TimeAssumption DEF TypeOK, ClockInv, Time
  <2>2. Promise!ChooseAnew(c, b)
    BY <1>2, <1>3, <1>4, <1>5, <1>6, <1>8, <2>1
       DEF KeepsOrChooses, Promise!ChooseAnew, Pinned
  <2> QED
    BY <2>2 DEF Promise!Choose
<1> QED
  BY <1>7, <1>8

LEMMA UsePinRefines ==
  ASSUME IInv, NEW c \in Calls, UsePin(c)
  PROVE  Promise!Choose(c)
<1>1. Phase[c] = "asking" /\ Phase' = [Phase EXCEPT ![c] = "sending"]
  BY DEF UsePin, GoOnWith, Phase, IInv, TypeOK
<1>2. Promise!ChoosePin(c)
  BY <1>1 DEF UsePin, GoOnWith, HistoryEnd, Pinned, processVars,
              Promise!ChoosePin, Promise!GoTo, Promise!HistoryEnd
<1> QED
  BY <1>2 DEF Promise!Choose

LEMMA FilterRefines ==
  ASSUME IInv, NEW c \in Calls, Filter(c)
  PROVE  Promise!Choose(c) \/ UNCHANGED Promise!vars
<1> DEFINE among == Candidates(Table(c), now[c])
<1>1. pc[c] = "filtering" /\ Selecting(c) /\ ~Pinned(c)
  BY DEF Filter, IInv, LockInv, Selecting
<1>2. ASSUME NEW only \in among, among = {only}, GoOnWith(c, only, {}),
             UNCHANGED <<clock, processVars>>
      PROVE  Promise!Choose(c)
  <2>1. only \in BasesOf[Table(c)] /\ SkipsFailed(c, only) /\ clean[c] \subseteq {only}
    BY <1>1, <1>2, FilterFinds DEF SkipsFailed
  <2>2. KeepsOrChooses(c, only, {})
    BY <1>2, <2>1 DEF KeepsOrChooses, Keeps, processVars
  <2> QED
    BY <1>1, <1>2, <2>1, <2>2, ChoiceRefines DEF processVars
<1>3. CASE pc' = [pc EXCEPT ![c] = "looking"] /\ UNCHANGED <<clock, processVars, base, historyVars>>
  BY <1>1, <1>3, QuietRefines
<1> QED
  BY <1>2, <1>3, Zenon DEF Filter

LEMMA LookUpRefines ==
  ASSUME IInv, NEW c \in Calls, LookUp(c)
  PROVE  Promise!Choose(c) \/ UNCHANGED Promise!vars
<1> DEFINE pick == picked[Table(c)]
<1>1. pc[c] = "looking" /\ Selecting(c) /\ ~Pinned(c)
  BY DEF LookUp, IInv, LockInv, Selecting
<1>2. CASE Usable(pick, candidates[c], now[c])
  <2>1. pick.base \in BasesOf[Table(c)] /\ SkipsFailed(c, pick.base)
    BY <1>1, <1>2 DEF Usable, SkipsFailed, IInv, CandidatesInv, SkipInv
  <2>2. GoOnWith(c, pick.base, {}) /\ UNCHANGED <<clock, penalisedAt>>
    BY <1>2 DEF LookUp, processVars
  <2>3. KeepsOrChooses(c, pick.base, {})
    BY <1>2 DEF LookUp, KeepsOrChooses, processVars
  <2> QED
    BY <1>1, <2>1, <2>2, <2>3, ChoiceRefines
<1>3. CASE ~Usable(pick, candidates[c], now[c])
  BY <1>1, <1>3, QuietRefines DEF LookUp
<1> QED
  BY <1>2, <1>3

LEMMA StoreRefines ==
  ASSUME IInv, NEW c \in Calls, Probed(c)
  PROVE  Promise!Choose(c)
<1>1. pc[c] = "probing" /\ Selecting(c) /\ ~Pinned(c)
  BY DEF Probed, Store, IInv, LockInv, Selecting
<1> PICK b \in candidates[c] :
      /\ picked' = [picked EXCEPT ![Table(c)] = [base |-> b, at |-> now[c]]]
      /\ GoOnWith(c, b, SameTable(c))
      /\ UNCHANGED <<clock, penalisedAt>>
  BY StoreChooses
<1>2. b \in BasesOf[Table(c)] /\ SkipsFailed(c, b)
  BY <1>1 DEF SkipsFailed, IInv, CandidatesInv, SkipInv
<1>3. KeepsOrChooses(c, b, SameTable(c))
  BY <1>1 DEF KeepsOrChooses, IInv, SharedInv
<1> QED
  BY <1>1, <1>2, <1>3, ChoiceRefines


(* A call that has ended, or was dropped, is at its end.                    *)
LEMMA EndRefines ==
  ASSUME IInv, NEW c \in Calls, Succeed(c) \/ Drop(c)
  PROVE  Promise!End(c) \/ UNCHANGED Promise!vars
<1> USE DEF IInv, TypeOK, HistoryTypeOK, processVars, historyVars
<1>1. Phase[c] \in {"asking", "sending"} /\ Phase' = [Phase EXCEPT ![c] = "idle"]
  BY DEF Succeed, Drop, Phase
<1>2. Promise!HistoryEnd(c, {})
  <2>1. CASE Drop(c)
    BY <2>1 DEF Drop, HistoryEnd, Promise!HistoryEnd
  <2>2. CASE Succeed(c)
    <3>1. avoid[c] = {} /\ clean[c] = {} /\ ~shared[c]
      BY <2>2 DEF Succeed, RestInv
    <3>2. shared' = [d \in Calls |-> shared[d] /\ d # c /\ d \notin {}]
      BY <2>2, <3>1, Zenon DEF Succeed
    <3>3. avoid' = [avoid EXCEPT ![c] = {}] /\ clean' = [clean EXCEPT ![c] = {}]
      BY <2>2, <3>1 DEF Succeed
    <3> QED
      BY <3>2, <3>3 DEF Promise!HistoryEnd
  <2> QED
    BY <2>1, <2>2
<1> QED
  BY <1>1, <1>2 DEF Succeed, Drop, Promise!End

LEMMA FailRefines ==
  ASSUME IInv, NEW c \in Calls, Fail(c)
  PROVE  Promise!Fail(c)
<1>1. Phase[c] = "sending" /\ Phase' = [Phase EXCEPT ![c] = "idle"]
  BY DEF Fail, Phase, IInv, TypeOK
<1>2. Promise!Rivals(c) = SameTable(c)
  BY DEF Promise!Rivals, SameTable
<1> QED
  BY <1>1, <1>2, Zenon
     DEF Fail, ReportFailure, Pinned, HistoryReport, processVars, historyVars,
         Promise!Fail, Promise!HistoryReport, Promise!historyVars

LEMMA TickRefines ==
  ASSUME IInv, Tick
  PROVE  Promise!Tick
<1>1. Promise!Penalised(clock + 1) = {b \in Bases : ~Healthy(b, clock + 1)}
  BY SamePenalised DEF IInv, TypeOK, Time
<1>2. Phase' = Phase
  BY DEF Tick, Phase
<1> QED
  BY <1>1, <1>2 DEF Tick, HistoryTick, processVars, Promise!Tick, Promise!HistoryTick

(* The selection of the Rust SDK keeps the promise of Failover.             *)
THEOREM Refines == Spec => ImplementsFailover
<1>1. ASSUME IInv, [Next]_vars
      PROVE  [Promise!Next]_(Promise!vars)
  <2> USE <1>1
  <2>1. CASE UNCHANGED vars
    BY <2>1 DEF vars, processVars, historyVars, Phase, Promise!vars, Promise!historyVars
  <2>2. CASE Tick
    BY <2>2, TickRefines DEF Promise!Next
  <2>3. ASSUME NEW c \in Calls,
               Begin(c) \/ Acquire(c) \/ Select(c) \/ Succeed(c) \/ Fail(c) \/ Drop(c)
        PROVE  [Promise!Next]_(Promise!vars)
    <3>1. CASE Acquire(c)
      BY <3>1, QuietRefines DEF Acquire
    <3>2. CASE Begin(c) \/ Succeed(c) \/ Fail(c) \/ Drop(c)
      BY <3>2, BeginRefines, EndRefines, FailRefines DEF Promise!Next
    <3>3. CASE Select(c)
      BY <3>3, UsePinRefines, FilterRefines, LookUpRefines, StoreRefines
         DEF Select, Promise!Next
    <3> QED
      BY <2>3, <3>1, <3>2, <3>3
  <2> QED
    BY <2>1, <2>2, <2>3 DEF Next
<1>2. IInv /\ [Next]_vars => [Promise!Next]_(Promise!vars)
  BY <1>1
<1> QED
  BY InitRefines, <1>2, Inductive, PTL DEF Spec, ImplementsFailover, Promise!Spec
=============================================================================

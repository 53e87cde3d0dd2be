--------------------------- MODULE RegionsTsProofs ---------------------------
(***************************************************************************)
(* Proofs about RegionsTs: its type invariant, that no caller is left      *)
(* waiting for a promise the client has forgotten, and the two promises    *)
(* about the endpoint of a call that starts the selection it awaits.       *)
(***************************************************************************)
EXTENDS RegionsTs, TLAPS

(* A call of a pinned client awaits nothing, ...                            *)
AwaitsInv == \A c \in Calls : pc[c] = "awaiting" => ~Pinned(c)

(* ... and only clients that select have a selection, of bases of their     *)
(* table.                                                                   *)
FlightInv ==
  \A k \in Clients :
    LET flight == selecting[k]
        bases == BasesOf[TableOf[k]]
    IN  flight # None =>
          /\ Pin[k] = None
          /\ flight.stage = "probing" => flight.candidates # {} /\ flight.candidates \subseteq bases
          /\ flight.stage = "settled" => flight.base \in bases

(* A call goes on with its pin, or with a base of its table.                *)
EndpointInv ==
  \A c \in Calls :
    IF pc[c] \in {"resumable", "sending"}
    THEN base[c] \in IF Pinned(c) THEN {Pin[ClientOf[c]]} ELSE BasesOf[Table(c)]
    ELSE base[c] = None

(* While a selection probes for the call that started it, the bases that     *)
(* were healthy all along are candidates and then those that were not are   *)
(* none; what it settles with, and what its caller gets, is skipped by none *)
(* that should.                                                             *)
SkipInv ==
  \A c \in Calls :
    LET flight == selecting[ClientOf[c]] IN
    /\ pc[c] = "awaiting" /\ ~joined[c] /\ flight.stage = "probing" =>
         /\ clean[c] \subseteq flight.candidates
         /\ clean[c] # {} => flight.candidates \cap avoid[c] = {}
    /\ pc[c] = "awaiting" /\ ~joined[c] /\ flight.stage = "settled" =>
         SkipsFailed(c, flight.base)
    /\ pc[c] = "resumable" /\ ~joined[c] /\ ~Pinned(c) => SkipsFailed(c, base[c])

(* A pick is a base of the table.                                           *)
PickInv == \A t \in Tables : picked[t] # None => picked[t].base \in BasesOf[t]

(* A pick a call relies on is in place.                                     *)
SharedInv == \A c \in Calls : shared[c] => picked[Table(c)] # None

IInv ==
  /\ TypeOK
  /\ NoAwaiterIsStranded
  /\ AwaitsInv
  /\ FlightInv
  /\ EndpointInv
  /\ SkipInv
  /\ PickInv
  /\ SharedInv
  /\ OwnSelectionUsesSharedPick
-----------------------------------------------------------------------------
LEMMA Constants ==
  ASSUME NEW c \in Calls
  PROVE  /\ ClientOf[c] \in Clients
         /\ Table(c) \in Tables
         /\ Table(c) = TableOf[ClientOf[c]]
         /\ BasesOf[Table(c)] \in (SUBSET Bases) \ {{}}
         /\ Pin[ClientOf[c]] \in Bases \cup {None}
BY TsTablesAssumption DEF Table

LEMMA ClientConstants ==
  ASSUME NEW k \in Clients
  PROVE  /\ TableOf[k] \in Tables
         /\ BasesOf[TableOf[k]] \in (SUBSET Bases) \ {{}}
BY TsTablesAssumption

(* What is in flight is one of two things.                                  *)
LEMMA FlightIs ==
  ASSUME TypeOK, NEW k \in Clients, selecting[k] # None
  PROVE  /\ selecting[k] \in Flight
         /\ selecting[k].since \in Time
         /\ \/ selecting[k].stage = "probing" /\ selecting[k].candidates \in SUBSET Bases
            \/ selecting[k].stage = "settled" /\ selecting[k].base \in Bases
BY DEF TypeOK, Flight

LEMMA CandidatesAre ==
  ASSUME NEW t \in Tables
  PROVE  /\ Candidates(t) # {} /\ Candidates(t) \subseteq BasesOf[t]
         /\ BasesOf[t] \ Penalised \subseteq Candidates(t)
         /\ BasesOf[t] \ Penalised # {} => Candidates(t) \cap Penalised = {}
<1> USE TsTablesAssumption
<1> DEFINE healthy == {b \in BasesOf[t] : Healthy(b, clock)}
<1>1. Candidates(t) = IF healthy = {} THEN BasesOf[t] ELSE healthy
  BY DEF Candidates
<1>2. BasesOf[t] \ Penalised = healthy /\ healthy \cap Penalised = {}
  BY DEF Penalised
<1> QED
  BY <1>1, <1>2

LEMMA FallbackIs ==
  ASSUME NEW t \in Tables, NEW among \in (SUBSET Bases) \ {{}}
  PROVE  FallbackOf(t, among) \in among
BY TsTablesAssumption DEF FallbackOf

LEMMA InitInv == Init => IInv
<1> SUFFICES ASSUME Init PROVE IInv
  OBVIOUS
<1> USE DEF Init, HistoryInit
<1>1. TypeOK
  BY TsTablesAssumption DEF TypeOK, HistoryTypeOK, Time
<1>2. NoAwaiterIsStranded /\ AwaitsInv /\ EndpointInv /\ SkipInv /\ PickInv /\ SharedInv
  BY DEF NoAwaiterIsStranded, AwaitsInv, EndpointInv, SkipInv, PickInv, SharedInv
<1>3. FlightInv /\ OwnSelectionUsesSharedPick
  BY DEF FlightInv, OwnSelectionUsesSharedPick
<1> QED
  BY <1>1, <1>2, <1>3 DEF IInv
-----------------------------------------------------------------------------
(* What select() returns, or awaits, for a call that starts it.             *)
LEMMA SelectionIs ==
  ASSUME IInv, NEW t \in Tables
  PROVE  /\ Selection(t) \in Flight
         /\ Selection(t).stage = "probing" =>
              Selection(t).candidates = Candidates(t) /\ ~CachedPick(t)
         /\ Selection(t).stage = "settled" => Selection(t).base \in Candidates(t)
         /\ CachedPick(t) =>
              Selection(t).stage = "settled" /\ Selection(t).base = picked[t].base
<1> DEFINE among == Candidates(t)
<1>1. among # {} /\ among \in SUBSET Bases /\ First[among] \in among
  BY CandidatesAre, TsTablesAssumption
<1>2. clock \in Time /\ (CachedPick(t) => picked[t].base \in among)
  BY DEF IInv, TypeOK, CachedPick
<1>3. CASE \E only \in among : among = {only}
  BY <1>1, <1>2, <1>3 DEF Selection, Flight
<1>4. CASE ~\E only \in among : among = {only}
  BY <1>1, <1>2, <1>4 DEF Selection, Flight
<1> QED
  BY <1>3, <1>4

LEMMA CurrentInv ==
  ASSUME IInv, NEW c \in Calls, Current(c)
  PROVE  IInv'
<1> USE Constants DEF IInv, Current, HistoryBegin
<1> DEFINE k == ClientOf[c]
           t == Table(c)
<1>1. TypeOK'
  <2>1. selecting' \in [Clients -> Flight \cup {None}]
    BY SelectionIs DEF TypeOK
  <2>2. pc' \in [Calls -> {"idle", "awaiting", "resumable", "sending"}]
    BY DEF TypeOK
  <2>3. base' \in [Calls -> Bases \cup {None}]
    BY DEF TypeOK
  <2>4. HistoryTypeOK'
    BY DEF TypeOK, HistoryTypeOK, Penalised
  <2> QED
    BY <2>1, <2>2, <2>3, <2>4 DEF TypeOK
<1>2. \A j \in Clients :
        \/ selecting'[j] = selecting[j]
        \/ selecting[j] = None /\ ~Pinned(c) /\ j = k /\ selecting'[j] = Selection(t)
  <2>1. CASE Pinned(c)
    BY <2>1
  <2>2. CASE ~Pinned(c)
    <3>1. selecting' = [selecting EXCEPT ![k] = IF selecting[k] = None THEN Selection(t) ELSE selecting[k]]
      BY <2>2
    <3> QED
      BY <2>2, <3>1 DEF TypeOK
  <2> QED
    BY <2>1, <2>2
<1>3. \A d \in Calls : d # c =>
        /\ pc'[d] = pc[d] /\ base'[d] = base[d] /\ joined'[d] = joined[d]
        /\ avoid'[d] = avoid[d] /\ clean'[d] = clean[d] /\ shared'[d] = shared[d]
  BY DEF TypeOK, HistoryTypeOK
<1>4. NoAwaiterIsStranded'
  BY <1>2, <1>3, SelectionIs, TsNoneAssumption DEF NoAwaiterIsStranded, TypeOK
<1>5. AwaitsInv'
  BY <1>3 DEF AwaitsInv, Pinned, TypeOK
<1>6. FlightInv'
  <2>1. Selection(t).stage = "probing" =>
          Selection(t).candidates # {} /\ Selection(t).candidates \subseteq BasesOf[t]
    BY SelectionIs, CandidatesAre
  <2>2. Selection(t).stage = "settled" => Selection(t).base \in BasesOf[t]
    BY SelectionIs, CandidatesAre
  <2> QED
    BY <1>2, <2>1, <2>2 DEF FlightInv, Pinned
<1>7. EndpointInv'
  BY <1>3 DEF EndpointInv, Pinned, Table, TypeOK
<1>8. \A d \in Calls : d # c /\ pc[d] = "awaiting" => selecting'[ClientOf[d]] = selecting[ClientOf[d]]
  BY <1>2, TsTablesAssumption DEF NoAwaiterIsStranded
<1>9. avoid'[c] = BasesOf[t] \cap Penalised /\ clean'[c] = BasesOf[t] \ Penalised
      /\ shared'[c] = (picked[t] # None)
  BY DEF TypeOK, HistoryTypeOK
<1>10. pc'[c] = "awaiting" /\ ~joined'[c] => ~Pinned(c) /\ selecting[k] = None /\ selecting'[k] = Selection(t)
  BY <1>2 DEF TypeOK
<1>11. SkipInv'
  <2>1. pc'[c] = "awaiting" /\ ~joined'[c] /\ selecting'[k].stage = "probing" =>
          /\ clean'[c] \subseteq selecting'[k].candidates
          /\ clean'[c] # {} => selecting'[k].candidates \cap avoid'[c] = {}
    BY <1>9, <1>10, SelectionIs, CandidatesAre
  <2>2. pc'[c] = "awaiting" /\ ~joined'[c] /\ selecting'[k].stage = "settled" =>
          SkipsFailed(c, selecting[k].base)'
    BY <1>9, <1>10, SelectionIs, CandidatesAre DEF SkipsFailed
  <2>3. pc'[c] = "resumable" => Pinned(c)
    BY DEF TypeOK
  <2> QED
    BY <1>3, <1>8, <2>1, <2>2, <2>3 DEF SkipInv, SkipsFailed, Pinned
<1>12. SharedInv' /\ PickInv'
  BY <1>3, <1>9 DEF SharedInv, PickInv, Table
<1>13. OwnSelectionUsesSharedPick'
  <2>1. pc'[c] = "awaiting" /\ ~joined'[c] /\ Keeps(c, picked[t], TTL, clock)' =>
          selecting'[k].stage = "settled" /\ selecting'[k].base = picked[t].base
    <3> SUFFICES ASSUME pc'[c] = "awaiting", ~joined'[c], Keeps(c, picked[t], TTL, clock)'
                 PROVE  CachedPick(t)
      BY <1>10, SelectionIs
    <3>1. picked[t] # None /\ picked[t].base \in BasesOf[t] \ Penalised /\ clock - picked[t].at < TTL
      BY <1>9 DEF Keeps
    <3> QED
      BY <3>1, CandidatesAre DEF CachedPick
  <2> QED
    BY <1>3, <1>8, <2>1 DEF OwnSelectionUsesSharedPick, Keeps, Table
<1> QED
  BY <1>1, <1>4, <1>5, <1>6, <1>7, <1>11, <1>12, <1>13

(* A selection of client k settles with one of its candidates.              *)
LEMMA ProbedInv ==
  ASSUME IInv, NEW k \in Clients, Probed(k)
  PROVE  IInv'
<1> USE DEF IInv
<1> DEFINE t == TableOf[k]
           flight == selecting[k]
<1>1. flight # None /\ flight.stage = "probing" /\ flight.since \in Time
      /\ flight.candidates \in SUBSET BasesOf[t] /\ flight.candidates # {}
      /\ t \in Tables /\ flight.candidates \in SUBSET Bases
  BY FlightIs, ClientConstants DEF Probed, FlightInv
<1>2. PICK b \in flight.candidates :
        /\ picked' = [picked EXCEPT ![t] = [base |-> b, at |-> flight.since]]
        /\ selecting' = [selecting EXCEPT ![k] =
                           [stage |-> "settled", since |-> flight.since, base |-> b]]
  <2>1. PICK reachable \in SUBSET flight.candidates : Settle(k, reachable)
    BY DEF Probed
  <2>2. (IF reachable = {} THEN {FallbackOf(t, flight.candidates)} ELSE reachable)
          \subseteq flight.candidates
    BY <1>1, FallbackIs
  <2> QED
    BY <2>1, <2>2 DEF Settle
<1>3. shared' = [d \in Calls |-> shared[d] /\ d \notin SameTable(t)]
      /\ UNCHANGED <<clock, penalisedAt, pc, base, joined, avoid, clean>>
  BY DEF Probed, Settle
<1>4. [stage |-> "settled", since |-> flight.since, base |-> b] \in Flight /\ b \in BasesOf[t]
      /\ [base |-> b, at |-> flight.since] \in Pick
  BY <1>1 DEF Flight, Pick
<1>5. TypeOK'
  BY <1>1, <1>2, <1>3, <1>4 DEF TypeOK, HistoryTypeOK
<1>6. selecting'[k] = [stage |-> "settled", since |-> flight.since, base |-> b]
      /\ \A j \in Clients : j # k => selecting'[j] = selecting[j]
  BY <1>2 DEF TypeOK
<1>7. NoAwaiterIsStranded' /\ AwaitsInv'
  BY <1>3, <1>4, <1>6, Constants, TsNoneAssumption DEF NoAwaiterIsStranded, AwaitsInv, Pinned
<1>8. FlightInv'
  BY <1>1, <1>4, <1>6 DEF FlightInv
<1>9. EndpointInv'
  BY <1>3 DEF EndpointInv, Pinned, Table
<1>10. SkipInv'
  <2> SUFFICES ASSUME NEW d \in Calls, ClientOf[d] = k, pc[d] = "awaiting", ~joined[d]
               PROVE  SkipsFailed(d, b)
    BY <1>3, <1>6, Constants DEF SkipInv, SkipsFailed, Pinned
  <2> QED
    BY <1>1 DEF SkipInv, SkipsFailed
<1>11. \A d \in Calls : shared'[d] =>
         /\ shared[d] /\ ClientOf[d] # k /\ Table(d) # t
         /\ picked'[Table(d)] = picked[Table(d)]
         /\ selecting'[ClientOf[d]] = selecting[ClientOf[d]]
  <2>1. ASSUME NEW d \in Calls, shared'[d] PROVE shared[d] /\ Table(d) # t /\ ClientOf[d] # k
    BY <1>3, <2>1, Constants DEF SameTable
  <2> QED
    BY <1>2, <1>6, <2>1, Constants DEF TypeOK
<1>12. SharedInv'
  BY <1>11 DEF SharedInv, Table
<1>13. OwnSelectionUsesSharedPick'
  BY <1>3, <1>11 DEF OwnSelectionUsesSharedPick, Keeps, Table
<1>14. PickInv'
  BY <1>2, <1>4 DEF PickInv, TypeOK
<1> QED
  BY <1>5, <1>14, <1>7, <1>8, <1>9, <1>10, <1>12, <1>13

LEMMA ClearInv ==
  ASSUME IInv, NEW k \in Clients, Clear(k)
  PROVE  IInv'
<1> USE DEF IInv, Clear, historyVars
<1> DEFINE waiters == {c \in Calls : ClientOf[c] = k /\ pc[c] = "awaiting"}
           b == selecting[k].base
<1>1. b \in BasesOf[TableOf[k]] /\ b \in Bases /\ Pin[k] = None
  BY FlightIs, ClientConstants DEF FlightInv
<1>2. \A c \in waiters : pc'[c] = "resumable" /\ base'[c] = b
  OBVIOUS
<1>3. \A c \in Calls \ waiters : pc'[c] = pc[c] /\ base'[c] = base[c]
  OBVIOUS
<1>4. \A c \in Calls : pc'[c] = "awaiting" =>
        pc[c] = "awaiting" /\ ClientOf[c] # k /\ selecting'[ClientOf[c]] = selecting[ClientOf[c]]
  BY <1>2, <1>3, Constants DEF TypeOK
<1>5. TypeOK'
  <2>1. pc' \in [Calls -> {"idle", "awaiting", "resumable", "sending"}]
    BY DEF TypeOK
  <2>2. base' \in [Calls -> Bases \cup {None}]
    BY <1>1 DEF TypeOK
  <2> QED
    BY <2>1, <2>2 DEF TypeOK, HistoryTypeOK
<1>6. NoAwaiterIsStranded' /\ AwaitsInv'
  BY <1>4 DEF NoAwaiterIsStranded, AwaitsInv, Pinned
<1>7. FlightInv'
  BY DEF FlightInv, TypeOK
<1>8. EndpointInv'
  BY <1>1, <1>2, <1>3, Constants DEF EndpointInv, Pinned, Table
<1>9. SkipInv'
  <2>1. ASSUME NEW c \in waiters, ~joined[c] PROVE SkipsFailed(c, b)
    BY <2>1 DEF SkipInv
  <2> QED
    BY <1>2, <1>3, <1>4, <2>1 DEF SkipInv, SkipsFailed, Pinned
<1>10. SharedInv' /\ PickInv' /\ OwnSelectionUsesSharedPick'
  BY <1>4 DEF SharedInv, PickInv, OwnSelectionUsesSharedPick, Keeps, Table
<1> QED
  BY <1>5, <1>6, <1>7, <1>8, <1>9, <1>10

LEMMA ResumeInv ==
  ASSUME IInv, NEW c \in Calls, Resume(c)
  PROVE  IInv'
<1> USE DEF IInv, Resume, HistoryEnd
<1>1. TypeOK'
  BY DEF TypeOK, HistoryTypeOK
<1>2. pc'[c] = "sending" /\ ~shared'[c]
  BY DEF TypeOK
<1>3. \A d \in Calls : d # c =>
        /\ pc'[d] = pc[d] /\ joined'[d] = joined[d] /\ avoid'[d] = avoid[d]
        /\ clean'[d] = clean[d] /\ (shared'[d] => shared[d])
  BY DEF TypeOK, HistoryTypeOK
<1>4. NoAwaiterIsStranded' /\ AwaitsInv' /\ FlightInv' /\ EndpointInv'
  <2>1. NoAwaiterIsStranded' /\ AwaitsInv' /\ FlightInv'
    BY <1>2, <1>3 DEF NoAwaiterIsStranded, AwaitsInv, FlightInv, Pinned
  <2>2. EndpointInv'
    BY DEF EndpointInv, Pinned, Table, TypeOK
  <2> QED
    BY <2>1, <2>2
<1>5. SkipInv'
  BY <1>2, <1>3 DEF SkipInv, SkipsFailed, Pinned
<1>6. SharedInv' /\ PickInv' /\ OwnSelectionUsesSharedPick'
  BY <1>2, <1>3 DEF SharedInv, PickInv, OwnSelectionUsesSharedPick, Keeps, Table
<1> QED
  BY <1>1, <1>4, <1>5, <1>6

(* A call ends; a failure is recorded, and takes picks and promises away.    *)
LEMMA FinishInv ==
  ASSUME IInv, NEW c \in Calls, Succeed(c) \/ Fail(c)
  PROVE  IInv'
<1> USE Constants DEF IInv
<1>1. pc' = [pc EXCEPT ![c] = "idle"] /\ base' = [base EXCEPT ![c] = None]
      /\ UNCHANGED <<clock, selecting, joined>>
  BY DEF Succeed, Fail, Finish
<1>2. avoid' = avoid /\ clean' \in [Calls -> SUBSET Bases] /\ \A d \in Calls : clean'[d] \subseteq clean[d]
  BY DEF Succeed, Fail, ReportFailure, HistoryReport, historyVars, TypeOK, HistoryTypeOK
<1>3. shared' \in [Calls -> BOOLEAN]
      /\ \A d \in Calls : shared'[d] => shared[d] /\ picked'[Table(d)] = picked[Table(d)]
  <2>1. CASE UNCHANGED <<picked, historyVars>>
    BY <2>1 DEF historyVars, TypeOK, HistoryTypeOK
  <2>2. CASE Fail(c) /\ ~Pinned(c)
    <3>1. /\ picked' = [picked EXCEPT ![Table(c)] = None]
          /\ shared' = [d \in Calls |-> shared[d] /\ d \notin SameTable(Table(c))]
      BY <2>2 DEF Fail, ReportFailure, HistoryReport
    <3>2. \A d \in Calls : shared'[d] => shared[d] /\ Table(d) # Table(c)
      BY <3>1 DEF SameTable
    <3> QED
      BY <3>1, <3>2 DEF TypeOK
  <2> QED
    BY <2>1, <2>2 DEF Succeed, Fail, ReportFailure
<1>4. TypeOK'
  <2>1. picked' \in [Tables -> Pick \cup {None}] /\ penalisedAt' \in [Bases -> Time \cup {None}]
    BY DEF Succeed, Fail, ReportFailure, TypeOK
  <2> QED
    BY <1>1, <1>2, <1>3, <2>1 DEF TypeOK, HistoryTypeOK
<1>5. \A d \in Calls : pc'[d] # "idle" => pc'[d] = pc[d] /\ base'[d] = base[d] /\ d # c
  BY <1>1 DEF TypeOK
<1>6. NoAwaiterIsStranded' /\ AwaitsInv' /\ FlightInv'
  BY <1>1, <1>5 DEF NoAwaiterIsStranded, AwaitsInv, FlightInv, Pinned
<1>7. EndpointInv'
  BY <1>1 DEF EndpointInv, Pinned, Table, TypeOK
<1>8. SkipInv'
  <2> SUFFICES ASSUME NEW d \in Calls, pc'[d] # "idle"
               PROVE  SkipInv!(d)'
    BY DEF SkipInv
  <2> QED
    BY <1>1, <1>2, <1>5 DEF SkipInv, SkipsFailed, Pinned
<1>9. SharedInv' /\ OwnSelectionUsesSharedPick'
  BY <1>1, <1>2, <1>3, <1>5 DEF SharedInv, OwnSelectionUsesSharedPick, Keeps, Table
<1>10. PickInv'
  BY DEF Succeed, Fail, ReportFailure, PickInv, TypeOK
<1> QED
  BY <1>10, <1>4, <1>6, <1>7, <1>8, <1>9

LEMMA TickInv == IInv /\ Tick => IInv'
<1> SUFFICES ASSUME IInv, Tick PROVE IInv'
  OBVIOUS
<1> USE DEF IInv, Tick, HistoryTick
<1>1. TypeOK'
  BY TsTablesAssumption DEF TypeOK, HistoryTypeOK, Time
<1>2. NoAwaiterIsStranded' /\ AwaitsInv' /\ FlightInv' /\ EndpointInv' /\ PickInv' /\ SharedInv'
  BY DEF NoAwaiterIsStranded, AwaitsInv, FlightInv, EndpointInv, PickInv, SharedInv, Pinned, Table
<1>3. SkipInv'
  BY DEF SkipInv, SkipsFailed, Pinned, TypeOK, HistoryTypeOK
<1>4. \A d \in Calls : Keeps(d, picked[Table(d)], TTL, clock)' => Keeps(d, picked[Table(d)], TTL, clock)
  <2> SUFFICES ASSUME NEW d \in Calls, shared[d], clock' - picked[Table(d)].at < TTL
               PROVE  clock - picked[Table(d)].at < TTL
    BY DEF Keeps, Table
  <2>1. picked[Table(d)] \in Pick
    BY Constants DEF SharedInv, TypeOK
  <2> QED
    BY <2>1, TsTablesAssumption DEF TypeOK, Pick, Time
<1>5. OwnSelectionUsesSharedPick'
  BY <1>4 DEF OwnSelectionUsesSharedPick, Table
<1> QED
  BY <1>1, <1>2, <1>3, <1>5

LEMMA NextInv == IInv /\ [Next]_vars => IInv'
<1> SUFFICES ASSUME IInv, [Next]_vars PROVE IInv'
  OBVIOUS
<1>1. CASE UNCHANGED vars
  BY <1>1 DEF vars, historyVars, IInv, TypeOK, HistoryTypeOK, NoAwaiterIsStranded, AwaitsInv,
              FlightInv, EndpointInv, SkipInv, SkipsFailed, PickInv, SharedInv,
              OwnSelectionUsesSharedPick, Keeps, Pinned, Table
<1> QED
  BY <1>1, CurrentInv, ProbedInv, ClearInv, ResumeInv, FinishInv, TickInv DEF Next

(* The invariant is one of the specification.                               *)
THEOREM Inductive == Spec => []IInv
BY InitInv, NextInv, PTL DEF Spec
-----------------------------------------------------------------------------
(* The states of the selectors are those of the type invariant, for every    *)
(* number of calls, clients, tables and regions.                            *)
THEOREM Typing == Spec => []TypeOK
<1>1. IInv => TypeOK
  BY DEF IInv
<1> QED
  BY <1>1, Inductive, PTL

(* A client never forgets its promise, or starts another, under a call that  *)
(* awaits it: the callback that forgets it resumes every caller.            *)
THEOREM NobodyIsStranded == Spec => []NoAwaiterIsStranded
<1>1. IInv => NoAwaiterIsStranded
  BY DEF IInv
<1> QED
  BY <1>1, Inductive, PTL

(* A call that starts the selection it awaits uses the pick that every       *)
(* client shares, if that has been good since the call began.               *)
THEOREM Shares == Spec => []OwnSelectionUsesSharedPick
<1>1. IInv => OwnSelectionUsesSharedPick
  BY DEF IInv
<1> QED
  BY <1>1, Inductive, PTL

(* ... and goes to no region that was penalised all along if another one was *)
(* healthy all along.                                                       *)
THEOREM Skips == Spec => OwnSelectionSkipsFailedRegions
<1>1. IInv /\ [Next]_vars =>
        [\A c \in Calls : Chooses(c) /\ ~joined[c] => SkipsFailed(c, base'[c])]_vars
  <2> SUFFICES ASSUME IInv, Next, NEW c \in Calls, Chooses(c), ~joined[c]
               PROVE  SkipsFailed(c, base'[c])
    BY DEF vars
  <2>1. SkipsFailed(c, base[c])
    BY DEF IInv, SkipInv, Chooses
  <2>2. base'[c] = base[c]
    BY DEF Chooses, Next, Current, Resume, Succeed, Fail, Finish, Probed, Settle, Clear, Tick,
           IInv, TypeOK
  <2> QED
    BY <2>1, <2>2
<1> QED
  BY <1>1, Inductive, PTL DEF Spec, OwnSelectionSkipsFailedRegions
=============================================================================

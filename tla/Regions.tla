------------------------------- MODULE Regions -------------------------------
(***************************************************************************)
(* Region selection and failover of the Rust SDK (rust/src/regions.rs).    *)
(*                                                                         *)
(* A process holds one table of picks and one of penalties, shared by all  *)
(* its clients behind a std mutex; a client serialises its own selections  *)
(* with a tokio mutex that it keeps across the probes.  The calls run on   *)
(* the threads of a runtime, so the steps of two calls interleave wherever *)
(* the process mutex is free, and a call's future can be dropped at any of *)
(* its awaits.                                                             *)
(*                                                                         *)
(* Abstracted: a probe's elapsed time (any of the regions that answered may*)
(* be the fastest); region names (a table is the set of its base URLs, its *)
(* key the table itself); what is sent to the chosen base (Succeed covers  *)
(* a whole operation, polls included: they go to the same base).           *)
(***************************************************************************)
EXTENDS Integers, CallHistory

CONSTANTS Clients,      \* the clients of the process
          Tables,       \* the region tables they were configured with
          ClientOf,     \* the client a call is made on
          TableOf,      \* the table of a client
          BasesOf,      \* the bases of a table
          Fallback,     \* RegionPolicy.fallback of a table
          First,        \* of a set of bases, the first in the table's order
          Pin,          \* the base a client is pinned to, or None
          TTL,          \* cache_ttl, in ticks
          Penalty,      \* failover_penalty, in ticks
          MaxTime,      \* the clock stops here
          None          \* no pick, no time, no call, no base

Time == 0 .. MaxTime
Pick == [base : Bases, at : Time]

ASSUME TablesAssumption ==
  /\ ClientOf \in [Calls -> Clients]
  /\ TableOf \in [Clients -> Tables]
  /\ BasesOf \in [Tables -> (SUBSET Bases) \ {{}}]
  /\ Pin \in [Clients -> Bases \cup {None}]
ASSUME ChoiceAssumption ==
  /\ \A t \in Tables : Fallback[t] \in BasesOf[t]
  /\ \A s \in (SUBSET Bases) \ {{}} : First[s] \in s
ASSUME TimeAssumption == TTL \in Nat /\ Penalty \in Nat /\ MaxTime \in Nat
ASSUME NoneAssumption == None \notin Calls \cup Bases \cup Int \cup Pick

VARIABLES clock,        \* Instant::now()
          picked,       \* ProcessRegions.picked, by table
          penalisedAt,  \* ProcessRegions.penalised_at, by base
          selecting,    \* who holds a client's `selecting` mutex
          pc,           \* how far a call is
          now,          \* select's local `now`
          candidates,   \* select's local `candidates`
          base          \* the base a call goes on with

processVars == <<picked, penalisedAt>>
localVars == <<now, candidates>>
vars == <<clock, processVars, selecting, pc, localVars, base, historyVars>>

Table(c) == TableOf[ClientOf[c]]
Pinned(c) == Pin[ClientOf[c]] # None
SameTable(c) == {d \in Calls : Table(d) = Table(c)}
-----------------------------------------------------------------------------
(* Instant::duration_since saturates: an instant not yet reached is 0 old.  *)
Elapsed(t, since) == IF t > since THEN t - since ELSE 0

(* Mutant: a penalty lasts as long as a pick.                               *)
HealthyAfterTTL(b, t) == penalisedAt[b] = None \/ Elapsed(t, penalisedAt[b]) > TTL

Healthy(b, t) ==
  \/ penalisedAt[b] = None
  \/ Elapsed(t, penalisedAt[b]) > Penalty

Penalised == {b \in Bases : ~Healthy(b, clock)}

(* candidates(): the healthy bases of the table, or everyone if there is none. *)
Candidates(t, at) ==
  LET healthy == {b \in BasesOf[t] : Healthy(b, at)}
  IN  IF healthy = {} THEN BasesOf[t] ELSE healthy

(* Mutants: a pick is not looked up among the candidates; it expires early. *)
UsableAnywhere(pick, among, at) == pick # None /\ Elapsed(at, pick.at) < TTL

UsableForPenalty(pick, among, at) ==
  pick # None /\ pick.base \in among /\ Elapsed(at, pick.at) < Penalty

(* cached(): the pick may be used by a selection that read the time at.     *)
Usable(pick, among, at) ==
  /\ pick # None
  /\ pick.base \in among
  /\ Elapsed(at, pick.at) < TTL

FallbackOf(t, among) == IF Fallback[t] \in among THEN Fallback[t] ELSE First[among]
-----------------------------------------------------------------------------
Init ==
  /\ clock = 0
  /\ picked = [t \in Tables |-> None]
  /\ penalisedAt = [b \in Bases |-> None]
  /\ selecting = [k \in Clients |-> None]
  /\ pc = [c \in Calls |-> "idle"]
  /\ now = [c \in Calls |-> 0]
  /\ candidates = [c \in Calls |-> {}]
  /\ base = [c \in Calls |-> None]
  /\ HistoryInit

(* An operation of the client asks for its base URL.                        *)
Begin(c) ==
  /\ pc[c] = "idle"
  /\ pc' = [pc EXCEPT ![c] = "asking"]
  /\ HistoryBegin(c, BasesOf[Table(c)], Penalised, picked[Table(c)] # None)
  /\ UNCHANGED <<clock, processVars, selecting, localVars, base>>

(* Mutant: the mutex is kept after the selection.                           *)
GoOnLocked(c, b, readers) ==
  /\ pc' = [pc EXCEPT ![c] = "sending"]
  /\ base' = [base EXCEPT ![c] = b]
  /\ now' = [now EXCEPT ![c] = 0]
  /\ candidates' = [candidates EXCEPT ![c] = {}]
  /\ HistoryEnd(c, readers)
  /\ UNCHANGED selecting

(* `current` returns b: the guard of the mutex, if held, is dropped, and    *)
(* the locals of the selection with it.                                     *)
GoOnWith(c, b, readers) ==
  /\ pc' = [pc EXCEPT ![c] = "sending"]
  /\ base' = [base EXCEPT ![c] = b]
  /\ selecting' = [k \in Clients |-> IF selecting[k] = c THEN None ELSE selecting[k]]
  /\ now' = [now EXCEPT ![c] = 0]
  /\ candidates' = [candidates EXCEPT ![c] = {}]
  /\ HistoryEnd(c, readers)

UsePin(c) ==
  /\ pc[c] = "asking"
  /\ Pinned(c)
  /\ GoOnWith(c, Pin[ClientOf[c]], {})
  /\ UNCHANGED <<clock, processVars>>

(* Mutant: selections of a client are not serialised.                       *)
AcquireFreely(c) ==
  /\ pc[c] = "asking"
  /\ ~Pinned(c)
  /\ selecting' = [selecting EXCEPT ![ClientOf[c]] = c]
  /\ now' = [now EXCEPT ![c] = clock]
  /\ pc' = [pc EXCEPT ![c] = "filtering"]
  /\ UNCHANGED <<clock, processVars, candidates, base, historyVars>>

(* The mutex is acquired and `select` reads the time.                       *)
Acquire(c) ==
  /\ pc[c] = "asking"
  /\ ~Pinned(c)
  /\ selecting[ClientOf[c]] = None
  /\ selecting' = [selecting EXCEPT ![ClientOf[c]] = c]
  /\ now' = [now EXCEPT ![c] = clock]
  /\ pc' = [pc EXCEPT ![c] = "filtering"]
  /\ UNCHANGED <<clock, processVars, candidates, base, historyVars>>

(* First visit to the process mutex: the candidates.  An only candidate is  *)
(* returned without probing it and without recording it as the pick.        *)
Filter(c) ==
  LET among == Candidates(Table(c), now[c]) IN
  /\ pc[c] = "filtering"
  /\ \/ /\ \E only \in among : among = {only} /\ GoOnWith(c, only, {})
        /\ UNCHANGED <<clock, processVars>>
     \/ /\ \A only \in among : among # {only}
        /\ candidates' = [candidates EXCEPT ![c] = among]
        /\ pc' = [pc EXCEPT ![c] = "looking"]
        /\ UNCHANGED <<clock, processVars, selecting, now, base, historyVars>>

(* Second visit: the shared pick, if it is fresh and still a candidate.     *)
LookUp(c) ==
  /\ pc[c] = "looking"
  /\ \/ /\ Usable(picked[Table(c)], candidates[c], now[c])
        /\ GoOnWith(c, picked[Table(c)].base, {})
        /\ UNCHANGED <<clock, processVars>>
     \/ /\ ~Usable(picked[Table(c)], candidates[c], now[c])
        /\ pc' = [pc EXCEPT ![c] = "probing"]
        /\ UNCHANGED <<clock, processVars, selecting, localVars, base, historyVars>>

(* Mutant: the fallback is taken whether or not it is penalised.            *)
StoreFallback(c, reachable) ==
  /\ pc[c] = "probing"
  /\ \E b \in IF reachable = {} THEN {Fallback[Table(c)]} ELSE reachable :
       /\ picked' = [picked EXCEPT ![Table(c)] = [base |-> b, at |-> now[c]]]
       /\ GoOnWith(c, b, SameTable(c))
  /\ UNCHANGED <<clock, penalisedAt>>

(* The probes have all ended and `reachable` answered: the fastest of them, *)
(* or the fallback, becomes the pick as of the time read before the probes. *)
Store(c, reachable) ==
  /\ pc[c] = "probing"
  /\ \E b \in IF reachable = {} THEN {FallbackOf(Table(c), candidates[c])} ELSE reachable :
       /\ picked' = [picked EXCEPT ![Table(c)] = [base |-> b, at |-> now[c]]]
       /\ GoOnWith(c, b, SameTable(c))
  /\ UNCHANGED <<clock, penalisedAt>>

Probed(c) == \E reachable \in SUBSET candidates[c] : Store(c, reachable)

(* The operation ends without a transient error.                            *)
Succeed(c) ==
  /\ pc[c] = "sending"
  /\ pc' = [pc EXCEPT ![c] = "idle"]
  /\ base' = [base EXCEPT ![c] = None]
  /\ UNCHANGED <<clock, processVars, selecting, localVars, historyVars>>

(* Mutants: a penalty is kept as the time it ends; a pin is penalised too.  *)
ReportFailureUntil(c, b) ==
  IF Pinned(c)
  THEN UNCHANGED <<processVars, historyVars>>
  ELSE /\ penalisedAt' = [penalisedAt EXCEPT ![b] = clock + Penalty]
       /\ picked' = [picked EXCEPT ![Table(c)] = None]
       /\ HistoryReport(b, SameTable(c))

ReportFailureOfAny(c, b) ==
  /\ penalisedAt' = [penalisedAt EXCEPT ![b] = clock]
  /\ picked' = [picked EXCEPT ![Table(c)] = None]
  /\ HistoryReport(b, SameTable(c))

(* report_failure(b), called on the client of call c.                       *)
ReportFailure(c, b) ==
  IF Pinned(c)
  THEN UNCHANGED <<processVars, historyVars>>
  ELSE /\ penalisedAt' = [penalisedAt EXCEPT ![b] = clock]
       /\ picked' = [picked EXCEPT ![Table(c)] = None]
       /\ HistoryReport(b, SameTable(c))

(* The request to the base fails for good with a transient error.           *)
Fail(c) ==
  /\ pc[c] = "sending"
  /\ ReportFailure(c, base[c])
  /\ pc' = [pc EXCEPT ![c] = "idle"]
  /\ base' = [base EXCEPT ![c] = None]
  /\ UNCHANGED <<clock, selecting, localVars>>

(* The future of the call is dropped while it waits for the mutex, for the  *)
(* probes or for the response; the mutex guard is dropped with it.          *)
Drop(c) ==
  /\ pc[c] \in {"asking", "probing", "sending"}
  /\ pc' = [pc EXCEPT ![c] = "idle"]
  /\ selecting' = [k \in Clients |-> IF selecting[k] = c THEN None ELSE selecting[k]]
  /\ now' = [now EXCEPT ![c] = 0]
  /\ candidates' = [candidates EXCEPT ![c] = {}]
  /\ base' = [base EXCEPT ![c] = None]
  /\ HistoryEnd(c, {})
  /\ UNCHANGED <<clock, processVars>>

Tick ==
  /\ clock < MaxTime
  /\ clock' = clock + 1
  /\ HistoryTick({b \in Bases : ~Healthy(b, clock + 1)})
  /\ UNCHANGED <<processVars, selecting, pc, localVars, base>>

Select(c) == UsePin(c) \/ Filter(c) \/ LookUp(c) \/ Probed(c)

Next ==
  \/ \E c \in Calls : \/ Begin(c) \/ Acquire(c) \/ Select(c)
                      \/ Succeed(c) \/ Fail(c) \/ Drop(c)
  \/ Tick

Spec == Init /\ [][Next]_vars

(* The runtime polls every ready future; probes end by their own timeout;   *)
(* tokio's mutex hands itself to its waiters in the order they came.        *)
Fairness == \A c \in Calls : WF_vars(Select(c)) /\ SF_vars(Acquire(c))

FairSpec == Spec /\ Fairness
-----------------------------------------------------------------------------
TypeOK ==
  /\ clock \in Time
  /\ picked \in [Tables -> Pick \cup {None}]
  /\ penalisedAt \in [Bases -> Time \cup {None}]
  /\ selecting \in [Clients -> Calls \cup {None}]
  /\ pc \in [Calls -> {"idle", "asking", "filtering", "looking", "probing", "sending"}]
  /\ now \in [Calls -> Time]
  /\ candidates \in [Calls -> SUBSET Bases]
  /\ base \in [Calls -> Bases \cup {None}]
  /\ HistoryTypeOK

(* The step gives call c, which its client routes, its endpoint.            *)
Chooses(c) == pc[c] # "sending" /\ pc'[c] = "sending" /\ ~Pinned(c)

(* "A region that fails a request is skipped for 5 minutes by later calls"  *)
(* (README.md:85): whatever the other calls report and pick meanwhile, a    *)
(* call does not get a region that has been penalised ever since the call   *)
(* began, as long as another region of its table was never penalised.       *)
SkipsFailedRegions == [][\A c \in Calls : Chooses(c) => SkipsFailed(c, base'[c])]_vars

(* A pick is shared by "every client in the process for 6 hours"            *)
(* (README.md:85): a call uses, and leaves in place, a pick that has been   *)
(* good since the call began, even if it waited behind a slow selection.    *)
UsesSharedPick ==
  [][\A c \in Calls :
       LET pick == picked[Table(c)] IN
       Chooses(c) /\ Keeps(c, pick, TTL, clock)
         => base'[c] = pick.base /\ picked'[Table(c)] = pick]_vars

(* No region is given up for longer than the penalty: a selection leaves a  *)
(* region out only because of a failure at most Penalty before it began, or *)
(* one reported since.                                                      *)
LeftOutOnlyWhilePenalised ==
  \A c \in Calls : pc[c] \in {"looking", "probing"} =>
    \A b \in BasesOf[Table(c)] \ candidates[c] :
      penalisedAt[b] # None /\ now[c] - penalisedAt[b] <= Penalty

Selectors(t) == {k \in Clients : Pin[k] = None /\ TableOf[k] = t}

(* Because a client holds its mutex across the probes, a pick is replaced   *)
(* by the result of an earlier selection only if two clients choose from it. *)
OlderPickOnlyFromAnotherClient ==
  [][\A t \in Tables :
       /\ picked[t] # None /\ picked'[t] # None
       /\ picked'[t].at < picked[t].at
       => \E k, m \in Selectors(t) : k # m]_vars

(* "A pinned region is never probed and never abandoned"                    *)
(* (contract/contract.json:119): a pinned client stays on its base, and the *)
(* failures it meets are not held against a base no other client selects.   *)
PinnedNeverAbandoned ==
  /\ \A c \in Calls : Pinned(c) => base[c] \in {None, Pin[ClientOf[c]]}
  /\ \A b \in Bases : penalisedAt[b] # None =>
       \E c \in Calls : ~Pinned(c) /\ b \in BasesOf[Table(c)]

(* A call that asks for its base gets it, however many wait for the mutex   *)
(* and however many are dropped while they hold it.                         *)
EveryCallIsPlaced ==
  \A c \in Calls : pc[c] = "asking" ~> pc[c] \in {"sending", "idle"}

(* The selection, with its mutexes, visits and probes, is one step of       *)
(* Failover: the step that gives the call its endpoint.                     *)
Phase == [c \in Calls |-> IF pc[c] \in {"filtering", "looking", "probing"}
                          THEN "asking" ELSE pc[c]]

Promise == INSTANCE Failover WITH
  TableOf <- [c \in Calls |-> Table(c)],
  Pin <- [c \in Calls |-> Pin[ClientOf[c]]],
  phase <- Phase

ImplementsFailover == Promise!Spec
=============================================================================

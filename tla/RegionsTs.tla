------------------------------ MODULE RegionsTs ------------------------------
(***************************************************************************)
(* Region selection and failover of the TypeScript SDK                     *)
(* (typescript/src/regions.ts).                                            *)
(*                                                                         *)
(* One thread: the code between two awaits is one step.  A client has no   *)
(* lock; its calls join the selection in flight by awaiting one shared     *)
(* promise, `selecting`, which a `finally` callback clears one microtask   *)
(* after the selection returns and before the callers that await it resume.*)
(* Promises cannot be cancelled.  The same data is abstracted as in        *)
(* Regions.                                                                *)
(***************************************************************************)
EXTENDS Integers, CallHistory

CONSTANTS Clients, Tables, ClientOf, TableOf, BasesOf,
          Preferred,    \* the base of DEFAULT_REGION in a table, None if it has none
          First,        \* of a set of bases, the first in the table's order
          Pin, TTL, Penalty, MaxTime, None

Time == 0 .. MaxTime
Pick == [base : Bases, at : Time]
(* The promise `selecting`: the select() behind it awaits its probes, or has *)
(* returned.  `since` is when it was started.                               *)
Flight == [stage : {"probing"}, since : Time, candidates : SUBSET Bases]
          \cup [stage : {"settled"}, since : Time, base : Bases]

ASSUME TsTablesAssumption ==
  /\ ClientOf \in [Calls -> Clients]
  /\ TableOf \in [Clients -> Tables]
  /\ BasesOf \in [Tables -> (SUBSET Bases) \ {{}}]
  /\ Pin \in [Clients -> Bases \cup {None}]
  /\ \A t \in Tables : Preferred[t] \in BasesOf[t] \cup {None}
  /\ \A s \in (SUBSET Bases) \ {{}} : First[s] \in s
  /\ TTL \in Nat /\ Penalty \in Nat /\ MaxTime \in Nat
ASSUME TsNoneAssumption == None \notin Bases \cup Int \cup Pick \cup Flight

VARIABLES clock,        \* performance.now()
          picked,       \* the module's `picked`
          penalisedAt,  \* the module's `penalisedAt`
          selecting,    \* each client's `selecting`
          pc,           \* how far a call is
          base,         \* the base a call goes on with
          joined        \* history: the call joined a selection already in flight

vars == <<clock, picked, penalisedAt, selecting, pc, base, joined, historyVars>>

Table(c) == TableOf[ClientOf[c]]
Pinned(c) == Pin[ClientOf[c]] # None
SameTable(t) == {d \in Calls : Table(d) = t}
-----------------------------------------------------------------------------
Healthy(b, t) == penalisedAt[b] = None \/ t - penalisedAt[b] > Penalty
Penalised == {b \in Bases : ~Healthy(b, clock)}

Candidates(t) ==
  LET healthy == {b \in BasesOf[t] : Healthy(b, clock)}
  IN  IF healthy = {} THEN BasesOf[t] ELSE healthy

(* Mutants: a pick is not looked up among the candidates; it expires early. *)
CachedAnywhere(t) == picked[t] # None /\ clock - picked[t].at < TTL

CachedForPenalty(t) ==
  /\ picked[t] # None
  /\ clock - picked[t].at < Penalty
  /\ picked[t].base \in Candidates(t)

CachedPick(t) ==
  /\ picked[t] # None
  /\ clock - picked[t].at < TTL
  /\ picked[t].base \in Candidates(t)

FallbackOf(t, among) == IF Preferred[t] \in among THEN Preferred[t] ELSE First[among]

(* select(), up to its only await: it settles at once with an only candidate *)
(* or with the shared pick, or waits for the probes of the candidates.      *)
Selection(t) ==
  LET among == Candidates(t) IN
  IF \E only \in among : among = {only}
  THEN [stage |-> "settled", since |-> clock, base |-> First[among]]
  ELSE IF CachedPick(t)
  THEN [stage |-> "settled", since |-> clock, base |-> picked[t].base]
  ELSE [stage |-> "probing", since |-> clock, candidates |-> among]
-----------------------------------------------------------------------------
Init ==
  /\ clock = 0
  /\ picked = [t \in Tables |-> None]
  /\ penalisedAt = [b \in Bases |-> None]
  /\ selecting = [k \in Clients |-> None]
  /\ pc = [c \in Calls |-> "idle"]
  /\ base = [c \in Calls |-> None]
  /\ joined = [c \in Calls |-> FALSE]
  /\ HistoryInit

(* An operation calls current() and awaits what it returns.                 *)
Current(c) ==
  LET k == ClientOf[c] IN
  /\ pc[c] = "idle"
  /\ HistoryBegin(c, BasesOf[Table(c)], Penalised, picked[Table(c)] # None)
  /\ joined' = [joined EXCEPT ![c] = ~Pinned(c) /\ selecting[k] # None]
  /\ \/ /\ Pinned(c)
        /\ pc' = [pc EXCEPT ![c] = "resumable"]
        /\ base' = [base EXCEPT ![c] = Pin[k]]
        /\ UNCHANGED selecting
     \/ /\ ~Pinned(c)
        /\ selecting' = [selecting EXCEPT ![k] = IF @ = None THEN Selection(Table(c)) ELSE @]
        /\ pc' = [pc EXCEPT ![c] = "awaiting"]
        /\ UNCHANGED base
  /\ UNCHANGED <<clock, picked, penalisedAt>>

(* Mutant: select() itself forgets the promise, before it settles.          *)
SettleForgetting(k, reachable) ==
  LET t == TableOf[k]
      flight == selecting[k]
  IN  /\ \E b \in IF reachable = {} THEN {FallbackOf(t, flight.candidates)} ELSE reachable :
           picked' = [picked EXCEPT ![t] = [base |-> b, at |-> flight.since]]
      /\ selecting' = [selecting EXCEPT ![k] = None]
      /\ shared' = [d \in Calls |-> shared[d] /\ d \notin SameTable(t)]
      /\ UNCHANGED <<clock, penalisedAt, pc, base, joined, avoid, clean>>

(* The probes of client k have ended and `reachable` answered: the fastest  *)
(* of them, or the fallback, is the pick as of the time select() began.     *)
Settle(k, reachable) ==
  LET t == TableOf[k]
      flight == selecting[k]
  IN  /\ \E b \in IF reachable = {} THEN {FallbackOf(t, flight.candidates)} ELSE reachable :
           /\ picked' = [picked EXCEPT ![t] = [base |-> b, at |-> flight.since]]
           /\ selecting' = [selecting EXCEPT ![k] =
                              [stage |-> "settled", since |-> flight.since, base |-> b]]
      /\ shared' = [d \in Calls |-> shared[d] /\ d \notin SameTable(t)]
      /\ UNCHANGED <<clock, penalisedAt, pc, base, joined, avoid, clean>>

Probed(k) ==
  /\ selecting[k] # None
  /\ selecting[k].stage = "probing"
  /\ \E reachable \in SUBSET selecting[k].candidates : Settle(k, reachable)

(* Mutant: only the caller that started the selection is resumed.           *)
ClearForOne(k) ==
  LET waiters == {c \in Calls : ClientOf[c] = k /\ pc[c] = "awaiting" /\ ~joined[c]} IN
  /\ selecting[k] # None
  /\ selecting[k].stage = "settled"
  /\ selecting' = [selecting EXCEPT ![k] = None]
  /\ pc' = [c \in Calls |-> IF c \in waiters THEN "resumable" ELSE pc[c]]
  /\ base' = [c \in Calls |-> IF c \in waiters THEN selecting[k].base ELSE base[c]]
  /\ UNCHANGED <<clock, picked, penalisedAt, joined, historyVars>>

(* The finally callback forgets the promise; its callers become resumable.  *)
Clear(k) ==
  LET waiters == {c \in Calls : ClientOf[c] = k /\ pc[c] = "awaiting"} IN
  /\ selecting[k] # None
  /\ selecting[k].stage = "settled"
  /\ selecting' = [selecting EXCEPT ![k] = None]
  /\ pc' = [c \in Calls |-> IF c \in waiters THEN "resumable" ELSE pc[c]]
  /\ base' = [c \in Calls |-> IF c \in waiters THEN selecting[k].base ELSE base[c]]
  /\ UNCHANGED <<clock, picked, penalisedAt, joined, historyVars>>

(* The call resumes after its await and sends its request.                  *)
Resume(c) ==
  /\ pc[c] = "resumable"
  /\ pc' = [pc EXCEPT ![c] = "sending"]
  /\ joined' = [joined EXCEPT ![c] = FALSE]
  /\ HistoryEnd(c, {})
  /\ UNCHANGED <<clock, picked, penalisedAt, selecting, base>>

Finish(c) ==
  /\ pc[c] = "sending"
  /\ pc' = [pc EXCEPT ![c] = "idle"]
  /\ base' = [base EXCEPT ![c] = None]
  /\ UNCHANGED <<clock, selecting, joined>>

Succeed(c) == Finish(c) /\ UNCHANGED <<picked, penalisedAt, historyVars>>

(* Mutant: a penalty is kept as the time it ends.                           *)
ReportFailureUntil(c, b) ==
  IF Pinned(c)
  THEN UNCHANGED <<picked, penalisedAt, historyVars>>
  ELSE /\ penalisedAt' = [penalisedAt EXCEPT ![b] = clock + Penalty]
       /\ picked' = [picked EXCEPT ![Table(c)] = None]
       /\ HistoryReport(b, SameTable(Table(c)))

ReportFailure(c, b) ==
  IF Pinned(c)
  THEN UNCHANGED <<picked, penalisedAt, historyVars>>
  ELSE /\ penalisedAt' = [penalisedAt EXCEPT ![b] = clock]
       /\ picked' = [picked EXCEPT ![Table(c)] = None]
       /\ HistoryReport(b, SameTable(Table(c)))

Fail(c) == Finish(c) /\ ReportFailure(c, base[c])

Tick ==
  /\ clock < MaxTime
  /\ clock' = clock + 1
  /\ HistoryTick({b \in Bases : ~Healthy(b, clock + 1)})
  /\ UNCHANGED <<picked, penalisedAt, selecting, pc, base, joined>>

Next ==
  \/ \E c \in Calls : Current(c) \/ Resume(c) \/ Succeed(c) \/ Fail(c)
  \/ \E k \in Clients : Probed(k) \/ Clear(k)
  \/ Tick

Spec == Init /\ [][Next]_vars

(* Probes end by their own timeout, and the event loop runs every callback. *)
Fairness ==
  /\ \A c \in Calls : WF_vars(Resume(c))
  /\ \A k \in Clients : WF_vars(Probed(k)) /\ WF_vars(Clear(k))

FairSpec == Spec /\ Fairness
-----------------------------------------------------------------------------
TypeOK ==
  /\ clock \in Time
  /\ picked \in [Tables -> Pick \cup {None}]
  /\ penalisedAt \in [Bases -> Time \cup {None}]
  /\ selecting \in [Clients -> Flight \cup {None}]
  /\ pc \in [Calls -> {"idle", "awaiting", "resumable", "sending"}]
  /\ base \in [Calls -> Bases \cup {None}]
  /\ joined \in [Calls -> BOOLEAN]
  /\ HistoryTypeOK

Chooses(c) == pc[c] = "resumable" /\ pc'[c] = "sending" /\ ~Pinned(c)

(* "A region that fails a request is skipped for 5 minutes by later calls"  *)
(* (README.md:85), as Regions states it.                                    *)
SkipsFailedRegions == [][\A c \in Calls : Chooses(c) => SkipsFailed(c, base'[c])]_vars

(* It holds of the calls that start the selection they await.               *)
OwnSelectionSkipsFailedRegions ==
  [][\A c \in Calls : Chooses(c) /\ ~joined[c] => SkipsFailed(c, base'[c])]_vars

(* A pick is shared by "every client in the process for 6 hours"            *)
(* (README.md:85): a call uses a pick that has been good since the call     *)
(* began, unless it joined a selection that began before it.                *)
OwnSelectionUsesSharedPick ==
  \A c \in Calls :
    LET pick == picked[Table(c)]
        flight == selecting[ClientOf[c]]
    IN  pc[c] = "awaiting" /\ ~joined[c] /\ Keeps(c, pick, TTL, clock) =>
          flight.stage = "settled" /\ flight.base = pick.base

(* Every call that awaits `selecting` awaits a promise that will settle: the *)
(* client never clears it, or starts another, under a call that waits.      *)
NoAwaiterIsStranded ==
  \A c \in Calls : pc[c] = "awaiting" => selecting[ClientOf[c]] # None

(* Every call gets its endpoint.                                            *)
EveryCallIsPlaced ==
  \A c \in Calls : pc[c] = "awaiting" ~> pc[c] = "sending"
=============================================================================

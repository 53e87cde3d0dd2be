------------------------------- MODULE Failover ------------------------------
(***************************************************************************)
(* What every SDK promises about the endpoint of a call (README.md:81-85), *)
(* whatever the locks, promises and probes it is done with: one step       *)
(* chooses the endpoint.  A call keeps a pick that has been in place, fresh*)
(* and unpenalised since the call began; failing that it goes to a region  *)
(* of its table, and not to one penalised all along if another has been    *)
(* healthy all along.                                                      *)
(***************************************************************************)
EXTENDS Integers, CallHistory

CONSTANTS Tables, TableOf, BasesOf, Pin, TTL, Penalty, MaxTime, None

VARIABLES clock, picked, penalisedAt, phase, base

vars == <<clock, picked, penalisedAt, phase, base, historyVars>>

Rivals(c) == {d \in Calls : TableOf[d] = TableOf[c]}
Penalised(t) ==
  {b \in Bases : penalisedAt[b] # None /\ t - penalisedAt[b] <= Penalty}

Init ==
  /\ clock = 0
  /\ picked = [t \in Tables |-> None]
  /\ penalisedAt = [b \in Bases |-> None]
  /\ phase = [c \in Calls |-> "idle"]
  /\ base = [c \in Calls |-> None]
  /\ HistoryInit

Begin(c) ==
  /\ phase[c] = "idle"
  /\ phase' = [phase EXCEPT ![c] = "asking"]
  /\ HistoryBegin(c, BasesOf[TableOf[c]], Penalised(clock), picked[TableOf[c]] # None)
  /\ UNCHANGED <<clock, picked, penalisedAt, base>>

GoTo(c, b) ==
  /\ phase[c] = "asking"
  /\ phase' = [phase EXCEPT ![c] = "sending"]
  /\ base' = [base EXCEPT ![c] = b]
  /\ UNCHANGED <<clock, penalisedAt>>

MustKeep(c) == Keeps(c, picked[TableOf[c]], TTL, clock)

ChoosePin(c) ==
  /\ Pin[c] # None
  /\ GoTo(c, Pin[c])
  /\ HistoryEnd(c, {})
  /\ UNCHANGED picked

KeepPick(c) ==
  /\ Pin[c] = None
  /\ picked[TableOf[c]] # None
  /\ GoTo(c, picked[TableOf[c]].base)
  /\ SkipsFailed(c, picked[TableOf[c]].base)
  /\ HistoryEnd(c, {})
  /\ UNCHANGED picked

ChooseAnew(c, b) ==
  /\ Pin[c] = None
  /\ ~MustKeep(c)
  /\ GoTo(c, b)
  /\ SkipsFailed(c, b)
  /\ \/ /\ HistoryEnd(c, {})
        /\ UNCHANGED picked
     \/ /\ \E t \in 0 .. clock :
             picked' = [picked EXCEPT ![TableOf[c]] = [base |-> b, at |-> t]]
        /\ HistoryEnd(c, Rivals(c))

Choose(c) ==
  ChoosePin(c) \/ KeepPick(c) \/ \E b \in BasesOf[TableOf[c]] : ChooseAnew(c, b)

(* The call ends, or is given up, without a failure to report.              *)
End(c) ==
  /\ phase[c] \in {"asking", "sending"}
  /\ phase' = [phase EXCEPT ![c] = "idle"]
  /\ base' = [base EXCEPT ![c] = None]
  /\ HistoryEnd(c, {})
  /\ UNCHANGED <<clock, picked, penalisedAt>>

(* The region fails the request: skipped for a while, and picked afresh.    *)
Fail(c) ==
  /\ phase[c] = "sending"
  /\ phase' = [phase EXCEPT ![c] = "idle"]
  /\ base' = [base EXCEPT ![c] = None]
  /\ IF Pin[c] # None
     THEN UNCHANGED <<picked, penalisedAt, historyVars>>
     ELSE /\ penalisedAt' = [penalisedAt EXCEPT ![base[c]] = clock]
          /\ picked' = [picked EXCEPT ![TableOf[c]] = None]
          /\ HistoryReport(base[c], Rivals(c))
  /\ UNCHANGED clock

Tick ==
  /\ clock < MaxTime
  /\ clock' = clock + 1
  /\ HistoryTick(Penalised(clock + 1))
  /\ UNCHANGED <<picked, penalisedAt, phase, base>>

Next ==
  \/ \E c \in Calls : Begin(c) \/ Choose(c) \/ End(c) \/ Fail(c)
  \/ Tick

Spec == Init /\ [][Next]_vars
=============================================================================

----------------------------- MODULE CallHistory -----------------------------
(***************************************************************************)
(* What each call may rely on while it waits for an endpoint.              *)
(*                                                                         *)
(* The SDKs keep no such state: these are history variables.  They record, *)
(* for a call that is choosing its endpoint, how the process-wide penalties*)
(* and picks have stood since the call began, so that "a region that fails *)
(* a request is skipped for 5 minutes by later calls" and "shares that     *)
(* pick across every client in the process" (README.md:85) can be said of  *)
(* the step in which the call gets its endpoint.  Nothing the SDKs do      *)
(* depends on them.                                                        *)
(***************************************************************************)
EXTENDS Integers

CONSTANTS Calls,        \* the calls an application has in flight
          Bases         \* the base URLs of the regions

VARIABLES avoid,        \* the bases penalised at every moment since the call began
          clean,        \* the bases not penalised at any moment since it began
          shared        \* the pick in place when it began has stayed in place

historyVars == <<avoid, clean, shared>>

HistoryTypeOK ==
  /\ avoid \in [Calls -> SUBSET Bases]
  /\ clean \in [Calls -> SUBSET Bases]
  /\ shared \in [Calls -> BOOLEAN]

HistoryInit ==
  /\ avoid = [c \in Calls |-> {}]
  /\ clean = [c \in Calls |-> {}]
  /\ shared = [c \in Calls |-> FALSE]

(* Call c begins: it may use the bases of its table, some of them penalised.*)
HistoryBegin(c, table, penalised, hasPick) ==
  /\ avoid' = [avoid EXCEPT ![c] = table \cap penalised]
  /\ clean' = [clean EXCEPT ![c] = table \ penalised]
  /\ shared' = [shared EXCEPT ![c] = hasPick]

(* Call c has its endpoint, or gives up.  The calls in readers had been     *)
(* relying on a pick that this step replaces.                               *)
HistoryEnd(c, readers) ==
  /\ avoid' = [avoid EXCEPT ![c] = {}]
  /\ clean' = [clean EXCEPT ![c] = {}]
  /\ shared' = [d \in Calls |-> shared[d] /\ d # c /\ d \notin readers]

(* A failure of base b is recorded and the pick the readers rely on goes.   *)
HistoryReport(b, readers) ==
  /\ clean' = [c \in Calls |-> clean[c] \ {b}]
  /\ shared' = [c \in Calls |-> shared[c] /\ c \notin readers]
  /\ avoid' = avoid

(* Time passes: only the bases in penalised still are.                      *)
HistoryTick(penalised) ==
  /\ avoid' = [c \in Calls |-> avoid[c] \cap penalised]
  /\ UNCHANGED <<clean, shared>>

(***************************************************************************)
(* The two promises about the endpoint of call c at the time t.  It is not *)
(* the base b if b has been penalised all along and another base of the    *)
(* table healthy all along; and it is that of the pick in place, if the    *)
(* pick has been in place, and its base healthy, all along and is not as   *)
(* old as ttl.                                                             *)
(***************************************************************************)
SkipsFailed(c, b) == b \in avoid[c] => clean[c] = {}

Keeps(c, pick, ttl, t) ==
  /\ shared[c]
  /\ pick.base \in clean[c]
  /\ t - pick.at < ttl
=============================================================================

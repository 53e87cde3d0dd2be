----------------------------- MODULE MCRegionsTs -----------------------------
(***************************************************************************)
(* Instances of RegionsTs.  Clients k1 and k2 choose from one table, k4    *)
(* from a smaller one, and k3 is pinned to a base of its own.  A behaviour *)
(* makes the calls of one of the scenarios.                                *)
(***************************************************************************)
EXTENDS RegionsTs

CONSTANTS Scenarios,            \* sets of calls that are made together
          c1, c2, c3, c4, c5,   \* calls
          k1, k2, k3, k4,       \* clients
          t1, t2,               \* tables
          a, b, d, x            \* bases

VARIABLE made

MCClientOf == [c \in Calls |->
  CASE c = c1 -> k1
    [] c = c2 -> k2
    [] c = c3 -> k3
    [] OTHER -> k4]
MCTableOf == [k \in Clients |-> IF k = k4 THEN t2 ELSE t1]
MCBasesOf == [t \in Tables |-> IF t = t1 THEN Bases \ {x} ELSE {a, b}]
MCPin == [k \in Clients |-> IF k = k3 THEN x ELSE None]
MCPreferred == [t \in Tables |-> None]
MCFirst == [s \in (SUBSET Bases) \ {{}} |->
              IF a \in s THEN a ELSE IF b \in s THEN b ELSE CHOOSE y \in s : TRUE]

(* A call of each of two clients, two of one client, one and a pinned one.  *)
MCScenarios == {{c1, c2}, {c4, c5}, {c3, c4}}

MCInit == Init /\ made \in Scenarios

MCNext ==
  /\ Next
  /\ \A c \in Calls \ made : pc'[c] = pc[c]
  /\ UNCHANGED made

MCSpec == MCInit /\ [][MCNext]_<<vars, made>>

MCFairSpec == MCSpec /\ Fairness
=============================================================================

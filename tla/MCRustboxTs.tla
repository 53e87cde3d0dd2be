----------------------------- MODULE MCRustboxTs -----------------------------
(* An instance of RustboxTs: calls of one client, each named for the         *)
(* operation it makes, that are made together, and a read of a pinned one.  *)
EXTENDS RustboxTs

CONSTANTS Scenarios,            \* sets of calls that are made together
          r1, s3, g1, h1, p1,   \* a run, a submit, a get_result, reads
          s4,                   \* a submit with a key that is no UUID
          k1, k3,               \* clients
          t1,                   \* the table
          a, b, x               \* bases

VARIABLE made

MCOp == [c \in Calls |->
  CASE c = r1 -> "run"
    [] c \in {s3, s4} -> "submit"
    [] c = g1 -> "get_result"
    [] OTHER -> "read"]
MCGivenKey == [c \in Calls |-> IF c = s4 THEN "not a UUID" ELSE None]
MCClientOf == [c \in Calls |-> IF c = p1 THEN k3 ELSE k1]
MCTableOf == [k \in Clients |-> t1]
MCBasesOf == [t \in Tables |-> Bases \ {x}]
MCPin == [k \in Clients |-> IF k = k3 THEN x ELSE None]
MCPreferred == [t \in Tables |-> a]
MCFirst == [s \in (SUBSET Bases) \ {{}} |-> IF a \in s THEN a ELSE IF b \in s THEN b ELSE x]

MCScenarios == {{r1, g1, h1}, {s3, g1, p1}, {s4, p1}}

MCInit == SdkInit /\ made \in Scenarios

MCNext ==
  /\ SdkNext
  /\ \A c \in Calls \ made : where'[c] = where[c]
  /\ UNCHANGED made

MCSpec == MCInit /\ [][MCNext]_<<vars, selectorVars, made>>
=============================================================================

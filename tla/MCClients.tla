------------------------------ MODULE MCClients ------------------------------
(***************************************************************************)
(* Instances of the four clients.  A behaviour is that of one of the SDKs  *)
(* and makes the calls of one of the scenarios; each call is named for the *)
(* operation it makes.                                                     *)
(***************************************************************************)
EXTENDS Operations

CONSTANTS Sdks,         \* the SDKs to check
          Scenarios,    \* sets of calls that are made together
          r1,           \* a call of run
          s1, s2,       \* submits with the same key
          s3, s4,       \* a submit without a key, and one with a key that is no UUID
          j1, g1, h1,   \* a judge, a get_result, a read of the health
          u1            \* a UUID

MCOp == [c \in Calls |->
  CASE c = r1 -> "run"
    [] c \in {s1, s2, s3, s4} -> "submit"
    [] c = j1 -> "judge"
    [] c = g1 -> "get_result"
    [] OTHER -> "read"]
MCGivenKey == [c \in Calls |->
  CASE c \in {s1, s2} -> u1
    [] c = s4 -> "not a UUID"
    [] OTHER -> None]
MCScenarios == {{r1, g1}, {s1, s2}, {s3, g1}, {j1, h1}, {s4, h1}}

VARIABLES sdk, made

mcVars == <<vars, sdk, made>>

Rust == INSTANCE ClientRust
Go == INSTANCE ClientGo
Py == INSTANCE ClientPy
Ts == INSTANCE ClientTs

MCInit == Init /\ sdk \in Sdks /\ made \in Scenarios

MCNext ==
  /\ \/ sdk = "rust" /\ Rust!Next
     \/ sdk = "go" /\ Go!Next
     \/ sdk = "python" /\ Py!Next
     \/ sdk = "typescript" /\ Ts!Next
  /\ \A c \in Calls \ made : pc'[c] = pc[c]
  /\ UNCHANGED <<sdk, made>>

MCSpec == MCInit /\ [][MCNext]_mcVars

(* Every attempt ends by the client's timeout at the latest, and the runtime *)
(* resumes a call after each sleep.  No region need answer, no run need end, *)
(* and a body that is read without a timeout need not come.                 *)
Advance(c) ==
  /\ c \in made
  /\ pc[c] # "reading"
  /\ \/ sdk = "rust" /\ Rust!Go(c)
     \/ sdk = "go" /\ Go!Go(c)
     \/ sdk = "python" /\ Py!Go(c)
     \/ sdk = "typescript" /\ Ts!Go(c)
  /\ UNCHANGED <<sdk, made>>

MCFairSpec == MCSpec /\ \A c \in Calls : WF_mcVars(Advance(c))
=============================================================================

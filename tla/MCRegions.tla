------------------------------ MODULE MCRegions ------------------------------
(***************************************************************************)
(* Instances of Regions, RegionsGo and RegionsPy.  A behaviour is that of  *)
(* one of the SDKs and makes the calls `Made` says: in one instance those  *)
(* of two clients, of a table of three regions in Rust and of two in Go    *)
(* and Python; in the others two calls of one client, and in Rust one of a *)
(* client that is pinned to a base of its own, or the calls one goroutine  *)
(* makes one after the other.  One client may be closed.                   *)
(***************************************************************************)
EXTENDS RegionsGo

CONSTANTS Sdks,                 \* the SDKs to check
          Made,                 \* the calls made with each of them
          c1, c2, c3, c4, c5,   \* calls
          k1, k2, k3, k4, k5,   \* clients
          t1, t2,               \* tables
          a, b, d, x            \* bases

VARIABLES sdk, closed, muted

mcVars == <<vars, sdk, goOnlyVars, closed, muted>>

MCClientOf == [c \in Calls |->
  CASE c = c3 -> IF k3 \in Clients THEN k3 ELSE k2
    [] c = c4 -> k4
    [] c = c5 -> k5
    [] OTHER -> k1]
MCTableOf == [k \in Clients |-> IF k \in {k4, k5} THEN t2 ELSE t1]
MCBasesOf == [t \in Tables |-> IF t = t1 THEN Bases \ {x} ELSE {a, b}]
MCPin == [k \in Clients |-> IF k = k3 THEN x ELSE None]
MCFallback == [t \in Tables |-> a]
MCFirst == [s \in (SUBSET Bases) \ {{}} |->
              IF a \in s THEN a ELSE IF b \in s THEN b ELSE CHOOSE y \in s : TRUE]

MCTwoClients == [s \in Sdks |-> IF s = "rust" THEN {c1, c3} ELSE {c4, c5}]
MCOneCall == [s \in Sdks |-> {c1}]
MCOneClient == [s \in Sdks |-> IF s = "rust" THEN {c1, c2, c3} ELSE {c1, c2}]

Py == INSTANCE RegionsPy

MCInit == GoInit /\ Py!PyInit /\ sdk \in Sdks

MCNext ==
  /\ \/ sdk = "rust" /\ Next /\ UNCHANGED <<goOnlyVars, closed, muted>>
     \/ sdk = "go" /\ GoNext /\ UNCHANGED <<closed, muted>>
     \/ sdk = "python" /\ Py!PyNext /\ UNCHANGED goOnlyVars
  /\ \A c \in Calls \ Made[sdk] : pc'[c] = pc[c]
  /\ closed' \subseteq {k1, k4}
  /\ UNCHANGED sdk

MCSpec == MCInit /\ [][MCNext]_mcVars

(* The runtimes run every call that can go on, the event loop each in turn;  *)
(* probes end by their timeout; a mutex goes to the calls that wait for it  *)
(* in the order they came.                                                  *)
Advance(c) ==
  /\ c \in Made[sdk]
  /\ \/ sdk = "rust" /\ Select(c) /\ UNCHANGED <<goOnlyVars, closed, muted>>
     \/ sdk = "go" /\ GoSelect(c) /\ UNCHANGED <<closed, muted>>
  /\ UNCHANGED sdk

PyAdvance(c) ==
  /\ c \in Made[sdk]
  /\ sdk = "python" /\ Py!PySelect(c)
  /\ UNCHANGED <<sdk, goOnlyVars>>

TakesLock(c) ==
  /\ c \in Made[sdk]
  /\ \/ sdk \in {"rust", "go"} /\ Acquire(c) /\ UNCHANGED <<closed, muted>>
     \/ sdk = "python" /\ Py!PyAcquire(c)
  /\ UNCHANGED <<sdk, goOnlyVars>>

MCFairSpec ==
  /\ MCSpec
  /\ \A c \in Calls :
       WF_mcVars(Advance(c)) /\ SF_mcVars(PyAdvance(c)) /\ SF_mcVars(TakesLock(c))
-----------------------------------------------------------------------------
(* What a call of Python gets without probing has not failed (RegionsPy).   *)
ChoosesHealthyWithoutProbing == [][sdk = "python" => Py!HealthyUnlessProbed]_mcVars
=============================================================================

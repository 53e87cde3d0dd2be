------------------------------- MODULE RegionsGo -----------------------------
(***************************************************************************)
(* Region selection and failover of the Go SDK (go/regions.go).  Its calls *)
(* are goroutines and take the steps of Regions, but no call goes away     *)
(* before it ends: a call whose context is cancelled waits for the mutex,  *)
(* which knows no context, and selects with probes that all fail.  If it   *)
(* is an operation it then fails to send, which is reported as a failure   *)
(* of the region; if it is a call of the exported Client.BaseURL it sends  *)
(* nothing and just returns what it selected.                              *)
(***************************************************************************)
EXTENDS Regions

VARIABLES cancelled,    \* of a call that is choosing: before its probes, or since
          asked,        \* the calls of Client.BaseURL that have their base
          blind         \* history: of a table's pick that a cancelled call stored
                        \* without a region's answer, the operation it is owned by

goOnlyVars == <<cancelled, asked, blind>>
goVars == <<vars, goOnlyVars>>

GoInit ==
  /\ Init
  /\ asked = {}
  /\ cancelled = [c \in Calls |-> "no"]
  /\ blind = [t \in Tables |-> None]

(* The application cancels the context of a call, or its deadline passes.   *)
(* While an operation sends, that is one of the ways in which it fails.     *)
Cancel(c) ==
  /\ cancelled[c] = "no"
  /\ \/ /\ pc[c] \in {"asking", "filtering", "looking"}
        /\ cancelled' = [cancelled EXCEPT ![c] = "before"]
     \/ /\ pc[c] = "probing"
        /\ cancelled' = [cancelled EXCEPT ![c] = "since"]
  /\ UNCHANGED <<vars, asked, blind>>

(* `current` returns the base to an operation, which sends with the context  *)
(* it has, or to BaseURL, which is done with it.                            *)
HandBase(c) ==
  \/ UNCHANGED <<cancelled, asked>>
  \/ /\ asked' = asked \cup {c}
     /\ cancelled' = [cancelled EXCEPT ![c] = "no"]

(* selectRegion's probes are requests with the call's context: when it is    *)
(* cancelled before they are sent none of them is answered.                 *)
GoProbed(c) ==
  \E reachable \in SUBSET candidates[c] :
    /\ cancelled[c] = "before" => reachable = {}
    /\ Store(c, reachable)
    /\ HandBase(c)
    /\ blind' = [blind EXCEPT ![Table(c)] =
                   IF cancelled[c] # "no" /\ reachable = {}
                   THEN [owner |-> IF c \in asked' THEN None ELSE c] ELSE None]

GoSelect(c) ==
  \/ /\ UsePin(c) \/ Filter(c) \/ LookUp(c)
     /\ IF pc'[c] = "sending" THEN HandBase(c) ELSE UNCHANGED <<cancelled, asked>>
     /\ UNCHANGED blind
  \/ GoProbed(c)

GoReturn(c) ==
  /\ asked' = asked \ {c}
  /\ cancelled' = [cancelled EXCEPT ![c] = "no"]

(* The operation ends without a transient error, which a cancelled one does  *)
(* not; or BaseURL returns, and nothing has been sent.                      *)
GoSucceed(c) ==
  /\ cancelled[c] = "no"
  /\ Succeed(c)
  /\ GoReturn(c)
  /\ UNCHANGED blind

(* Mutant: what a cancelled operation ends with is not reported.            *)
GoFailQuietly(c) ==
  /\ c \notin asked
  /\ IF cancelled[c] = "no" THEN Fail(c) ELSE Succeed(c)
  /\ GoReturn(c)
  /\ UNCHANGED blind

(* The operation fails for good, and its client's pick goes with it.        *)
GoFail(c) ==
  /\ c \notin asked
  /\ Fail(c)
  /\ GoReturn(c)
  /\ blind' = IF Pinned(c) THEN blind ELSE [blind EXCEPT ![Table(c)] = None]

GoNext ==
  \/ \E c \in Calls :
       \/ (Begin(c) \/ Acquire(c)) /\ UNCHANGED goOnlyVars
       \/ GoSelect(c) \/ Cancel(c) \/ GoSucceed(c) \/ GoFail(c)
  \/ Tick /\ UNCHANGED goOnlyVars

GoSpec == GoInit /\ [][GoNext]_goVars
-----------------------------------------------------------------------------
(* The probes of a cancelled call say nothing of the regions, and yet the    *)
(* fallback it stores is every client's pick (go/regions.go:126-136).  An    *)
(* operation takes it back: the pick it stored is in place only while the   *)
(* operation has yet to fail to send (go/client.go:37-44).  A call of       *)
(* BaseURL does not, and of its picks nothing is claimed here.              *)
OperationsTakeBlindPicksBack ==
  \A t \in Tables : blind[t] # None /\ blind[t].owner # None =>
    LET c == blind[t].owner IN
    pc[c] = "sending" /\ c \notin asked /\ cancelled[c] # "no" /\ Table(c) = t

(* Automatic selection "probes ... every healthy region ..., picks the      *)
(* fastest, and shares that pick across every client in the process"        *)
(* (README.md:85): a call whose context is good does not get, without       *)
(* probing, a pick that a cancelled call stored without an answer.          *)
SharesWhatWasProbed ==
  [][\A c \in Calls :
       Chooses(c) /\ pc[c] = "looking" /\ cancelled[c] = "no"
         => blind[Table(c)] = None]_goVars
=============================================================================

------------------------------- MODULE RustboxTs -----------------------------
(***************************************************************************)
(* The TypeScript SDK as a whole (typescript/src/client.ts): the clients'  *)
(* operations get their base from the selectors of RegionsTs, send, wait   *)
(* and poll as in ClientTs, and tell the selectors of the regions that     *)
(* failed them.  Picks and penalties are the process's, so what one call   *)
(* meets decides where the next one goes.                                  *)
(***************************************************************************)
EXTENDS Operations

CONSTANTS Clients, Tables, ClientOf, TableOf, BasesOf, Preferred, First, Pin,
          TTL, Penalty, MaxTime

VARIABLES clock, picked, penalisedAt, selecting, joined, avoid, clean, shared,
          where,        \* how far a call is with its selector
          endpoint      \* what the selector gave it

selectorVars ==
  <<clock, picked, penalisedAt, selecting, joined, avoid, clean, shared, where, endpoint>>

Client == INSTANCE ClientTs
Selector == INSTANCE RegionsTs WITH pc <- where, base <- endpoint

ASSUME TablesAssumption ==
  /\ ClientOf \in [Calls -> Clients]
  /\ TableOf \in [Clients -> Tables]
  /\ BasesOf \in [Tables -> (SUBSET Bases) \ {{}}]
  /\ Pin \in [Clients -> Bases \cup {None}]
  /\ \A t \in Tables : Preferred[t] \in BasesOf[t] \cup {None}
  /\ \A s \in (SUBSET Bases) \ {{}} : First[s] \in s
ASSUME ClockAssumption ==
  /\ TTL \in Nat /\ Penalty \in Nat /\ MaxTime \in Nat
  /\ None \notin Int \cup Selector!Pick \cup Selector!Flight

SdkInit == Init /\ Selector!Init

(* The operation awaits regions.current(), but for a submit that is refused  *)
(* for its key.                                                             *)
Ask(c) ==
  /\ pc[c] = "idle"
  /\ ~BadKey(c)
  /\ Op[c] = "get_result" => KnownIds # {}
  /\ Selector!Current(c)
  /\ UNCHANGED vars

Refuse(c) == BadKey(c) /\ Client!Start(c) /\ UNCHANGED selectorVars

(* It goes on with the base it was given.                                   *)
Send(c) ==
  /\ ~BadKey(c)
  /\ Selector!Resume(c)
  /\ Client!Start(c)
  /\ base'[c] = endpoint[c]

Work(c) ==
  /\ Client!Go(c)
  /\ pc'[c] # "done"
  /\ UNCHANGED selectorVars

(* Mutant: what fails is the region that is picked now.                     *)
ReturnBlamingThePick(c) ==
  /\ Client!Go(c)
  /\ pc'[c] = "done"
  /\ IF reported'[c] /\ picked[TableOf[ClientOf[c]]] # None
     THEN Selector!Finish(c) /\ Selector!ReportFailure(c, picked[TableOf[ClientOf[c]]].base)
     ELSE Selector!Succeed(c)

(* send reports a transient error to the selector and rethrows it.          *)
ReturnToApp(c) ==
  /\ Client!Go(c)
  /\ pc'[c] = "done"
  /\ IF reported'[c] THEN Selector!Fail(c) ELSE Selector!Succeed(c)

(* The event loop, the regions and the clock.                               *)
Elsewhere ==
  \/ (\E k \in Clients : Selector!Probed(k) \/ Selector!Clear(k)) /\ UNCHANGED vars
  \/ Selector!Tick /\ UNCHANGED vars
  \/ Environment /\ UNCHANGED selectorVars

SdkNext ==
  \/ \E c \in Calls : Ask(c) \/ Refuse(c) \/ Send(c) \/ Work(c) \/ ReturnToApp(c)
  \/ Elsewhere

SdkSpec == SdkInit /\ [][SdkNext]_<<vars, selectorVars>>
-----------------------------------------------------------------------------
Selecting(c) == Pin[ClientOf[c]] = None

(* A region is skipped for every client only because an operation of a       *)
(* client that selects failed for good on that very region: after all the   *)
(* attempts its request is worth, and not on another one that it was sent   *)
(* to, or that is picked by now.                                            *)
PenaltiesAreEarned ==
  \A b \in Bases : penalisedAt[b] # None =>
    \E c \in Calls :
      /\ Selecting(c) /\ base[c] = b
      /\ outcome[c].kind = "transient"
      /\ attempt[c] = Attempts(c)

(* No other client selects from the table of client k.                      *)
SelectsAlone(k) == \A j \in Clients \ {k} : TableOf[j] = TableOf[k] => Pin[j] # None

(* "`get_result` can pick the run up later" (README.md:77): on the client    *)
(* that gave its id out, if it is pinned, or as long as its pick stands,    *)
(* until a region has failed, or the pick has expired, or another client    *)
(* has picked another region.                                               *)
PickedUpWhileThePickStands ==
  \A c, d \in Calls :
    /\ Op[c] = "get_result" /\ outcome[c].kind = "not_found"
    /\ outcome[d].kind \in {"accepted", "still_running"} /\ outcome[d].run = runId[c]
    /\ ClientOf[c] = ClientOf[d]
    =>
    /\ Selecting(c)
    /\ \/ ~SelectsAlone(ClientOf[c])
       \/ clock >= TTL
       \/ \E b \in Bases : penalisedAt[b] # None

(* `run` "polls ... on the region that accepted the run" (README.md:77), and  *)
(* finds it there, though other calls have the pick moved meanwhile.        *)
RunIsFoundWhateverIsPicked ==
  \A c \in Calls : Op[c] = "run" /\ pc[c] # "idle" =>
    /\ outcome[c].kind # "not_found"
    /\ runId[c] # None => runId[c].base = base[c]
=============================================================================

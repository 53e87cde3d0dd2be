------------------------------- MODULE RegionsPy -----------------------------
(***************************************************************************)
(* Region selection and failover of the Python SDK                         *)
(* (python/rustbox/regions.py).  Its calls are tasks of one event loop and *)
(* take the steps of Regions: a task that has the asyncio lock filters and *)
(* looks up without an await, so that no other task runs in between.       *)
(* Clients are closed while calls of theirs select.                        *)
(***************************************************************************)
EXTENDS Regions

VARIABLES closed,       \* the clients the application has closed
          muted         \* the calls that began to probe or to send after that

pyVars == <<vars, closed, muted>>

PyInit == Init /\ closed = {} /\ muted = {}

(* Mutant: the tasks run on threads.                                        *)
AlwaysRuns(c) == TRUE

(* The task runs: no other one is between two awaits.                       *)
Runs(c) == \A d \in Calls \ {c} : pc[d] \notin {"filtering", "looking"}

(* What the call begins to do it does with a client that is closed or not.   *)
Enters(c) ==
  muted' = IF pc'[c] \in {"probing", "sending"} /\ ClientOf[c] \in closed
           THEN muted \cup {c}
           ELSE muted \ {c}

(* Transport.probe returns None on a closed client.                         *)
PyProbed(c) ==
  \E reachable \in SUBSET candidates[c] :
    /\ c \in muted => reachable = {}
    /\ Store(c, reachable)

PySelect(c) ==
  /\ Runs(c)
  /\ UsePin(c) \/ Filter(c) \/ LookUp(c) \/ PyProbed(c)
  /\ Enters(c)
  /\ UNCHANGED closed

PyAcquire(c) == Runs(c) /\ Acquire(c) /\ UNCHANGED <<closed, muted>>

(* Transport.send refuses to start on a closed client, with an error that is *)
(* not the region's: such a call does not fail, for the regions.            *)
PyFail(c) == c \notin muted /\ Fail(c)

(* The others are those of Regions: a task is cancelled at an await.         *)
PyOther(c) ==
  /\ Runs(c)
  /\ Begin(c) \/ Succeed(c) \/ PyFail(c) \/ Drop(c)
  /\ Enters(c)
  /\ UNCHANGED closed

Close(k) ==
  /\ \A c \in Calls : pc[c] \notin {"filtering", "looking"}
  /\ closed' = closed \cup {k}
  /\ UNCHANGED <<vars, muted>>

PyNext ==
  \/ \E c \in Calls : PyAcquire(c) \/ PySelect(c) \/ PyOther(c)
  \/ \E k \in Clients \ closed : Close(k)
  \/ Tick /\ UNCHANGED <<closed, muted>>

PySpec == PyInit /\ [][PyNext]_pyVars
-----------------------------------------------------------------------------
HealthyUnlessProbed ==
  \A c \in Calls :
    Chooses(c) /\ pc[c] \in {"filtering", "looking"} =>
      \/ Healthy(base'[c], now[c])
      \/ \A b \in BasesOf[Table(c)] : ~Healthy(b, now[c])

(* `_select` filters the regions and looks the pick up without an await      *)
(* (regions.py:48-55): a call that chooses without probing gets a region    *)
(* that no failure reported meanwhile has penalised, unless all are.  On    *)
(* threads, as in Rust and Go, another client can put a base back in        *)
(* between that has just failed.                                            *)
ChoosesHealthyWithoutProbing == [][HealthyUnlessProbed]_pyVars
=============================================================================

---------------------------- MODULE SelectorsProofs --------------------------
(***************************************************************************)
(* The Go and the Python selector take the steps of Regions, so that what  *)
(* is proved of Regions holds of them; in Go a cancelled operation takes   *)
(* back the pick it stored blindly; and in Python, where tasks share one thread, what a call *)
(* gets without probing has not failed meanwhile.                          *)
(***************************************************************************)
EXTENDS RegionsGo, RegionsPy, RegionsProofs

(***************************************************************************)
(* Go SDK.                                                                 *)
(***************************************************************************)
(* Each step of the Go selector is one of Regions, or changes only what      *)
(* Regions has not.                                                         *)
LEMMA GoStepIsStep == [GoNext]_goVars => [Next]_vars
<1> SUFFICES ASSUME [GoNext]_goVars PROVE [Next]_vars
  OBVIOUS
<1>1. CASE UNCHANGED goVars \/ Tick
  BY <1>1 DEF goVars, Next
<1>2. ASSUME NEW c \in Calls, Begin(c) \/ Acquire(c) \/ Select(c) \/ Succeed(c) \/ Fail(c)
      PROVE  Next
  BY <1>2 DEF Next
<1>3. ASSUME NEW c \in Calls, GoSelect(c) PROVE Select(c)
  BY <1>3 DEF GoSelect, Select, GoProbed, Probed
<1>4. ASSUME NEW c \in Calls, Cancel(c) PROVE UNCHANGED vars
  BY <1>4 DEF Cancel
<1> QED
  BY <1>1, <1>2, <1>3, <1>4 DEF GoNext, GoSucceed, GoFail

(* The Go selector is a special case of Regions.                            *)
THEOREM GoIsRegions == GoSpec => Spec
<1>1. GoInit => Init
  BY DEF GoInit
<1> QED
  BY <1>1, GoStepIsStep, PTL DEF GoSpec, Spec

(* What the Rust selector promises the Go selector keeps: typing, regions    *)
(* left out no longer than they are penalised, ...                          *)
THEOREM GoInvariants == GoSpec => [](TypeOK /\ LeftOutOnlyWhilePenalised)
BY GoIsRegions, Typing, LeftOut, PTL

(* ... failed regions skipped, good picks shared, ...                       *)
THEOREM GoSkips == GoSpec => SkipsFailedRegions
BY GoIsRegions, Skips, PTL

THEOREM GoShares == GoSpec => UsesSharedPick
BY GoIsRegions, Shares, PTL

(* ... and each selection one step of Failover.                             *)
THEOREM GoRefines == GoSpec => ImplementsFailover
BY GoIsRegions, Refines, PTL
-----------------------------------------------------------------------------
GoTyped ==
  /\ cancelled \in [Calls -> {"no", "before", "since"}]
  /\ asked \subseteq Calls
  /\ blind \in [Tables -> [owner : Calls \cup {None}] \cup {None}]

(* The pick of table t is blind and owned by operation c.                   *)
Owns(c, t) == blind[t] # None /\ blind[t].owner = c /\ c # None

(* What there is to know of an operation that owns a blind pick.            *)
Takes(c, t) ==
  /\ c \in Calls /\ ~Pinned(c) /\ Table(c) = t
  /\ pc[c] = "sending" /\ c \notin asked /\ cancelled[c] # "no"

GoInv == GoTyped /\ \A t \in Tables : \A c : Owns(c, t) => Takes(c, t)

LEMMA GoInvBlind == GoInv => OperationsTakeBlindPicksBack
BY DEF GoInv, Owns, Takes, OperationsTakeBlindPicksBack

LEMMA GoInitInv == GoInit => GoInv
BY DEF GoInit, GoInv, GoTyped, Owns

(* A step of one call leaves what another owns as it is.                    *)
LEMMA GoOthersKeep ==
  ASSUME GoInv, NEW c \in Calls, NEW t \in Tables, NEW d, Owns(d, t), d # c,
         \A e \in Calls \ {c} : /\ pc'[e] = pc[e] /\ cancelled'[e] = cancelled[e]
                                /\ e \in asked' <=> e \in asked
  PROVE  Takes(d, t)'
<1>1. Takes(d, t)
  BY DEF GoInv
<1> QED
  BY <1>1 DEF Takes, Table, Pinned

(* What a call does with its base concerns no other.                        *)
LEMMA HandBaseKeeps ==
  ASSUME GoTyped, NEW c \in Calls, HandBase(c) \/ GoReturn(c) \/ UNCHANGED <<cancelled, asked>>
  PROVE  /\ cancelled' \in [Calls -> {"no", "before", "since"}]
         /\ asked' \subseteq Calls
         /\ \A e \in Calls \ {c} : cancelled'[e] = cancelled[e] /\ (e \in asked' <=> e \in asked)
BY DEF GoTyped, HandBase, GoReturn

(* The steps that neither store a pick nor end a call.                      *)
LEMMA GoQuietInv ==
  ASSUME IInv, GoInv, NEW c \in Calls,
         Begin(c) \/ Acquire(c) \/ UsePin(c) \/ Filter(c) \/ LookUp(c),
         HandBase(c) \/ UNCHANGED <<cancelled, asked>>, UNCHANGED blind
  PROVE  GoInv'
<1>1. pc[c] # "sending" /\ \A e \in Calls \ {c} : pc'[e] = pc[e]
  BY DEF Begin, Acquire, UsePin, Filter, LookUp, GoOnWith, IInv, TypeOK
<1>2. GoTyped'
  BY HandBaseKeeps DEF GoInv, GoTyped
<1>3. ASSUME NEW t \in Tables, NEW d, Owns(d, t)' PROVE Takes(d, t)'
  <2>1. Owns(d, t) /\ d # c
    BY <1>1, <1>3 DEF Owns, GoInv, Takes
  <2> QED
    BY <1>1, <2>1, HandBaseKeeps, GoOthersKeep DEF GoInv
<1> QED
  BY <1>2, <1>3 DEF GoInv

LEMMA GoProbedInv ==
  ASSUME IInv, GoInv, NEW c \in Calls, GoProbed(c)
  PROVE  GoInv'
<1>1. PICK reachable \in SUBSET candidates[c] :
        /\ Store(c, reachable)
        /\ HandBase(c)
        /\ blind' = [blind EXCEPT ![Table(c)] =
                       IF cancelled[c] # "no" /\ reachable = {}
                       THEN [owner |-> IF c \in asked' THEN None ELSE c] ELSE None]
  BY DEF GoProbed
<1>2. pc[c] = "probing" /\ ~Pinned(c) /\ Table(c) \in Tables
  BY <1>1, Constants DEF Store, IInv, LockInv, Selecting
<1>3. pc'[c] = "sending" /\ \A e \in Calls \ {c} : pc'[e] = pc[e]
  BY <1>1 DEF Store, GoOnWith, IInv, TypeOK
<1>4. GoTyped'
  <2>1. blind' \in [Tables -> [owner : Calls \cup {None}] \cup {None}]
    BY <1>1 DEF GoInv, GoTyped
  <2> QED
    BY <1>1, <2>1, HandBaseKeeps DEF GoInv, GoTyped
<1>5. ASSUME NEW t \in Tables, NEW d, Owns(d, t)' PROVE Takes(d, t)'
  <2>1. CASE t # Table(c)
    <3>1. blind'[t] = blind[t]
      BY <1>1, <2>1 DEF GoInv, GoTyped
    <3>2. Owns(d, t) /\ d # c
      BY <1>2, <1>5, <3>1 DEF Owns, GoInv, Takes
    <3> QED
      BY <1>1, <1>3, <3>2, HandBaseKeeps, GoOthersKeep DEF GoInv
  <2>2. CASE t = Table(c)
    <3>1. blind'[t] = IF cancelled[c] # "no" /\ reachable = {}
                      THEN [owner |-> IF c \in asked' THEN None ELSE c] ELSE None
      BY <1>1, <1>2, <2>2 DEF GoInv, GoTyped
    <3>2. cancelled[c] # "no" /\ c \notin asked' /\ d = c
      BY <1>5, <3>1 DEF Owns
    <3>3. cancelled' = cancelled
      BY <1>1, <3>2 DEF HandBase
    <3> QED
      BY <1>2, <1>3, <2>2, <3>2, <3>3 DEF Takes, Table, Pinned
  <2> QED
    BY <2>1, <2>2
<1> QED
  BY <1>4, <1>5 DEF GoInv

LEMMA GoCancelInv ==
  ASSUME IInv, GoInv, NEW c \in Calls, Cancel(c)
  PROVE  GoInv'
<1>1. \A d \in Calls : cancelled[d] # "no" => cancelled'[d] # "no"
  BY DEF Cancel, GoInv, GoTyped
<1>2. pc' = pc /\ blind' = blind /\ asked' = asked
  BY DEF Cancel, vars
<1>3. cancelled' \in [Calls -> {"no", "before", "since"}]
  BY DEF Cancel, GoInv, GoTyped
<1>4. GoTyped'
  BY <1>2, <1>3 DEF GoInv, GoTyped
<1> QED
  BY <1>1, <1>2, <1>4 DEF GoInv, Owns, Takes, Table, Pinned

LEMMA GoSucceedInv ==
  ASSUME IInv, GoInv, NEW c \in Calls, GoSucceed(c)
  PROVE  GoInv'
<1>1. cancelled[c] = "no" /\ GoReturn(c) /\ blind' = blind
  BY DEF GoSucceed
<1>2. \A e \in Calls \ {c} : pc'[e] = pc[e]
  BY DEF GoSucceed, Succeed, IInv, TypeOK
<1>3. GoTyped'
  BY <1>1, HandBaseKeeps DEF GoInv, GoTyped
<1>4. ASSUME NEW t \in Tables, NEW d, Owns(d, t)' PROVE Takes(d, t)'
  <2>1. Owns(d, t) /\ d # c
    BY <1>1, <1>4 DEF Owns, GoInv, Takes
  <2> QED
    BY <1>1, <1>2, <2>1, HandBaseKeeps, GoOthersKeep DEF GoInv
<1> QED
  BY <1>3, <1>4 DEF GoInv

LEMMA GoFailInv ==
  ASSUME IInv, GoInv, NEW c \in Calls, GoFail(c)
  PROVE  GoInv'
<1>1. GoReturn(c) /\ blind' = IF Pinned(c) THEN blind ELSE [blind EXCEPT ![Table(c)] = None]
  BY DEF GoFail
<1>2. \A e \in Calls \ {c} : pc'[e] = pc[e]
  BY DEF GoFail, Fail, IInv, TypeOK
<1>3. GoTyped'
  <2>1. blind' \in [Tables -> [owner : Calls \cup {None}] \cup {None}]
    BY <1>1 DEF GoInv, GoTyped
  <2> QED
    BY <1>1, <2>1, HandBaseKeeps DEF GoInv, GoTyped
<1>4. ASSUME NEW t \in Tables, NEW d, Owns(d, t)' PROVE Takes(d, t)'
  <2>1. blind'[t] = blind[t] /\ (~Pinned(c) => t # Table(c))
    BY <1>1, <1>4 DEF GoInv, GoTyped, Owns
  <2>2. Owns(d, t) /\ d # c
    BY <1>4, <2>1 DEF Owns, GoInv, Takes
  <2> QED
    BY <1>1, <1>2, <2>2, HandBaseKeeps, GoOthersKeep DEF GoInv
<1> QED
  BY <1>3, <1>4 DEF GoInv

LEMMA GoStepInv == IInv /\ GoInv /\ [GoNext]_goVars => GoInv'
<1> SUFFICES ASSUME IInv, GoInv, [GoNext]_goVars PROVE GoInv'
  OBVIOUS
<1>1. ASSUME UNCHANGED <<goOnlyVars, pc>> PROVE GoInv'
  BY <1>1 DEF goOnlyVars, GoInv, GoTyped, Owns, Takes, Table, Pinned
<1>2. CASE UNCHANGED goVars \/ (Tick /\ UNCHANGED goOnlyVars)
  BY <1>1, <1>2 DEF goVars, vars, Tick
<1>3. ASSUME NEW c \in Calls, GoSelect(c) PROVE GoInv'
  BY <1>3, GoQuietInv, GoProbedInv DEF GoSelect
<1>4. ASSUME NEW c \in Calls, Begin(c) \/ Acquire(c), UNCHANGED goOnlyVars PROVE GoInv'
  BY <1>4, GoQuietInv DEF goOnlyVars
<1> QED
  BY <1>2, <1>3, <1>4, GoCancelInv, GoSucceedInv, GoFailInv DEF GoNext

(* The blind pick of a cancelled operation is in place only while the        *)
(* operation has yet to fail, for every number of calls, clients, tables    *)
(* and regions, whatever is asked of BaseURL meanwhile.                     *)
THEOREM TakenBack == GoSpec => []OperationsTakeBlindPicksBack
<1>1. GoSpec => []IInv
  BY GoIsRegions, Inductive, PTL
<1>2. GoSpec => []GoInv
  BY <1>1, GoInitInv, GoStepInv, PTL DEF GoSpec
<1> QED
  BY <1>2, GoInvBlind, PTL
-----------------------------------------------------------------------------
(***************************************************************************)
(* Python SDK.                                                             *)
(***************************************************************************)
(* Each step of the Python selector is one of Regions, or changes only what  *)
(* Regions has not.                                                         *)
LEMMA PyStepIsStep == [PyNext]_pyVars => [Next]_vars
<1> SUFFICES ASSUME [PyNext]_pyVars PROVE [Next]_vars
  OBVIOUS
<1>1. CASE UNCHANGED pyVars \/ Tick
  BY <1>1 DEF pyVars, Next
<1>2. ASSUME NEW c \in Calls, PyAcquire(c) PROVE Next
  BY <1>2 DEF PyAcquire, Next
<1>3. ASSUME NEW c \in Calls, PySelect(c) PROVE Next
  BY <1>3 DEF PySelect, PyProbed, Select, Probed, Next
<1>4. ASSUME NEW c \in Calls, PyOther(c) PROVE Next
  BY <1>4 DEF PyOther, PyFail, Next
<1>5. ASSUME NEW k \in Clients, Close(k) PROVE UNCHANGED vars
  BY <1>5 DEF Close
<1> QED
  BY <1>1, <1>2, <1>3, <1>4, <1>5 DEF PyNext

(* The Python selector is a special case of Regions.                        *)
THEOREM PyIsRegions == PySpec => Spec
<1>1. PyInit => Init
  BY DEF PyInit
<1> QED
  BY <1>1, PyStepIsStep, PTL DEF PySpec, Spec

(* What the Rust selector promises the Python selector keeps: typing,        *)
(* regions left out no longer than they are penalised, ...                  *)
THEOREM PyInvariants == PySpec => [](TypeOK /\ LeftOutOnlyWhilePenalised)
BY PyIsRegions, Typing, LeftOut, PTL

(* ... failed regions skipped, good picks shared, ...                       *)
THEOREM PySkips == PySpec => SkipsFailedRegions
BY PyIsRegions, Skips, PTL

THEOREM PyShares == PySpec => UsesSharedPick
BY PyIsRegions, Shares, PTL

(* ... and each selection one step of Failover.                             *)
THEOREM PyRefines == PySpec => ImplementsFailover
BY PyIsRegions, Refines, PTL
-----------------------------------------------------------------------------
(* A task that is about to look the pick up has the candidates of now.      *)
PyInv ==
  \A c \in Calls : pc[c] = "looking" => candidates[c] = Candidates(Table(c), now[c])

(* A step of another task that leaves penalties and c's locals alone, or     *)
(* comes only when c is not running.                                        *)
LEMMA OthersKeep ==
  ASSUME IInv, PyInv, NEW d \in Calls, PyAcquire(d) \/ PySelect(d) \/ PyOther(d)
  PROVE  PyInv'
<1> SUFFICES ASSUME NEW c \in Calls, pc'[c] = "looking"
             PROVE  candidates'[c] = Candidates(Table(c), now[c])'
  BY DEF PyInv
<1> USE DEF IInv, TypeOK
<1>1. d = c
  <2>1. ASSUME d # c PROVE pc'[c] = pc[c]
    BY <2>1 DEF PyAcquire, PySelect, PyOther, PyFail, PyProbed, Begin, Acquire, UsePin, Filter,
                LookUp, Store, GoOnWith, Succeed, Fail, Drop
  <2> QED
    BY <2>1 DEF PyAcquire, PySelect, PyOther, Runs
<1>2. Filter(c)
  BY <1>1 DEF PyAcquire, PySelect, PyOther, PyFail, PyProbed, Begin, Acquire, UsePin,
              LookUp, Store, GoOnWith, Succeed, Fail, Drop
<1>3. candidates'[c] = Candidates(Table(c), now[c]) /\ UNCHANGED <<processVars, now>>
  BY <1>2 DEF Filter, GoOnWith
<1> QED
  BY <1>3 DEF Candidates, Healthy, Table, processVars

LEMMA PyStepInv == IInv /\ PyInv /\ [PyNext]_pyVars => PyInv'
<1> SUFFICES ASSUME IInv, PyInv, [PyNext]_pyVars PROVE PyInv'
  OBVIOUS
<1>1. ASSUME UNCHANGED <<processVars, localVars, pc>> PROVE PyInv'
  BY <1>1 DEF PyInv, Candidates, Healthy, Table, processVars, localVars
<1>2. CASE UNCHANGED pyVars
  BY <1>1, <1>2 DEF pyVars, vars
<1>3. CASE Tick
  BY <1>1, <1>3 DEF Tick
<1>4. ASSUME NEW k \in Clients, Close(k) PROVE PyInv'
  BY <1>1, <1>4 DEF Close, vars
<1> QED
  BY <1>2, <1>3, <1>4, OthersKeep DEF PyNext

LEMMA PyInductive == PySpec => [](IInv /\ PyInv)
<1>1. PySpec => []IInv
  BY PyIsRegions, Inductive, PTL
<1>2. PyInit => PyInv
  BY DEF PyInit, Init, PyInv
<1> QED
  BY <1>1, <1>2, PyStepInv, PTL DEF PySpec

(* A candidate is healthy, unless none of its table is.                     *)
LEMMA CandidatesAreHealthy ==
  ASSUME NEW t, NEW at, NEW b \in Candidates(t, at)
  PROVE  Healthy(b, at) \/ \A e \in BasesOf[t] : ~Healthy(e, at)
BY DEF Candidates

(* What a call of Python gets without probing is healthy by what is known    *)
(* when it gets it, for every number of tasks, clients, tables and regions. *)
THEOREM ChoosesHealthy == PySpec => ChoosesHealthyWithoutProbing
<1>1. IInv /\ PyInv /\ [PyNext]_pyVars => [HealthyUnlessProbed]_pyVars
  <2> SUFFICES ASSUME IInv, PyInv, [PyNext]_pyVars, NEW c \in Calls, Chooses(c),
                      pc[c] \in {"filtering", "looking"}
               PROVE  \/ Healthy(base'[c], now[c])
                      \/ \A b \in BasesOf[Table(c)] : ~Healthy(b, now[c])
    BY DEF HealthyUnlessProbed
  <2> USE DEF IInv, TypeOK, Chooses
  <2>1. Filter(c) \/ LookUp(c)
    BY PyStepIsStep, ChoosingStep DEF Probed, Store
  <2>2. base'[c] \in Candidates(Table(c), now[c])
    <3>1. CASE Filter(c)
      BY <3>1 DEF Filter, GoOnWith
    <3>2. CASE LookUp(c)
      BY <3>2 DEF LookUp, GoOnWith, Usable, PyInv
    <3> QED
      BY <2>1, <3>1, <3>2
  <2> QED
    BY <2>2, CandidatesAreHealthy
<1> QED
  BY <1>1, PyInductive, PTL DEF PySpec, ChoosesHealthyWithoutProbing
=============================================================================

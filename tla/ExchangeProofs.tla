---------------------------- MODULE ExchangeProofs ---------------------------
(***************************************************************************)
(* Exchange keeps its two promises for any calls, keys, regions and number *)
(* of retries: a call causes one execution, and `run` returns its own.     *)
(***************************************************************************)
EXTENDS Exchange, TLAPS

PhaseInv ==
  /\ phase \in [Calls -> {"idle", "open", "done"}]
  /\ base \in [Calls -> Bases \cup {None}]
  /\ DOMAIN outcome = Calls

(* A key is the call itself, a UUID or none, once a call has begun.         *)
GoodKey(c) == Op[c] = "submit" => GivenKey[c] \in Uuids \cup {None}
KeyInv == \A c \in Calls : phase[c] = "open" => GoodKey(c)

(* What is served or under way is an attempt its call is worth, with the    *)
(* call's key, to the call's base.                                          *)
Owned(r) ==
  /\ r.call \in Calls
  /\ Submits(r.call)
  /\ GoodKey(r.call)
  /\ phase[r.call] # "idle"
  /\ \E n \in Attempts(r.call) : r = Request(r.call, n)

OwnedInv == \A r \in runs \cup flying : Owned(r)

(* A region has executed a key once.                                        *)
OneRunPerKey ==
  \A r, s \in runs : r.key # None /\ s.key = r.key /\ s.base = r.base => r = s

IInv ==
  /\ PhaseInv
  /\ KeyInv
  /\ OwnedInv
  /\ OneRunPerKey
  /\ RunReturnsItsOwn
  /\ finished \subseteq runs
-----------------------------------------------------------------------------
(* What RunOf returns is the request or the run that it replays.            *)
LEMMA RunOfIs ==
  ASSUME NEW r
  PROVE  \/ RunOf(r) \in runs /\ Replays(r, RunOf(r))
         \/ RunOf(r) = r /\ \A s \in runs : ~Replays(r, s)
BY DEF RunOf

(* Serving an attempt of an open call keeps the runs owned and unique.      *)
LEMMA ServeKeeps ==
  ASSUME OwnedInv, OneRunPerKey, NEW r, Owned(r), Serve(r)
  PROVE  /\ \A s \in runs' : Owned(s)
         /\ OneRunPerKey'
         /\ runs \subseteq runs'
<1>1. CASE RunOf(r) \in runs
  <2>1. runs' = runs
    BY <1>1 DEF Serve
  <2> QED
    BY <2>1 DEF OneRunPerKey, OwnedInv
<1>2. CASE RunOf(r) = r /\ \A s \in runs : ~Replays(r, s)
  <2>1. runs' = runs \cup {r}
    BY <1>2 DEF Serve
  <2>2. ASSUME NEW s \in runs', NEW t \in runs', s.key # None, t.key = s.key, t.base = s.base
        PROVE  s = t
    BY <1>2, <2>1, <2>2 DEF OneRunPerKey, Replays
  <2> QED
    BY <2>1, <2>2 DEF OneRunPerKey, OwnedInv
<1> QED
  BY <1>1, <1>2, RunOfIs

(* A call that has begun does not change its base.                          *)
LEMMA OwnedStays ==
  ASSUME NEW r, Owned(r), base'[r.call] = base[r.call], phase'[r.call] # "idle"
  PROVE  Owned(r)'
BY DEF Owned, Request, GoodKey, Submits, Attempts, Key

(* What a step of an open call may do to the region and to the requests.    *)
LEMMA EffectKeeps ==
  ASSUME IInv, NEW c \in Calls, phase[c] = "open", Effect(c)
  PROVE  /\ \A r \in runs' \cup flying' : Owned(r)
         /\ OneRunPerKey'
         /\ runs \subseteq runs'
<1>1. CASE UNCHANGED <<runs, flying>>
  BY <1>1 DEF IInv, OwnedInv, OneRunPerKey
<1>2. CASE Submits(c) /\ \E n \in Attempts(c) : GoesUnanswered(Request(c, n))
  <2>1. PICK n \in Attempts(c) : GoesUnanswered(Request(c, n))
    BY <1>2
  <2>2. Owned(Request(c, n))
    <3>1. Request(c, n).call = c
      BY DEF Request
    <3> QED
      BY <1>2, <2>1, <3>1 DEF IInv, KeyInv, Owned
  <2>3. CASE Serve(Request(c, n)) /\ UNCHANGED flying
    BY <2>2, <2>3, ServeKeeps DEF IInv, OwnedInv
  <2>4. CASE flying' = flying \cup {Request(c, n)} /\ UNCHANGED runs
    BY <2>2, <2>4 DEF IInv, OwnedInv, OneRunPerKey
  <2> QED
    BY <1>1, <2>1, <2>3, <2>4 DEF GoesUnanswered
<1> QED
  BY <1>1, <1>2 DEF Effect

(* The invariant holds to begin with ...                                    *)
LEMMA InitInv == Init => IInv
BY DEF Init, ApiInit, IInv, PhaseInv, KeyInv, OwnedInv, OneRunPerKey, RunReturnsItsOwn

(* ... when a call begins, ...                                              *)
LEMMA BeginInv ==
  ASSUME IInv, NEW c \in Calls, NEW b \in Bases, Begin(c, b)
  PROVE  IInv'
<1>1. PhaseInv' /\ KeyInv'
  BY DEF IInv, PhaseInv, KeyInv, Begin, GoodKey
<1>2. OwnedInv'
  <2> SUFFICES ASSUME NEW r \in runs \cup flying PROVE Owned(r)'
    BY DEF Begin, serverVars, OwnedInv
  <2>1. Owned(r) /\ r.call # c
    BY DEF IInv, OwnedInv, Owned, Begin
  <2>2. base'[r.call] = base[r.call] /\ phase'[r.call] = phase[r.call]
    BY <2>1 DEF Begin, IInv, PhaseInv, Owned
  <2> QED
    BY <2>1, <2>2, OwnedStays DEF Owned
<1>3. RunReturnsItsOwn'
  BY DEF IInv, PhaseInv, RunReturnsItsOwn, Begin, serverVars, OwnedInv, Owned, Request
<1> QED
  BY <1>1, <1>2, <1>3 DEF IInv, OneRunPerKey, Begin, serverVars

(* ... is rejected ...                                                      *)
LEMMA RejectInv ==
  ASSUME IInv, NEW c \in Calls, Reject(c)
  PROVE  IInv'
<1>1. PhaseInv' /\ KeyInv'
  BY DEF IInv, PhaseInv, KeyInv, Reject, GoodKey
<1>2. OwnedInv'
  <2> SUFFICES ASSUME NEW r \in runs \cup flying PROVE Owned(r)'
    BY DEF Reject, serverVars, OwnedInv
  <2>1. Owned(r) /\ base' = base /\ phase'[r.call] # "idle"
    BY DEF IInv, PhaseInv, OwnedInv, Owned, Reject
  <2> QED
    BY <2>1, OwnedStays
<1>3. RunReturnsItsOwn'
  <2> SUFFICES ASSUME NEW d \in Calls, Op[d] = "run",
                      outcome'[d].kind \in {"execution", "still_running"}
               PROVE  outcome'[d] = outcome[d]
    BY DEF IInv, RunReturnsItsOwn, Reject, serverVars
  <2> QED
    BY DEF IInv, PhaseInv, Reject, Errors
<1> QED
  BY <1>1, <1>2, <1>3 DEF IInv, OneRunPerKey, Reject, serverVars

(* ... goes on ...                                                          *)
LEMMA GoOnInv ==
  ASSUME IInv, NEW c \in Calls, GoOn(c)
  PROVE  IInv'
<1>1. /\ \A r \in runs' \cup flying' : Owned(r)
      /\ OneRunPerKey'
      /\ runs \subseteq runs'
  BY EffectKeeps DEF GoOn
<1>2. OwnedInv'
  BY <1>1 DEF OwnedInv, Owned, GoOn, Request, GoodKey, Submits, Attempts, Key
<1>3. RunReturnsItsOwn'
  BY <1>1 DEF IInv, RunReturnsItsOwn, GoOn
<1> QED
  BY <1>1, <1>2, <1>3 DEF IInv, PhaseInv, KeyInv, GoOn, GoodKey

(* A run of the key of a call of `run` was started by that call.            *)
LEMMA RunsOwn ==
  ASSUME NEW c \in Calls, Op[c] = "run", NEW r, Owned(r), Own(c, r)
  PROVE  r.call = c
<1>1. r.key = Key(r.call) /\ r.call \in Calls
  BY DEF Owned, Request
<1>2. CASE r.call # c
  <2>1. r.key = c
    BY <1>2 DEF Own, Key
  <2>2. CASE Op[r.call] = "submit"
    BY <1>1, <2>1, <2>2, KeysAssumption DEF Owned, GoodKey, Key
  <2>3. CASE Op[r.call] # "submit"
    BY <1>1, <1>2, <2>1, <2>3, KeysAssumption DEF Key
  <2> QED
    BY <2>2, <2>3
<1> QED
  BY <1>2

(* ... and returns, ...                                                     *)
LEMMA ReturnInv ==
  ASSUME IInv, NEW c \in Calls, Return(c)
  PROVE  IInv'
<1>1. /\ \A r \in runs' \cup flying' : Owned(r)
      /\ OneRunPerKey'
      /\ runs \subseteq runs'
  BY EffectKeeps DEF Return
<1>2. PhaseInv' /\ KeyInv'
  BY DEF IInv, PhaseInv, KeyInv, Return, GoodKey
<1>3. OwnedInv'
  <2> SUFFICES ASSUME NEW r \in runs' \cup flying' PROVE Owned(r)'
    BY DEF OwnedInv
  <2>1. Owned(r) /\ base' = base /\ phase'[r.call] # "idle"
    BY <1>1 DEF IInv, PhaseInv, Owned, Return
  <2> QED
    BY <2>1, OwnedStays
<1>4. finished \subseteq finished' /\ finished' \subseteq runs'
  BY <1>1 DEF IInv, Return
<1>5. RunReturnsItsOwn'
  <2> SUFFICES ASSUME NEW d \in Calls, Op[d] = "run",
                      outcome'[d].kind \in {"execution", "still_running"}
               PROVE  /\ outcome'[d].run \in runs'
                      /\ outcome'[d].run.call = d
                      /\ outcome'[d].run.base = base'[d]
                      /\ outcome'[d].kind = "execution" => outcome'[d].run \in finished'
    BY DEF RunReturnsItsOwn
  <2>1. PICK result \in Results(c, runs') :
          /\ Op[c] = "run" /\ result.kind = "execution" => result.run \in finished'
          /\ outcome' = [outcome EXCEPT ![c] = result]
    BY DEF Return
  <2>2. base' = base
    BY DEF Return
  <2>3. CASE d # c
    <3>1. outcome'[d] = outcome[d]
      BY <2>1, <2>3 DEF IInv, PhaseInv
    <3> QED
      BY <1>1, <1>4, <2>2, <3>1 DEF IInv, RunReturnsItsOwn
  <2>4. CASE d = c
    <3>1. outcome'[d] = result
      BY <2>1, <2>4 DEF IInv, PhaseInv
    <3>2. result.run \in runs' /\ result.run.base = base[c] /\ Own(c, result.run)
      BY <2>4, <3>1 DEF Results, Errors
    <3>3. result.run.call = c
      BY <1>1, <2>4, <3>2, RunsOwn
    <3> QED
      BY <2>1, <2>2, <2>4, <3>1, <3>2, <3>3
  <2> QED
    BY <2>3, <2>4
<1> QED
  BY <1>1, <1>2, <1>3, <1>4, <1>5 DEF IInv

(* ... when a run ends ...                                                  *)
LEMMA EndInv ==
  ASSUME IInv, NEW run \in runs, End(run), UNCHANGED <<phase, base, outcome>>
  PROVE  IInv'
BY DEF IInv, PhaseInv, KeyInv, GoodKey, OwnedInv, Owned, Request, Submits, Attempts, Key,
       OneRunPerKey, RunReturnsItsOwn, End

(* ... and when a late request is served.                                   *)
LEMMA DeliverInv ==
  ASSUME IInv, NEW request \in flying, Deliver(request), UNCHANGED <<phase, base, outcome>>
  PROVE  IInv'
<1>1. /\ \A s \in runs' : Owned(s)
      /\ OneRunPerKey'
      /\ runs \subseteq runs'
  BY ServeKeeps DEF IInv, OwnedInv, Deliver
<1>2. OwnedInv'
  BY <1>1 DEF IInv, OwnedInv, Owned, Deliver, Request, GoodKey, Submits, Attempts, Key
<1> QED
  BY <1>1, <1>2 DEF IInv, PhaseInv, KeyInv, GoodKey, RunReturnsItsOwn, Deliver

(* Every step keeps the invariant.                                          *)
LEMMA NextInv == IInv /\ [Next]_vars => IInv'
<1> SUFFICES ASSUME IInv, [Next]_vars
             PROVE  IInv'
  OBVIOUS
<1>1. ASSUME NEW c \in Calls, NEW b \in Bases, Begin(c, b) PROVE IInv'
  BY <1>1, BeginInv
<1>2. ASSUME NEW c \in Calls, Reject(c) PROVE IInv'
  BY <1>2, RejectInv
<1>3. ASSUME NEW c \in Calls, GoOn(c) PROVE IInv'
  BY <1>3, GoOnInv
<1>4. ASSUME NEW c \in Calls, Return(c) PROVE IInv'
  BY <1>4, ReturnInv
<1>5. ASSUME NEW run \in runs, End(run), UNCHANGED <<phase, base, outcome>> PROVE IInv'
  BY <1>5, EndInv
<1>6. ASSUME NEW r \in flying, Deliver(r), UNCHANGED <<phase, base, outcome>> PROVE IInv'
  BY <1>6, DeliverInv
<1>7. CASE UNCHANGED vars
  BY <1>7 DEF vars, serverVars, IInv, PhaseInv, KeyInv, GoodKey, OwnedInv, Owned, Request,
              Submits, Attempts, Key, OneRunPerKey, RunReturnsItsOwn
<1> QED
  BY <1>1, <1>2, <1>3, <1>4, <1>5, <1>6, <1>7 DEF Next

(* The invariant is one of the specification.                               *)
THEOREM Inductive == Spec => []IInv
BY InitInv, NextInv, PTL DEF Spec

(* Two runs of one call have its key and its base, so they are one; without *)
(* a key they are its only attempt.                                         *)
LEMMA OnceInv == IInv => ExecutedAtMostOnce
<1> SUFFICES ASSUME IInv, NEW r \in runs, NEW s \in runs, r.call = s.call
             PROVE  r = s
  BY DEF ExecutedAtMostOnce
<1>1. PICK n \in Attempts(r.call) : r = Request(r.call, n)
  BY DEF IInv, OwnedInv, Owned
<1>2. PICK k \in Attempts(r.call) : s = Request(r.call, k)
  BY DEF IInv, OwnedInv, Owned
<1>3. CASE Key(r.call) = None
  BY <1>1, <1>2, <1>3 DEF Attempts
<1>4. CASE Key(r.call) # None
  <2>1. r.key = Key(r.call) /\ s.key = Key(r.call) /\ r.base = s.base
    BY <1>1, <1>2 DEF Request
  <2> QED
    BY <1>4, <2>1 DEF IInv, OneRunPerKey
<1> QED
  BY <1>3, <1>4

(* A call causes at most one execution.                                     *)
THEOREM Once == Spec => []ExecutedAtMostOnce
BY Inductive, OnceInv, PTL

(* `run` returns the end of its own execution.                              *)
THEOREM ReturnsItsOwn == Spec => []RunReturnsItsOwn
<1>1. IInv => RunReturnsItsOwn
  BY DEF IInv
<1> QED
  BY <1>1, Inductive, PTL
=============================================================================

------------------------------- MODULE Exchange ------------------------------
(***************************************************************************)
(* What every SDK promises of an operation (README.md:74-79), however it   *)
(* retries, polls and fails: it keeps to one region; it tries again only   *)
(* what it can repeat; and a run it returns is one of that region, for     *)
(* `run` the one it started itself, and ended.                             *)
(***************************************************************************)
EXTENDS JudgeApi

VARIABLES phase, base, outcome

vars == <<phase, base, outcome, serverVars, flying>>

Errors == {"config", "transient", "refused", "not_found", "decode", "unclassified", "dropped"}

Init ==
  /\ phase = [c \in Calls |-> "idle"]
  /\ base = [c \in Calls |-> None]
  /\ outcome = [c \in Calls |-> [kind |-> "pending"]]
  /\ ApiInit

Request(c, n) == [call |-> c, base |-> base[c], key |-> Key(c), attempt |-> n]

Begin(c, b) ==
  /\ phase[c] = "idle"
  /\ Op[c] = "submit" => GivenKey[c] \in Uuids \cup {None}
  /\ phase' = [phase EXCEPT ![c] = "open"]
  /\ base' = [base EXCEPT ![c] = b]
  /\ UNCHANGED <<outcome, serverVars, flying>>

Reject(c) ==
  /\ phase[c] = "idle"
  /\ phase' = [phase EXCEPT ![c] = "done"]
  /\ \E kind \in Errors : outcome' = [outcome EXCEPT ![c] = [kind |-> kind]]
  /\ UNCHANGED <<base, serverVars, flying>>

(* The attempts a submission is worth: one, if it cannot be repeated.       *)
Attempts(c) == IF Key(c) = None THEN {0} ELSE 0 .. MaxRetries

(* An attempt, if one is made at all, may have any of its effects.          *)
Effect(c) ==
  \/ UNCHANGED <<runs, flying>>
  \/ Submits(c) /\ \E n \in Attempts(c) : GoesUnanswered(Request(c, n))

GoOn(c) ==
  /\ phase[c] = "open"
  /\ Effect(c)
  /\ UNCHANGED <<phase, base, outcome, finished>>

(* The runs a result may be about: any the application asks for, otherwise   *)
(* the one the call started or one with its key.                            *)
Own(c, run) == Op[c] = "get_result" \/ run.call = c \/ (Key(c) # None /\ run.key = Key(c))

Results(c, known) ==
  [kind : Errors \cup {"ok"}]
  \cup [kind : {"accepted", "judged", "execution", "still_running"},
        run : {r \in known : r.base = base[c] /\ Own(c, r)}]

Return(c) ==
  /\ phase[c] = "open"
  /\ Effect(c)
  /\ phase' = [phase EXCEPT ![c] = "done"]
  /\ finished' \in {finished} \cup {finished \cup {run} : run \in runs'}
  /\ \E result \in Results(c, runs') :
       /\ Op[c] = "run" /\ result.kind = "execution" => result.run \in finished'
       /\ outcome' = [outcome EXCEPT ![c] = result]
  /\ UNCHANGED base

Next ==
  \/ \E c \in Calls : (\E b \in Bases : Begin(c, b)) \/ Reject(c) \/ GoOn(c) \/ Return(c)
  \/ \E run \in runs : End(run) /\ UNCHANGED <<phase, base, outcome>>
  \/ \E request \in flying : Deliver(request) /\ UNCHANGED <<phase, base, outcome>>

Spec == Init /\ [][Next]_vars

(* "A run is never executed twice" (README.md:76): whatever is retried, lost *)
(* or served after the client gave it up, a call causes one execution.      *)
ExecutedAtMostOnce ==
  \A r, s \in runs : r.call = s.call => r = s

(* What `run` returns is the end of the execution it caused itself, and     *)
(* what it gives up is that execution too.                                  *)
RunReturnsItsOwn ==
  \A c \in Calls : Op[c] = "run" /\ outcome[c].kind \in {"execution", "still_running"} =>
    /\ outcome[c].run \in runs
    /\ outcome[c].run.call = c
    /\ outcome[c].run.base = base[c]
    /\ outcome[c].kind = "execution" => outcome[c].run \in finished
=============================================================================

------------------------------- MODULE Contract ------------------------------
(***************************************************************************)
(* What the four SDKs share by the contract: they load the same            *)
(* configuration (Config), make the same of a response (Responses), and    *)
(* wait alike (Delays).  The three have no state in common.                *)
(***************************************************************************)
EXTENDS Integers, Sequences

CONSTANTS ByName, Options, Environments, Empty,
          Responses, Absent, MaxInt, MaxWord,
          BackoffBase, BackoffCap, MaxRetries, FirstDelay, PollCap, MaxPolls,
          FactorBits, DurationBits,
          Default, None, Rejected

VARIABLES options, env, config, op, response, read, sdk, attempt, backoff, poll, delay

Configs == INSTANCE Config

R == INSTANCE Responses

D == INSTANCE Delays
-----------------------------------------------------------------------------
(* What an application can give, and what can be made of it.                *)
Urls == [http : BOOLEAN, host : STRING, slashes : Nat]

Names == {ByName[i] : i \in DOMAIN ByName}

Configurations(names) ==
  [pinned : Urls \cup {None}, regions : [names -> Urls], fallback : Urls \cup {None}]

ASSUME OptionsAssumption ==
  /\ ByName \in Seq(STRING)
  /\ \A o \in Options :
       /\ o.retries \in Int /\ o.timeout \in Int
       /\ \E names \in SUBSET Names : o.regions \in [names -> Urls]
       /\ o.baseUrl \in Urls \cup {None}
  /\ \A e \in Environments : e.baseUrl \in Urls \cup {None, Empty}

ASSUME NoneAssumption ==
  /\ None # Rejected
  /\ None \notin Urls /\ Rejected \notin Urls
  /\ \A names \in SUBSET Names : {None, Rejected} \cap Configurations(names) = {}
-----------------------------------------------------------------------------
(* JSON values of which a body is made, and what can be made of a body.     *)
PartsOf(json) ==
  CASE json.json = "object" -> {json.members[key] : key \in DOMAIN json.members}
    [] json.json = "array" -> {json.items[i] : i \in DOMAIN json.items}
    [] OTHER -> {}

Numbers == {"int", "long", "integral", "fraction"}

IsJson(json) ==
  \/ json = R!Null
  \/ json \in [json : {"string", "boolean"}, value : STRING]
  \/ json \in [json : {"number"}, value : Numbers]
  \/ json.json = "object"
  \/ json.json = "array" /\ json.items \in Seq(PartsOf(json))

Bodies == {r.response.body : r \in Responses}

Evidences ==
  {body.members.evidence : body \in
     {b \in Bodies : b.json = "object" /\ "evidence" \in DOMAIN b.members}}

(* What a leaf is decoded to.                                               *)
Scalars == STRING \cup Numbers \cup {R!Unknown, Absent}

Blocks(structure) == [R!Keys(structure) -> Scalars]

Decoded ==
  Scalars \cup Evidences \cup Seq(Blocks(R!CaseResult))
  \cup Blocks(R!Timestamps) \cup Blocks(R!Outcome) \cup Blocks(R!Output) \cup Blocks(R!Metrics)

ASSUME JsonAssumption ==
  \A body \in Bodies :
    /\ body.json = "array" => IsJson(body)
    /\ \A part \in PartsOf(body) :
         /\ IsJson(part)
         /\ \A p \in PartsOf(part) : IsJson(p) /\ \A q \in PartsOf(p) : IsJson(q)

ASSUME AbsentAssumption == Absent \notin R!Verdicts \cup {R!Unknown}

ASSUME RejectedAssumption ==
  /\ Rejected \notin Decoded
  /\ \A structure \in {R!Accepted, R!Pending, R!Health, R!CaseResult} :
       Rejected \notin Blocks(structure)
  /\ Rejected \notin Seq(Scalars)
  /\ Rejected \notin [R!Keys(R!Execution) -> Decoded]
  /\ Rejected \notin [R!Keys(R!JudgeResult) -> Decoded]

ASSUME WidthsAssumption == MaxInt \in Nat /\ MaxWord \in Nat /\ MaxInt <= MaxWord

ASSUME RetryAfterAssumption ==
  \A r \in Responses : r.response.retryAfter.number => r.response.retryAfter.secs \in Nat

(* The base of the backoff is not above its cap, and twice the cap has room    *)
(* in a duration.                                                           *)
ASSUME BackoffAssumption ==
  /\ BackoffBase \in Nat /\ BackoffCap \in Nat /\ BackoffBase <= BackoffCap
  /\ FactorBits \in Nat \ {0} /\ DurationBits \in Nat \ {0}
  /\ 2 * BackoffCap <= D!PowerOfTwo[DurationBits - 1]

(* The first poll comes after some microseconds, and the cap is no less.     *)
ASSUME PollsAssumption ==
  FirstDelay \in Nat /\ PollCap \in Nat /\ 2 <= FirstDelay /\ FirstDelay <= PollCap
-----------------------------------------------------------------------------
(* The endpoint is resolved in the documented order (Config).               *)
ResolvedInOrder == Configs!ResolvedInOrder

(* The SDKs make the same of the same options (Config).                     *)
SdksAgree == Configs!SdksAgree

(* A client that selects falls back to a region it checked (Config).        *)
FallsBackToARegion == Configs!FallsBackToARegion

(* The SDKs read what the contract allows, alike (Responses).               *)
SdksReadTheContract == R!SdksReadTheContract

(* Two SDKs read nothing else (Responses).                                  *)
TheCheckingSdksReadNothingElse == R!TheCheckingSdksReadNothingElse

(* `run` stops polling when the execution ended, and no sooner (Responses). *)
DoneWhenItEnded == R!DoneWhenItEnded

(* The SDKs report a response they did not expect alike (Responses).        *)
SameErrors == R!SameErrors

(* The backoff doubles to its cap in any width of integers (Delays).        *)
BackoffDoublesToTheCap == D!BackoffDoublesToTheCap

(* The polls slow down to their cap (Delays).                               *)
PollsSlowDown == D!PollsSlowDown
=============================================================================

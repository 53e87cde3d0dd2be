------------------------------ MODULE MCContract -----------------------------
(***************************************************************************)
(* Instances of what the SDKs share by the contract: a behaviour loads a   *)
(* configuration, reads a response, or waits, and leaves the variables of  *)
(* the others alone.                                                       *)
(***************************************************************************)
EXTENDS Contract, TLC

CONSTANT Parts          \* what the behaviours do

VARIABLE part

-----------------------------------------------------------------------------
(* Options and environments that differ in what is given, valid and known.  *)
Link(host, slashes) == [http |-> TRUE, host |-> host, slashes |-> slashes]
NoLink == [http |-> FALSE, host |-> "host", slashes |-> 0]

(* Tables: with the default region and without, with a bad URL, and none.   *)
Tables == {
  "in" :> Link("in", 0),
  "in" :> Link("in", 1) @@ "eu" :> Link("eu", 0),
  "eu" :> Link("eu", 1) @@ "us" :> Link("us", 0),
  "in" :> Link("in", 0) @@ "us" :> NoLink,
  [name \in {} |-> NoLink]}

(* One of the options that are checked by themselves is invalid at most.    *)
Checks == {c \in [apiKey : BOOLEAN, retries : {-1, 0}, timeout : {-1, 0, 1}] :
  (IF c.apiKey THEN 0 ELSE 1) + (IF c.retries < 0 THEN 1 ELSE 0) + (IF c.timeout > 0 THEN 0 ELSE 1) <= 1}

MCOptions ==
  {[apiKey |-> c.apiKey, retries |-> c.retries, timeout |-> c.timeout,
    regions |-> table, baseUrl |-> u, region |-> name] :
     c \in Checks, table \in Tables, u \in {None, Link("own", 1), NoLink},
     name \in {None, Empty, "in", "eu"}}

MCEnvironments ==
  [baseUrl : {None, Empty, Link("env", 1), NoLink}, region : {None, Empty, "eu", "zz"}]

MCByName == <<"eu", "in", "us">>
-----------------------------------------------------------------------------
(* Answers of the contract, and with one member of the wrong kind or left    *)
(* out, or with their members in an array, the last of them left out or not. *)
M == INSTANCE Models

S == M!String("text")
NoMembers == [key \in {} |-> M!Null]
Kinds == {M!Null, S, M!String("AC"), M!String("completed"), M!String(""), M!Boolean("true"),
          M!Number("int"), M!Number("long"), M!Number("integral"), M!Number("fraction"),
          M!Array(<<>>), M!Array(<<S, M!Null>>), M!Array(<<S>>), M!Object(NoMembers)}

(* A member of each kind, and one the SDKs do not read.                     *)
Example(kind) ==
  CASE kind \in {"text", "text?"} -> S
    [] kind = "status" -> M!String("running")
    [] kind = "health" -> M!String("ready")
    [] kind = "verdict?" -> M!Null
    [] kind = "flag" -> M!Boolean("false")
    [] kind = "number?" -> M!Number("fraction")
    [] kind = "evidence" -> M!Object(NoMembers)
    [] OTHER -> M!Number("int")

Body(structure) ==
  M!Object("cause" :> S @@ [key \in M!Keys(structure) |-> Example(M!KindOf(structure, key))])

With(body, key, value) == [body EXCEPT !.members = (key :> value) @@ @]
Without(body, key) == [body EXCEPT !.members = [k \in DOMAIN @ \ {key} |-> @[k]]]
Listed(structure, body, n) == M!Array([i \in 1 .. n |-> body.members[structure[i][1]]])

OneWrong(structure, body) ==
  {body, Listed(structure, body, Len(structure)), Listed(structure, body, Len(structure) - 1)}
  \cup {With(body, key, value) : key \in M!Keys(structure), value \in Kinds}
  \cup {Without(body, key) : key \in M!Keys(structure)}

Executed == With(With(With(With(Body(M!Execution),
  "timestamps", Body(M!Timestamps)), "result", Body(M!Outcome)),
  "output", Body(M!Output)), "metrics", Body(M!Metrics))

EndedWith(status, verdict) ==
  With(With(Executed, "status", M!String(status)), "result", With(Body(M!Outcome), "verdict", verdict))

Executions ==
  OneWrong(M!Execution, Executed)
  \cup {With(Executed, "timestamps", part1) : part1 \in OneWrong(M!Timestamps, Body(M!Timestamps))}
  \cup {With(Executed, "result", part1) : part1 \in OneWrong(M!Outcome, Body(M!Outcome))}
  \cup {With(Executed, "output", part1) : part1 \in OneWrong(M!Output, Body(M!Output))}
  \cup {With(Executed, "metrics", part1) : part1 \in OneWrong(M!Metrics, Body(M!Metrics))}
  \cup {EndedWith(status, verdict) :
          status \in {"pending", "running", "completed", "error", "archived"},
          verdict \in {M!Null, M!String("AC"), M!String("NEWVERDICT")}}

Judged == With(Body(M!JudgeResult), "results", M!Array(<<Body(M!CaseResult), Body(M!CaseResult)>>))
Judgements ==
  OneWrong(M!JudgeResult, Judged)
  \cup {With(Judged, "results", M!Array(<<Body(M!CaseResult), item>>)) :
          item \in OneWrong(M!CaseResult, Body(M!CaseResult))}

Answers(operation) ==
  CASE operation = "submit" -> OneWrong(M!Accepted, Body(M!Accepted))
    [] operation = "run" -> OneWrong(M!Pending, Body(M!Pending))
    [] operation = "get_result" -> Executions
    [] operation = "judge" -> Judgements
    [] operation = "languages" -> {M!Array(<<S, item>>) : item \in Kinds}
    [] OTHER -> OneWrong(M!Health, Body(M!Health))

NotJson == [json |-> "none"]
ErrorBodies ==
  {NotJson, M!Array(<<S>>), M!Object(NoMembers)} \cup {M!Object("error" :> value) : value \in Kinds}

NoNumber == [number |-> FALSE]
RetryAfters == {NoNumber} \cup [number : {TRUE}, sign : {"", "+", "-"}, secs : {0, 5, MaxInt + 1, MaxWord + 1}]

Respond(operation, status, after, body) ==
  [op |-> operation, response |-> [status |-> status, retryAfter |-> after, body |-> body]]

Success(operation) == IF operation \in {"submit", "run"} THEN 202 ELSE 200

MCResponses ==
  UNION {{Respond(operation, Success(operation), NoNumber, body) :
            body \in Answers(operation) \cup Kinds \cup {NotJson}} :
           operation \in {"submit", "run", "get_result", "judge", "languages", "health"}}
  \cup {Respond("run", 200, NoNumber, body) : body \in Executions}
  \cup {Respond("run", 408, NoNumber, body) : body \in OneWrong(M!Pending, Body(M!Pending))}
  \cup {Respond(operation, status, NoNumber, body) :
          operation \in {"submit", "run", "judge"}, status \in {204, 400, 401, 403, 404, 408, 500, 503},
          body \in ErrorBodies}
  \cup {Respond(operation, 429, after, M!Object(NoMembers)) :
          operation \in {"run", "get_result"}, after \in RetryAfters}
-----------------------------------------------------------------------------
configVars == <<options, env, config>>
responseVars == <<op, response, read>>
delayVars == <<sdk, attempt, backoff, poll, delay>>
contractVars == <<part, configVars, responseVars, delayVars>>

NoConfig ==
  /\ options = None /\ env = None
  /\ config = [s \in M!Sdks |-> None]

NoResponse ==
  /\ op = None /\ response = [status |-> None, retryAfter |-> NoNumber, body |-> M!Missing]
  /\ read = [s \in M!Sdks |-> None]

NoDelay ==
  /\ sdk = None
  /\ attempt = 0 /\ backoff = BackoffBase /\ poll = 0 /\ delay = FirstDelay

MCInit ==
  /\ part \in Parts
  /\ IF part = "config" THEN Configs!Init ELSE NoConfig
  /\ IF part = "responses" THEN R!Init ELSE NoResponse
  /\ IF part = "delays" THEN D!Init ELSE NoDelay

MCNext ==
  \/ /\ part = "config" /\ Configs!Next
     /\ UNCHANGED <<part, responseVars, delayVars>>
  \/ /\ part = "responses" /\ R!Next
     /\ UNCHANGED <<part, configVars, delayVars>>
  \/ /\ part = "delays" /\ D!Next
     /\ UNCHANGED <<part, configVars, responseVars>>

MCSpec == MCInit /\ [][MCNext]_contractVars
=============================================================================

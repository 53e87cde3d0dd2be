------------------------------- MODULE Responses -----------------------------
(***************************************************************************)
(* What the four SDKs make of a response: the statuses an operation         *)
(* expects, the errors it makes of the others, and the contract its answers *)
(* are to be of.  The retries come before: a server error is the last one. *)
(***************************************************************************)
EXTENDS Models, Integers

CONSTANTS Responses,    \* operations and the responses they get
          MaxInt,       \* the largest int of Go
          MaxWord,      \* the largest u64 of Rust
          None          \* not read yet

VARIABLES op,           \* the operation
          response,     \* its status, Retry-After and body
          read          \* what each SDK makes of it

responseVars == <<op, response, read>>

Expected ==
  CASE op = "submit" -> {202}
    [] op = "run" -> {200, 202, 408}
    [] OTHER -> {200}

AsksForExecution == op = "get_result" \/ (op = "run" /\ response.status = 200)

Parse(sdk, json) ==
  CASE op = "submit" -> ParseAccepted(sdk, json)
    [] AsksForExecution -> ParseExecution(sdk, json)
    [] op = "run" /\ ~AsksForExecution -> ParsePendingId(sdk, json)
    [] op = "judge" -> ParseJudgeResult(sdk, json)
    [] op = "languages" -> ParseLanguages(sdk, json)
    [] OTHER -> ParseHealth(sdk, json)
-----------------------------------------------------------------------------
(* Retry-After is a number with or without a sign, or anything else.  Python *)
(* and TypeScript take digits only, Go's Atoi and Rust's u64 also a plus,   *)
(* and Go, which looks at the number for a minus, takes -0.                 *)
RetryAfter(sdk) ==
  LET after == response.retryAfter
      Signs == CASE sdk = "rust" -> {"", "+"}
                 [] sdk = "go" -> IF after.secs = 0 THEN {"", "+", "-"} ELSE {"", "+"}
                 [] OTHER -> {""}
      limit == CASE sdk = "go" -> MaxInt [] sdk = "rust" -> MaxWord [] OTHER -> after.secs
  IN  IF after.number /\ after.sign \in Signs /\ after.secs <= limit THEN after.secs ELSE Absent

RawText == "the body as it came"

IsText(json) == json.json = "string"

ErrorMember ==
  IF response.body.json = "object" /\ "error" \in DOMAIN response.body.members
  THEN response.body.members.error
  ELSE Missing

(* Mutant: the message is the body.                                         *)
RawMessage(sdk) == RawText

(* Rust reads the body as a structure of one member; Go cannot tell an empty *)
(* message from none.                                                       *)
Message(sdk) ==
  LET body == response.body
  IN  IF sdk = "go" /\ ErrorMember = String("") THEN RawText
      ELSE IF sdk = "rust" /\ body.json = "array" /\ Len(body.items) = 1 /\ IsText(body.items[1])
      THEN body.items[1].value
      ELSE IF IsText(ErrorMember) THEN ErrorMember.value
      ELSE RawText

ErrorFor(sdk) ==
  IF response.status \in {401, 403} THEN [kind |-> "auth", status |-> response.status]
  ELSE IF response.status = 429
  THEN [kind |-> "rate_limit", status |-> 429, retryAfter |-> RetryAfter(sdk)]
  ELSE [kind |-> "api", status |-> response.status, message |-> Message(sdk)]

Expect(sdk) ==
  IF response.status \notin Expected THEN ErrorFor(sdk)
  ELSE LET value == Parse(sdk, response.body)
       IN  IF value = Rejected THEN [kind |-> "decode"] ELSE [kind |-> "decoded", value |-> value]

Init ==
  /\ \E r \in Responses : op = r.op /\ response = r.response
  /\ read = [sdk \in Sdks |-> None]

Read(sdk) ==
  /\ read[sdk] = None
  /\ read' = [read EXCEPT ![sdk] =
       IF response.status >= 500 THEN [kind |-> "server", status |-> response.status] ELSE Expect(sdk)]
  /\ UNCHANGED <<op, response>>

Next == \E sdk \in Sdks : Read(sdk)

Spec == Init /\ [][Next]_responseVars
-----------------------------------------------------------------------------
(***************************************************************************)
(* The contract: a structure has its members, and each is of its kind.     *)
(* `sizes` are the numbers that are taken for an integer: what every SDK   *)
(* reads has 32 bits, 64 for a long, and what any of them may read is       *)
(* written in whatever way JSON allows.                                    *)
(***************************************************************************)
Strict == [kind \in {"int?", "long?"} |-> IF kind = "int?" THEN {"int"} ELSE {"int", "long"}]
Lax == [kind \in {"int?", "long?"} |-> {"int", "long", "integral"}]

IsA(json, types) == json.json \in types

OfKind(sizes, kind, json) ==
  CASE kind \in {"text", "status", "health"} -> IsA(json, {"string"})
    [] kind \in {"text?", "verdict?"} -> IsA(json, {"string", "null"})
    [] kind = "flag" -> IsA(json, {"boolean"})
    [] kind = "evidence" -> IsA(json, {"object", "null", "missing"})
    [] kind = "number?" -> IsA(json, {"number", "null"})
    [] kind \in {"int?", "long?"} ->
         IsA(json, {"number", "null"}) /\ (IsA(json, {"number"}) => json.value \in sizes[kind])
    [] OTHER -> TRUE

HasShape(sizes, structure, json) ==
  /\ IsA(json, {"object"})
  /\ \A i \in DOMAIN structure :
       LET key == structure[i][1]
       IN  /\ key \in DOMAIN json.members \/ key = "evidence"
           /\ OfKind(sizes, structure[i][2], Field(structure, json, key))

Conforms(sizes) ==
  LET body == response.body
      HasBlock(key, block) == HasShape(sizes, block, body.members[key])
      results == body.members.results
  IN  CASE op = "submit" -> HasShape(sizes, Accepted, body)
        [] AsksForExecution ->
             /\ HasShape(sizes, Execution, body)
             /\ HasBlock("timestamps", Timestamps) /\ HasBlock("result", Outcome)
             /\ HasBlock("output", Output) /\ HasBlock("metrics", Metrics)
        [] op = "run" /\ ~AsksForExecution -> HasShape(sizes, Pending, body)
        [] op = "judge" ->
             /\ HasShape(sizes, JudgeResult, body)
             /\ IsA(results, {"array"})
             /\ \A i \in DOMAIN results.items : HasShape(sizes, CaseResult, results.items[i])
        [] op = "languages" ->
             /\ IsA(body, {"array"})
             /\ \A i \in DOMAIN body.items : IsText(body.items[i])
        [] OTHER -> HasShape(sizes, Health, body)

Readers == {sdk \in Sdks : read[sdk] # None}
Reads(sdk) == read[sdk].kind = "decoded"
-----------------------------------------------------------------------------
(* "Behaviour every SDK shares" (README.md:72): an answer of the contract,   *)
(* with verdicts and statuses that are not known yet or not, is read by     *)
(* each SDK, and each makes the same of it.                                 *)
SdksReadTheContract ==
  response.status \in Expected /\ Conforms(Strict) =>
    \A s, t \in Readers : Reads(s) /\ read[s] = read[t]

(* "A body of the wrong shape is a decode error" (contract/scenarios.json:357)*)
(* in the SDKs that check every member themselves: what TypeScript and      *)
(* Python hand on is of the contract.                                       *)
TheCheckingSdksReadNothingElse ==
  \A sdk \in Readers \cap {"typescript", "python"} : Reads(sdk) => Conforms(Lax)

(* `run` returns once the execution is done: when its status is terminal or  *)
(* it has a verdict, known or not, and not before (models.ts:203).          *)
DoneWhenItEnded ==
  \A sdk \in Readers :
    op = "get_result" /\ Reads(sdk) /\ Conforms(Lax) =>
      (Done(read[sdk].value) <=>
         \/ response.body.members.status.value \in TerminalStatuses
         \/ response.body.members.result.members.verdict # Null)

(* The SDKs report a response that was not expected alike: the kind, the     *)
(* status, how long to wait and what the server says of it.                 *)
SameErrors ==
  LET after == response.retryAfter
      plain == after.number => after.sign = "" /\ after.secs <= MaxInt
      says == IsText(ErrorMember) /\ ErrorMember # String("")
  IN  \A s, t \in {sdk \in Readers : ~Reads(sdk) /\ read[sdk].kind # "decode"} :
        /\ read[s].kind = read[t].kind
        /\ read[s].status = read[t].status
        /\ read[s].kind = "rate_limit" /\ plain => read[s].retryAfter = read[t].retryAfter
        /\ read[s].kind = "api" /\ says => read[s].message = ErrorMember.value
=============================================================================

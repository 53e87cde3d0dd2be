-------------------------------- MODULE Models -------------------------------
(***************************************************************************)
(* The decoding of the judge API's answers in the four SDKs (models.ts,    *)
(* models.rs, models.go, models.py).                                       *)
(*                                                                         *)
(* The SDKs have the same structures and decode them member by member;     *)
(* what a JSON value may be for a member depends on the SDK.  A JSON value *)
(* is a record; of a number it is kept whether it fits 32 bits ("int"),    *)
(* 64 bits ("long"), is an integer written with a point ("integral") or no *)
(* integer ("fraction").  An error's message is left out.                  *)
(***************************************************************************)
EXTENDS Sequences

CONSTANTS Absent,       \* ABSENT, None, nil
          Rejected      \* RustboxDecodeError and its like

Sdks == {"rust", "go", "python", "typescript"}

Null == [json |-> "null"]
String(text) == [json |-> "string", value |-> text]
Number(size) == [json |-> "number", value |-> size]
Boolean(bit) == [json |-> "boolean", value |-> bit]
Array(items) == [json |-> "array", items |-> items]
Object(members) == [json |-> "object", members |-> members]
Missing == [json |-> "missing"]

Unknown == "UNKNOWN"
Verdicts == {"AC", "WA", "RE", "TLE", "MLE", "OLE", "PLE", "FSE", "SIG", "SV", "ABUSE", "IE", "TIMEOUT"}
Statuses == {"pending", "running", "completed", "error"}
TerminalStatuses == {"completed", "error"}
HealthStatuses == {"ok", "ready", "not_ready"}
-----------------------------------------------------------------------------
(* The structures: their members in order, and what each member is.         *)
Timestamps == <<<<"created_at", "text">>, <<"started_at", "text?">>, <<"completed_at", "text?">>>>
Outcome == <<<<"verdict", "verdict?">>, <<"exit_code", "int?">>, <<"signal", "int?">>,
             <<"error_message", "text?">>>>
Output == <<<<"stdout", "text?">>, <<"stderr", "text?">>>>
Metrics == <<<<"cpu_time_secs", "number?">>, <<"wall_time_secs", "number?">>,
             <<"memory_peak_bytes", "long?">>>>
Execution == <<<<"id", "text">>, <<"language", "text">>, <<"status", "status">>,
               <<"timestamps", "timestamps">>, <<"result", "outcome">>, <<"output", "output">>,
               <<"metrics", "metrics">>, <<"evidence", "evidence">>>>
Accepted == <<<<"id", "text">>, <<"status", "status">>>>
CaseResult == <<<<"verdict", "verdict?">>, <<"passed", "flag">>, <<"stdout", "text?">>,
                <<"stderr", "text?">>, <<"expected", "text">>, <<"exit_code", "int?">>,
                <<"wall_time_secs", "number?">>>>
JudgeResult == <<<<"results", "cases">>, <<"all_passed", "flag">>>>
Pending == <<<<"id", "text">>>>
Health == <<<<"status", "health">>>>

Keys(structure) == {structure[i][1] : i \in DOMAIN structure}
KindOf(structure, key) ==
  structure[CHOOSE i \in DOMAIN structure : structure[i][1] = key][2]
-----------------------------------------------------------------------------
(* Mutant: what is not known is rejected.                                   *)
MemberOrRejected(known, raw) == IF raw \in known THEN raw ELSE Rejected

(* A value the SDK does not know is UNKNOWN.                                *)
Member(known, raw) == IF raw \in known \cup {Rejected} THEN raw ELSE Unknown

(* Mutant: null is no value, but an unknown one.                            *)
UnknownIfNull(json, decoded) == IF json = Null THEN Unknown ELSE decoded

Optional(json, decoded) == IF json = Null THEN Absent ELSE decoded

(* encoding/json leaves a Go variable as it is for null: "" or false.        *)
GoZero(type) == IF type = "boolean" THEN "false" ELSE ""

Scalar(sdk, type, json) ==
  IF json.json = type THEN json.value
  ELSE IF sdk = "go" /\ json = Null THEN GoZero(type)
  ELSE Rejected

(* Python takes the integers it can tell from floats, Rust and Go those that *)
(* fit the member's type, TypeScript any number without a fraction.         *)
Sizes(sdk, kind) ==
  IF kind = "number?" THEN {"int", "long", "integral", "fraction"}
  ELSE IF sdk = "typescript" THEN {"int", "long", "integral"}
  ELSE IF sdk = "rust" /\ kind = "int?" THEN {"int"}
  ELSE {"int", "long"}

Numeral(sdk, kind, json) ==
  IF json.json = "number" /\ json.value \in Sizes(sdk, kind) THEN json.value ELSE Rejected

Evidence(json) ==
  CASE json \in {Missing, Null} -> Absent
    [] json.json = "object" -> json
    [] OTHER -> Rejected

Leaf(sdk, kind, json) ==
  CASE kind = "text" -> Scalar(sdk, "string", json)
    [] kind = "text?" -> Optional(json, Scalar(sdk, "string", json))
    [] kind = "flag" -> Scalar(sdk, "boolean", json)
    [] kind = "status" -> Member(Statuses, Scalar(sdk, "string", json))
    [] kind = "health" -> Member(HealthStatuses, Scalar(sdk, "string", json))
    [] kind = "verdict?" -> Optional(json, Member(Verdicts, Scalar(sdk, "string", json)))
    [] kind = "evidence" -> Evidence(json)
    [] OTHER -> Optional(json, Numeral(sdk, kind, json))
-----------------------------------------------------------------------------
(* A structure is read from an object, in Rust also from an array of its     *)
(* members in order, which may end before a member that has a default.      *)
IsStructure(sdk, structure, json) ==
  \/ json.json = "object"
  \/ /\ sdk = "rust" /\ json.json = "array"
     /\ DOMAIN json.items \subseteq DOMAIN structure
     /\ \A i \in DOMAIN structure \ DOMAIN json.items : structure[i][2] = "evidence"

(* Mutant: a member that is missing is null.                                *)
FieldOrNull(structure, json, key) ==
  IF json.json = "object" /\ key \in DOMAIN json.members THEN json.members[key] ELSE Null

Field(structure, json, key) ==
  IF json.json = "array"
  THEN LET place == CHOOSE i \in DOMAIN structure : structure[i][1] = key
       IN  IF place \in DOMAIN json.items THEN json.items[place] ELSE Missing
  ELSE IF key \in DOMAIN json.members THEN json.members[key] ELSE Missing

(* A structure or a list is rejected with any of its parts.                 *)
Complete(value) == IF \E part \in DOMAIN value : value[part] = Rejected THEN Rejected ELSE value

Structure(sdk, structure, value, json) ==
  IF IsStructure(sdk, structure, json) THEN Complete(value) ELSE Rejected

Block(sdk, structure, json) ==
  Structure(sdk, structure,
            [key \in Keys(structure) |->
               Leaf(sdk, KindOf(structure, key), Field(structure, json, key))],
            json)

(* A Go slice is nil for null.                                              *)
List(sdk, value, json) ==
  IF sdk = "go" /\ json = Null THEN <<>>
  ELSE IF json.json = "array" THEN Complete(value)
  ELSE Rejected

Cases(sdk, json) ==
  List(sdk, [i \in DOMAIN json.items |-> Block(sdk, CaseResult, json.items[i])], json)

Part(sdk, kind, json) ==
  CASE kind = "timestamps" -> Block(sdk, Timestamps, json)
    [] kind = "outcome" -> Block(sdk, Outcome, json)
    [] kind = "output" -> Block(sdk, Output, json)
    [] kind = "metrics" -> Block(sdk, Metrics, json)
    [] kind = "cases" -> Cases(sdk, json)
    [] OTHER -> Leaf(sdk, kind, json)

(* Go does not ask whether pending and health have their only member.        *)
GoUnchecked(structure, json) ==
  \/ json = Null
  \/ json.json = "object" /\ \A key \in Keys(structure) : Field(structure, json, key) = Missing

Only(sdk, structure, json) ==
  IF sdk = "go" /\ GoUnchecked(structure, json)
  THEN [key \in Keys(structure) |-> ""]
  ELSE Block(sdk, structure, json)

ParseExecution(sdk, json) ==
  Structure(sdk, Execution,
            [key \in Keys(Execution) |->
               Part(sdk, KindOf(Execution, key), Field(Execution, json, key))],
            json)
ParseAccepted(sdk, json) == Block(sdk, Accepted, json)
ParseJudgeResult(sdk, json) ==
  Structure(sdk, JudgeResult,
            [key \in Keys(JudgeResult) |->
               Part(sdk, KindOf(JudgeResult, key), Field(JudgeResult, json, key))],
            json)
ParseLanguages(sdk, json) ==
  List(sdk, [i \in DOMAIN json.items |-> Scalar(sdk, "string", json.items[i])], json)
ParsePendingId(sdk, json) == Only(sdk, Pending, json)
ParseHealth(sdk, json) == Only(sdk, Health, json)

Done(execution) ==
  execution.status \in TerminalStatuses \/ execution.result.verdict # Absent
=============================================================================

# Verification of the Rustbox SDKs

This directory holds TLA+ models of the Rustbox SDKs (Python, TypeScript, Rust and Go), the TLC
configurations that check them on small instances and proofs that TLAPS checks for every instance.
Paths such as `rust/src/regions.rs` are relative to `src/`.

## The system

The four SDKs are clients of one HTTP API, the judge API, which runs code and returns a verdict. They
share a contract (`README.md:72-85`, `contract/contract.json`, `contract/scenarios.json`) and the same
division into parts:

| Part | State it keeps | Operations | Talks to |
|---|---|---|---|
| Configuration (`config`) | an immutable record: endpoint or region table, policies, timeout | `load` | the environment |
| Region selection (`regions`) | **process-wide**: the pick of each region table with its time, the time of each base's last failure; **per client**: a lock (Rust, Go, Python) or the promise of the selection in flight (TypeScript) | `current`, `report_failure` | transport (`probe`) |
| Transport (`transport`) | the HTTP client; per request an attempt counter | `send` with retries, `probe`, error mapping, body decoding | the network |
| Client (`client`) | nothing of its own besides the parts above | `submit`, `run` (submit, wait, poll), `get_result`, `judge`, `get_languages`, `get_health`, `get_ready` | regions (`current`, `report_failure`), transport |
| Models (`models`) | none | decoders; `is_done` | |
| Errors (`errors`) | none | the kinds, which of them are transient | |
| Judge API (external) | the runs of each region, by id and idempotency key | submit, result, judge, reads | |

An operation asks `regions` for its base, hands it to `transport`, and reports a failure that is still
transient after the retries back to `regions`. The picks and penalties are the only state that calls
share, and every client of the process shares them.

What is hard, and what makes each part correct:

* **Region selection.** A selection reads penalties, picks and the time, waits for probes, then writes
  a pick; failures of other calls, selections of other clients and the passing of time fall between
  these steps, and a caller may go away at any await. Correct means: a region that failed is skipped
  for the penalty and for no longer; a pick is shared while it is fresh; a pinned client never moves
  and never blames anyone; every caller gets an endpoint.
* **Client and transport.** A request may be lost, served without an answer, served after the client
  gave it up and retried it, or answered with a body that breaks off. Correct means: one call, one
  execution; `run` returns the end of its own execution, from the region that has it; the region is
  blamed after the last attempt; every operation returns.
* **Delays.** Powers of two and floating growth at the limits of integer widths: the delay is
  `min(base * 2^n, cap)` for every `n`.
* **Configuration.** The precedence of five sources of the endpoint and the validation of each.
* **Models.** Unknown enum values decode to `UNKNOWN`; absent and null members are told apart.

## The modules

| Module | What it is |
|---|---|
| `CallHistory` | history variables: how penalties and picks have stood since each call began, and the two promises about a call's endpoint stated over them (`SkipsFailed`, `Keeps`). The SDKs keep no such state and nothing depends on it. |
| `Failover` | the abstract promise of region selection: one step chooses a call's endpoint. |
| `Regions` | `rust/src/regions.rs`, and how `client.rs` calls it. Composes `CallHistory`; implements `Failover`. |
| `RegionsProofs` | the inductive invariant of `Regions` and the theorems about it. |
| `RegionsGo`, `RegionsPy` | `go/regions.go` and `python/rustbox/regions.py`: the steps of `Regions`, as each language schedules, cancels and ends them. Each extends `Regions`. |
| `SelectorsProofs` | the proof that each is a special case of `Regions`, and what that gives; the theorems of each of its own. |
| `RegionsTs` | `typescript/src/regions.ts`, and how `client.ts` calls it. Composes `CallHistory`. |
| `RegionsTsProofs` | its inductive invariant and the theorems about it. |
| `JudgeApi` | the external judge API and the network before it, as far as the SDKs rely on them. |
| `Exchange` | the abstract promise of an operation: one base, repeated only what can be, a result of its own. |
| `ExchangeProofs` | one execution for each call and `run`'s own result, proved of `Exchange`. |
| `Operations` | the state of a call, the vocabulary of the four clients, and their properties. Extends `JudgeApi`; refers to `Exchange` as `Promise`. |
| `ClientRust`, `ClientGo`, `ClientPy`, `ClientTs` | the client and transport of each SDK (`client.*`, `transport.*`). Each extends `Operations`. |
| `AnyClient` | what the four clients have in common, a specification between each of them and `Exchange`. |
| `AnyClientProofs`, `ClientsProofs` | its invariant and the proof that it implements `Exchange`; the proof that each SDK implements it. |
| `RustboxTs` | the TypeScript SDK as a whole: composes `RegionsTs` (as `Selector`) and `ClientTs` (as `Client`). |
| `RustboxTsProofs` | the proof that the whole is both of its parts, and the theorems that need the two together. |
| `Config` | the loading of a client's configuration in the four SDKs (`config.*`). |
| `Models` | the decoding of the API's answers (`models.*`). |
| `Responses` | what an SDK makes of a response: the expected statuses, the errors, the decoded value (`transport.*`, `client.*`). Extends `Models`. |
| `Delays` | the backoff and the poll delays (`config.*`). |
| `Contract` | what the SDKs share by the contract: composes `Config`, `Responses` and `Delays`, and names what is assumed of options, answers and constants. |
| `ContractProofs` | the invariants of the three and the theorems about them. |
| `MCRegions`, `MCRegionsTs`, `MCClients`, `MCRustboxTs`, `MCContract` | the instances TLC checks. `MCContract` gives `Contract` its options and answers; a behaviour loads, reads or waits. |

Definitions commented as mutants are deliberate mistakes: each property is shown to fail when a mutant
takes the place of the definition it is a variant of, so that no property holds for want of a way to
break it. No specification uses them.

### Regions

`picked` and `penalisedAt` are `ProcessRegions`; `selecting[k]` is client `k`'s tokio mutex, held by a
call or free; `pc`, `now`, `candidates`, `base` are the locals of a call. One action is what happens
between two points at which another thread can get in:

| Action | Code |
|---|---|
| `Begin` | an operation calls `base_url` |
| `UsePin` | `current` of a pinned client |
| `Acquire` | the tokio mutex is taken and `select` reads the time |
| `Filter` | `candidates`, and the return of an only candidate |
| `LookUp` | `cached` |
| `Store` (by `Probed`) | the probes have ended; the fastest or the fallback is inserted with the time read before |
| `Succeed`, `Fail` | the operation ends; `Fail` calls `report_failure` |
| `Drop` | the future of the call is dropped at an await, and its mutex guard with it |
| `Tick` | time passes |

Which probes answer, and which of them is fastest, is any. A table is the set of its base URLs.

### RegionsGo and RegionsPy

Both selectors have the state and the steps of the Rust one, so they are `Regions` with other callers.

In Go no call goes away: one whose context is cancelled (`Cancel`) waits for the mutex all the same,
since a `sync.Mutex` knows no context, probes in vain if it was cancelled before the probes were sent
(`GoProbed`), and stores the fallback. What comes then depends on who asked (`HandBase`). An operation
fails to send, which is reported like any failure (`GoFail`) and removes the pick it has just stored. The
exported `Client.BaseURL(ctx)` (`go/client.go:31`) returns the base and sends nothing (`asked`,
`GoSucceed`), so that its fallback stays the pick of the process until it expires or somebody's request
fails: finding 6. `blind` is a history variable: of a pick that a cancelled call stored without an
answer, the operation that is to take it back, or none.

In Python a task that has the asyncio lock filters and looks up without an await, so no other task is
between its awaits then (`Runs`); the clock goes on. A task is cancelled at an await (`Drop`). The
application may close a client (`Close`): a call that begins to probe after that gets no answers
(`PyProbed`), and one that begins to send gets an error that is not the region's (`PyFail`). Calls that
have begun either before (those not in `muted`) go on. All clients are of one event loop.

### RegionsTs

One thread: an action is what runs between two awaits. `selecting[k]` is the client's promise with the
stage of the `select()` behind it. `Current` starts or joins a selection, `Probed` ends it, `Clear` is
the `finally` callback, `Resume` the continuation of a caller. `joined` is a history variable.

### The clients

A call goes `idle`, `attempting`, `backoff`, `polling`, `done`. Which base a call starts with is
Regions' business and any base here. An attempt ends in one step, and every way it can end is an
action. These are common to the four SDKs, each with the guards of its own code:

| Action | Code |
|---|---|
| `Start` | the operation checks its key, gets a base and enters `send`; or it is rejected before |
| `AttemptFails`, `Retry` | a 5xx, a timeout or a network error with attempts left; the sleep, and the next attempt |
| `LastAttemptFails` | the same with none left: the error is returned and the region reported |
| `Refused` | a 4xx or a status the operation does not expect |
| `BodyFails` | an answer whose body cannot be read or decoded |
| `AnswerRun`, `Poll`, `AnswerResult` | `run`'s submission, and the reads of its result until `is_done` or the last delay; `get_result` |
| `AnswerSubmit`, `AnswerJudge`, `AnswerRead` | the other operations |

They differ where it matters:

| SDK | Its own behaviour |
|---|---|
| Rust | a future may be dropped at any await (`Drop`); the body is read after `send` has returned, so what goes wrong with it is neither retried nor reported |
| Go | a context may be cancelled: in `send` that is taken for a failure of the region (`CancelSend`), between polls it is not (`CancelPoll`); `Run` may fail to make its key; the body as in Rust |
| Python | a task may be cancelled (`Drop`); the body is read inside the attempt and retried with it; the client may be closed under its calls (`Close`), which end at the next attempt (`RetryWhenClosed`) or poll (`PollWhenClosed`); a body that cannot be decompressed is an httpx `DecodingError`, which `send` does not know, so it ends the call as it is (`AttemptThrows`). All calls of the model are of one client |
| TypeScript | a call cannot be cancelled; once the headers have come the body is read without a bound (`Stall`, the place `reading`); errors that `attempt` does not know pass through (`AttemptThrows`, `BodyFails`) |

Of the errors the model keeps what the code tells apart: `transient` (server, timeout, transport),
`refused` (auth, rate limit, api), `not_found` (the 404 of a result), `decode`, `config`, and
`unclassified` for what is none of the SDK's. `closed` and `cancelled` are the application's doing.

The judge API is external and does what the SDKs rely on: a region answers a keyed submission with the
run an earlier one with that key has started there; a waiting submission is answered at the end of the
run, or before it with its id; a region knows its own runs only. A run is identified with the request
that started it. A post without an answer has not reached the region, has been served, or is still
`flying` and may be served at any later time (`Deliver`).

### RustboxTs

The variables of `Operations` are the operations', those of `RegionsTs` the selectors', with its `pc`
and `base` renamed `where` and `endpoint`. An operation calls `current` (`Ask`), goes on with what it is
given (`Send`), takes the steps of `ClientTs` (`Work`), and when it returns tells its selector how it
went (`ReturnToApp`): of a failure only if `send` reported one. `Refuse` is a submit with a bad key,
which never asks. `Elsewhere` is the event loop, the clock and the judge API. A call is made once.

### Config

An application makes a client with each SDK, in any order, with the same `options` in the same
environment. `LoadRust`, `LoadGo`, `LoadPy` and `LoadTs` are the four `load`s, each with the checks and
the precedence of its own code; an error leaves `Rejected`, and anything else the endpoint the client is
pinned to, its table as it was checked, and the region it falls back to. Go and Python test a variable
for the empty string where they use it, Rust with `NonEmpty`, TypeScript where it reads the environment
(`ProcessEnv`). Python and TypeScript look the default region up when no probe answers, and take the
first candidate if there is none; Rust and Go settle it at the load. A URL is a record: whether its
scheme is one of the two, its host, and the trailing slashes, which `Url` removes. Rust's types have no
negative retries or timeouts, so `LoadRust` has no such options.

### Models, Responses and Delays

A JSON value is a record of its type and what it holds; a structure is the sequence of its members, each
with the kind the decoder asks for. The kinds are the same in the SDKs; what is taken for a kind is not,
and that is what `Models` is about. TypeScript and Python check each member by hand, Rust derives the
decoders (an array of the members in order is a structure for serde, from which `evidence`, the last
member and one with a default, may be missing) and Go uses `encoding/json`, where null leaves a variable as it is, with `requireKeys` for most structures but not for `pending` and
`health` (`GoUnchecked`). Of a number it is kept how it is written and how large it is. A response is a
status, a Retry-After, and a body; `Read(sdk)` is what `send`'s last answer and `expect` make of it.
`Conforms` is the contract (`contract/contract.json:51-86`): in `Strict` what every SDK must read, in
`Lax` what one may.

`Delays` walks through the retries and the polls of a client: `RustBackoff` has `checked_pow` of `u32`,
`GoBackoff` the loop over an `int64`, `BackoffMs` the arithmetic of Python and TypeScript. Left out: keys
that differ in case or come twice, the precision of large numbers, the characters of a header.

## The runs

| Run | Shows | Instance |
|---|---|---|
| `regions` | types; a region is left out only while penalised; a call skips failed regions and uses the shared pick; a cancelled Go operation takes back what it picked without an answer; what a Python call gets without probing has not failed; the selector implements `Failover` | Rust: a call of each of 2 clients, one table of 3 regions; Go, Python: the same with 2 regions, calls cancelled, a client closed |
| `regions_live` | every call gets its endpoint; picks only get newer while one client chooses; pinned clients stay and blame nobody | 2 calls of a client that selects, in Rust 1 of a pinned one, 2 regions |
| `regions_go_base` | **violation**: a call gets as the shared pick the fallback that `Client.BaseURL` stored with a cancelled context | Go: one call at a time of one client, 2 regions |
| `regions_ts` | types; a call that starts its own selection skips failed regions and uses the shared pick; nobody awaits a forgotten promise; every call gets its endpoint | a call of each of 2 clients and 3 regions; 2 calls of a client, or 1 and 1 of a pinned one, and 2 regions |
| `regions_ts_joined` | **violation**: a call that joins a selection in flight gets a region that failed before the call began | 2 calls of one client, 2 regions |
| `clients` | types; one call, one execution; `run` returns, polls and gives up its own; a region is blamed only after the last attempt; every call returns, or is left to read a body; each SDK implements `Exchange` | the 4 SDKs, each with 5 scenarios of one or two calls, 2 regions, 1 retry, 2 polls |
| `rustbox_ts` | only the region that failed a call for good is penalised, whatever is picked by then; `run` finds its run on the region that accepted it; `get_result` of the same client finds it if the client is pinned or alone in selecting from its table, until a region fails or the pick expires | a `run` or an unkeyed submit, a `get_result` of its id and a read, 2 regions, a pinned client, 1 retry, 1 poll |
| `client_pickup` | **violation**: `get_result` does not find a run on another region | Rust: `run`, `get_result` |
| `client_body` | **violation**: a body that breaks off is neither retried nor reported | Rust: a read |
| `client_cancel` | **violation**: a cancelled call is held against its region | Go: a read |
| `client_stall` | **violation**: a body that stalls is awaited for ever | TypeScript: a read |
| `contract` | the endpoint is resolved in the documented order; the four SDKs accept the same options; the fallback is a base of the checked table; every answer of the contract is read, and alike; TypeScript and Python read nothing else; an execution is done when its status is terminal or it has a verdict; the same errors; the backoff doubles to its cap and the polls slow down to theirs | options, environments, answers and waits as below |

**Bounds.** The properties of a call's endpoint relate it to what other calls do to the picks and
penalties, which they can do from the same client or from another; the calls of an instance return to
`idle` and begin again, so two or three stand for a sequence of any number. Three regions make a choice
among the healthy ones beside a penalised one, two make a choice. `TTL = 2` and `Penalty = 1` keep the
two apart, and `MaxTime = 2` lets a penalty be past its end and a pick at its limit (`regions_live` and
`regions_go_base`, where time decides only who is picked, have 1, 0 and 1). A property of
the clients relates a call to one other with its key or its run, so two calls at a time are enough:
the scenarios are a `run` and a `get_result` of its id, two submits with one key, an unkeyed submit and
a `get_result`, a `judge` and a read, a submit with a bad key and a read. The retries are alike, and two
polls leave one between the first and the last; `MaxRetries` and `MaxPolls` are parameters of the code.
The sources of an endpoint are each absent, empty, invalid or one of one or two valid values, in every
combination; the tables have the default region or not, a slash to trim, a bad URL, or nothing; of the
key, the retries and the timeout one at most is invalid, since each is checked by itself.
The answers are one of the contract for each operation and all that differ from it in one member, which
is left out or has one of fourteen values; all combinations of five statuses and three verdicts; error
bodies and Retry-Afters likewise. No member's decoding depends on another's, so one at a time is enough.
The integers of `Delays` have 6 and 9 bits, narrow enough for `2^attempt` and the doubling to pass them
within 12 retries; the poll delays are the real ones in microseconds.
The clock is bounded by `MaxTime`. The theorems have none of these bounds.

**Deadlock** is checked in the region runs. The client runs and
`rustbox_ts` switch it off: a call is made once, and the system stops when all have returned. So does
`contract`, where each SDK loads or reads once.

**Fairness.** Rust selector: the runtime polls every ready future (weak fairness of a selection's steps;
probes end by their own timeout), and tokio's mutex serves its waiters in order, so a call that can
acquire it again and again does (strong fairness of `Acquire`). Go: the same, of goroutines and a
`sync.Mutex`, which hands itself to a starved waiter. Python: the event loop runs its ready tasks in turn
and asyncio's lock its waiters in order; a task can go on only while no other is between two awaits, so
that too is strong fairness (`PyAdvance`). TypeScript selector: the event loop runs
every callback. Clients: an attempt ends by the client's timeout and a sleep ends (weak fairness of each
SDK's `Go(c)`), but nothing ends the reading of a body in TypeScript, so that is left out. Nothing is
assumed of calls that have not begun, of failures, or of the server.

## The findings

1. `typescript/src/regions.ts:30`: `current()` joins the selection in flight whatever happened since it
   began. A call that begins after a region failed can be sent to that region, because the candidates of
   the selection it joins were computed before. The Rust selector is proved free of it (`Skips`).
2. `rust/src/client.rs:140`: `get_result` asks the region of the day, not the one that accepted the run.
3. `rust/src/transport.rs:173`: an error while the body is read is neither retried nor reported.
4. `go/transport.go:66`: the error of a context the caller has cancelled is a transport or timeout
   error, so cancelling one call makes every client of the process leave a healthy region.
5. `typescript/src/transport.ts:129`: the timer of a request is cleared when the headers have come, so
   "Per-request timeout" (`typescript/README.md:64`) does not cover the body.
6. `go/regions.go:135`: `Client.BaseURL(ctx)` with a cancelled context stores the fallback, which no probe
   has reached, as the pick of every client of the process, and reports nothing that would remove it. For
   up to `CacheTTL` (6 hours) later calls use it without probing, where `README.md:85` says that the
   selection "picks the fastest, and shares that pick". A cancelled operation does not have this effect
   for longer than its own failure takes (`TakenBack`).

Read but not given a run: a Python client that is closed while it selects stores the fallback as the
pick of every client without an answer, and the error of its call takes nothing back
(`python/rustbox/client.py:92`); a Retry-After of superscript digits passes `isdigit` and fails in `int`
(`python/rustbox/transport.py:90`); `report_failure` drops the table's pick whichever base failed
(`rust/src/regions.rs:63`), so a slow failure of an abandoned region makes every client probe again;
`contract/scenarios.json:357` says "a body of the wrong shape is a decode error", but Go reads a health
answer of `null`, or an object without a status, as an empty status, a `null` list as none, a `null`
string as an empty one (`go/models.go:195`), and Rust reads a structure from an array; and
`README.md:77` says a run that exhausts its budget "raises a timeout error",
where the SDKs and `contract/contract.json:50` have the kind `still_running`.

## The proofs

### The Rust selector

`RegionsProofs` proves, for any numbers of calls, clients, tables and regions and any `TTL`, `Penalty`
and `MaxTime`, from the assumptions `Regions` names (what the tables hold, that the fallback and the
first of a set are in it, that times are naturals and `None` is none of the values):

| Theorem | Statement |
|---|---|
| `Typing` | `Spec => []TypeOK` |
| `LeftOut` | `Spec => []LeftOutOnlyWhilePenalised` |
| `PinnedStays` | `Spec => []PinnedNeverAbandoned` |
| `Skips` | `Spec => SkipsFailedRegions` |
| `Shares` | `Spec => UsesSharedPick` |
| `PicksGetNewer` | `Spec => OlderPickOnlyFromAnotherClient` |
| `Refines` | `Spec => ImplementsFailover` |

All rest on one inductive invariant, `IInv`. None of the properties is inductive: that a call is not
sent to a failed region depends on what its selection read two steps earlier. `IInv` relates the two:
no timestamp lies in the future (`ClockInv`); a selecting call holds its client's mutex (`LockInv`); the
bases of `avoid[c]` are penalised now (`AvoidInv`), those of `clean[c]` are healthy now and were when
the selection read the time (`CleanInv`), so the latter are candidates and then the former are not
(`SkipInv`); a call that may rely on a pick does not probe (`SharedInv`); and while one client chooses
from a table no pick is newer than its selection (`OrderInv`). There is a lemma for each action, and
`LeaveStep` for what the ways a selection ends have in common.

### The Go and Python selectors

`SelectorsProofs` proves that each step of either selector is a step of `Regions` or
changes nothing `Regions` has (`GoIsRegions`, `PyIsRegions`), from which the theorems above follow for
each of them (`GoInvariants`, `GoSkips`, `GoShares`, `GoRefines`, and the same with `Py`). Their own:

| Theorem | Statement |
|---|---|
| `TakenBack` | `GoSpec => []OperationsTakeBlindPicksBack` |
| `ChoosesHealthy` | `PySpec => ChoosesHealthyWithoutProbing` |

`OperationsTakeBlindPicksBack` becomes inductive with the types and the fact that pinned clients store
no picks (`GoInv`). It is about operations only: the blind picks of `Client.BaseURL` have no owner, and
the theorem says nothing of how long they stay. For `ChoosesHealthy` the invariant is that a task about to look the pick up has the
candidates of now (`PyInv`), which holds because no other task runs meanwhile.

### The clients

Three layers, each proved for any calls, keys, regions, retries and polls, from the assumptions of
`JudgeApi` and `Operations` (operations are the five; UUIDs are not calls; `None` is none of the values;
the budgets are naturals):

1. `ExchangeProofs` proves of `Exchange` that a call causes at most one execution (`Once`) and that
   `run` returns its own (`ReturnsItsOwn`). Neither is inductive: a request may be served long after its
   call has returned. The invariant says that whatever is served or still under way is an attempt its
   call was worth, with the call's key, to the call's base (`OwnedInv`), and that a region executed a key
   once (`OneRunPerKey`). Two runs of one call then share key and base, or are its only attempt.
2. `AnyClientProofs` proves that `AnyClient` implements `Exchange` (`Implements`). Its invariant is a
   conjunction of type correctness and one invariant for each call (`CallInv`): a call under way has a
   key it may send, a base and no outcome; attempts and polls are within their budgets; the run that is
   polled is one of the call's base with the call's key; and the call ends as the properties say. A step
   of one call leaves the others' alone (`OthersKeep`), so there is a lemma for each action of one call.
3. `ClientsProofs` proves that every step of each SDK is one of `AnyClient` (`RustImplements`,
   `GoImplements`, `PyImplements`, `TsImplements`), with the invariant where a guard of the code is
   weaker than what it means (`attempt >= retries`). It follows for each SDK:

| Theorem | For each of the four SDKs |
|---|---|
| `SdksImplementExchange` | `=> ImplementsExchange` |
| `SdksTyped` | `=> []TypeOK` |
| `SdksReport` | `=> []ReportedOnlyWhenExhausted` |
| `SdksFindTheRun` | `=> []PollsFindTheRun` |
| `SdksGiveUp` | `=> []GivenUpAfterTheBudget` |
| `SdksExecuteOnce` | `=> []ExecutedAtMostOnce` |
| `SdksReturnTheirOwn` | `=> []RunReturnsItsOwn` |

### The TypeScript selector

`RegionsTsProofs` proves of `RegionsTs`, from the assumptions it names (those of `Regions`, and that `None`
is no stage of a selection):

| Theorem | Statement |
|---|---|
| `Typing` | `Spec => []TypeOK` |
| `NobodyIsStranded` | `Spec => []NoAwaiterIsStranded` |
| `Skips` | `Spec => OwnSelectionSkipsFailedRegions` |
| `Shares` | `Spec => []OwnSelectionUsesSharedPick` |

The callers of a selection and the selection itself are apart here, so the invariant follows the promise:
a promise in flight is awaited by the call that started it (`AwaitsInv`), whose history is that of the
candidates it has (`FlightInv`); what it settles with is a base of its table (`EndpointInv`); what a
caller that started it sees of its choice, when it resumes, is still what was true when the candidates
were read (`SkipInv`, `PickInv`, `SharedInv`). For a call that joined another's selection the last three
do not hold, which is the finding of `regions_ts_joined`.

### The whole TypeScript SDK

`RustboxTsProofs` proves first that the whole is each of its parts: hidden in one behaviour of
`RustboxTs` are one of `ClientTs` (`SdkIsClient`) and one of `RegionsTs` (`SdkIsSelector`), so whatever is
proved of the two, the implementation of `Exchange` included, holds of the SDK. Then, what only the two
together have:

| Theorem | Statement |
|---|---|
| `PenaltiesEarned` | `SdkSpec => []PenaltiesAreEarned` |
| `RunFound` | `SdkSpec => []RunIsFoundWhateverIsPicked` |
| `PickedUp` | `SdkSpec => []PickedUpWhileThePickStands` |

They rest on the invariants of both parts, on `IdInv` of `AnyClientProofs` (an id an application holds
was given by a call, of the run that its region has) and on `SdkInv`, which relates the two: a call under
way has in `ClientTs` the base the selector gave it (`LinkInv`); a base with a penalty is that of a call
that failed for good (`PenaltyInv`); bases are of the client's table (`BaseInv`); and, as long as nothing
was penalised and the clock is before `TTL`, a client that selects alone has one pick, which stands for
all its calls (`StandInv`: `Stands`, `IsPick`, `OwnPick`). The condition `SelectsAlone` is needed: two
clients of a table that select at once each store a pick, and the second takes the place of the first
though no region has failed. The assumptions are those of the parts: `TablesAssumption` (clients have
tables of bases, and are pinned to a base or not at all) and `ClockAssumption` (the times are naturals, and
`None` is no time, pick or selection).

### What the SDKs share by the contract

`ContractProofs` proves what the run `contract` checks, for all options and environments, all answers, and
all widths, bases, caps and numbers of retries and polls:

| Theorem | Statement |
|---|---|
| `Resolves` | `Configs!Spec => []ResolvedInOrder` |
| `Agree` | `Configs!Spec => []SdksAgree` |
| `FallsBack` | `Configs!Spec => []FallsBackToARegion` |
| `BacksOff` | `D!Spec => BackoffDoublesToTheCap` |
| `SlowsDown` | `D!Spec => PollsSlowDown` |
| `Report` | `R!Spec => []SameErrors` |
| `ReadsTheContract` | `R!Spec => []SdksReadTheContract` |
| `ReadsNothingElse` | `R!Spec => []TheCheckingSdksReadNothingElse` |
| `DoneAtTheEnd` | `R!Spec => []DoneWhenItEnded` |

*Configuration.* What a load makes does not depend on the loads before it, so the agreement of the SDKs is
an agreement of each with one: `ConfigInv` says that what any of them has made of the options is what
Go's precedence and checks make of them. The rest follows from `ConfigInv` alone.

*Answers.* `ReadInv` says that what an SDK has read is what its code makes of the response. The theorems
are then about the decoders, and go up the answers: what each SDK makes of a leaf of the contract is the
same and no rejection (`LeavesAlike`), so is what it makes of a structure of leaves (`BlocksAlike`), of a
list of cases or languages, and of a whole answer (`AnswersAlike`); and the other way, what TypeScript
and Python take is of the contract, from `LeavesChecked` to `AnswersChecked`.

*Delays.* `BackoffInv` says that a wait is the one its attempt calls for, and `BackoffIs` that the next one
is twice that or the cap. The powers of two of Rust, Python and TypeScript and the loop of Go are recursive
functions on the natural numbers: that there are such functions is `Recursion`, from the least number
without a start of one (`LeastOf`), and that Go's never wraps around is `DoubledIs`.

The assumptions are named in `Contract`: options are URLs, tables of URLs and integers
(`OptionsAssumption`); answers are JSON, as deep as the decoders look (`JsonAssumption`); `None`, `Absent` and
`Rejected` are not among the values (`NoneAssumption`, `AbsentAssumption`, `RejectedAssumption`); a
Retry-After that is a number is a natural (`RetryAfterAssumption`), and Rust's u64 holds what Go's int
does (`WidthsAssumption`); the backoff's base is at most its cap and a duration has room for twice
the cap, as with 100 ms, 5 s and 64 bits (`BackoffAssumption`); the first poll comes after two microseconds
or more, and its wait is at most the cap (`PollsAssumption`). TLC evaluates them in the run `contract`.

### What is only model-checked

`EveryCallIsPlaced` and `EveryCallReturns`: liveness needs reasoning about fairness and ENABLED that the
prover does not do. What the violation runs show is shown by their counterexamples. Everything else that
a passing run checks is also proved.

## The plan

Left: the other SDKs composed with their selectors as TypeScript is, at the cost of one instance each.

Not modelled, and why: webhooks (the server's; the SDKs have no code for them), header contents, request
bodies, paths and messages (no property depends on them), NaN and infinite timeouts (TLC has no floats),
packaging.

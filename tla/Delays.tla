-------------------------------- MODULE Delays -------------------------------
(***************************************************************************)
(* The waits of a client: the backoff between two attempts, and the delays *)
(* between two polls, in the arithmetic of each SDK.  The base and the cap *)
(* of the backoff, and the widths of the integers, are scaled down.        *)
(***************************************************************************)
EXTENDS Integers, FiniteSetsExt

CONSTANTS BackoffBase, BackoffCap,      \* RetryPolicy
          MaxRetries,
          FirstDelay, PollCap, MaxPolls, \* PollPolicy, in microseconds
          FactorBits,                   \* of Rust's factor: u32
          DurationBits                  \* of Go's time.Duration: int64

VARIABLES sdk,          \* whose client it is
          attempt,      \* the attempt that failed last
          backoff,      \* how long it waits before the next one
          poll,         \* the polls it has made
          delay         \* how long it waits before the next one

delayVars == <<sdk, attempt, backoff, poll, delay>>

AtMost(cap, value) == Min({cap, value})

PowerOfTwo[n \in Nat] == IF n = 0 THEN 1 ELSE 2 * PowerOfTwo[n - 1]

(* Mutant: the power wraps around.                                          *)
RustWrapping(n) == AtMost(BackoffCap, BackoffBase * (PowerOfTwo[n] % PowerOfTwo[FactorBits]))

RustBackoff(n) ==
  IF PowerOfTwo[n] >= PowerOfTwo[FactorBits] THEN BackoffCap
  ELSE AtMost(BackoffCap, BackoffBase * PowerOfTwo[n])

Wrapped(value) ==
  LET half == PowerOfTwo[DurationBits - 1]
  IN  ((value + half) % (2 * half)) - half

(* Mutant: the loop does not stop at the cap.                               *)
GoUnbounded(n) ==
  LET doubled[step \in 0 .. n] == IF step = 0 THEN BackoffBase ELSE Wrapped(2 * doubled[step - 1])
  IN  AtMost(BackoffCap, doubled[n])

Doubled(value) == IF value < BackoffCap THEN Wrapped(2 * value) ELSE value

AfterSteps[step \in Nat] == IF step = 0 THEN BackoffBase ELSE Doubled(AfterSteps[step - 1])

GoBackoff(n) == AtMost(BackoffCap, AfterSteps[n])

(* Python's integers have no bound, and TypeScript's end at Infinity.       *)
BackoffMs(n) == AtMost(BackoffCap, BackoffBase * PowerOfTwo[n])

Backoff(n) ==
  CASE sdk = "rust" -> RustBackoff(n)
    [] sdk = "go" -> GoBackoff(n)
    [] OTHER -> BackoffMs(n)

(* Mutant: the delays grow without end.                                     *)
GrownForever(value) == (3 * value) \div 2

(* The growth is 1.5: Go cuts what is left of a nanosecond off, the others   *)
(* keep it; no delay below the cap has any.                                 *)
Grown(value) == AtMost(PollCap, (3 * value) \div 2)

Init ==
  /\ sdk \in {"rust", "go", "python", "typescript"}
  /\ attempt = 0
  /\ backoff = BackoffBase
  /\ poll = 0
  /\ delay = FirstDelay

(* One more attempt fails.                                                  *)
Retry ==
  /\ attempt < MaxRetries
  /\ attempt' = attempt + 1
  /\ backoff' = Backoff(attempt + 1)
  /\ UNCHANGED <<sdk, poll, delay>>

(* The client has waited and polls; each poll has attempts of its own.       *)
Poll ==
  /\ poll < MaxPolls
  /\ poll' = poll + 1
  /\ delay' = Grown(delay)
  /\ attempt' = 0
  /\ backoff' = BackoffBase
  /\ UNCHANGED sdk

Next == Retry \/ Poll

Spec == Init /\ [][Next]_delayVars
-----------------------------------------------------------------------------
(* The backoff doubles until it is at the cap and stays there, however many   *)
(* retries the application allows: a client never hammers a region that     *)
(* fails, and never waits longer than the cap.                              *)
BackoffDoublesToTheCap ==
  [][attempt' > attempt =>
       /\ backoff' <= BackoffCap
       /\ backoff' = 2 * backoff \/ backoff' = BackoffCap]_delayVars

(* The waits between the polls grow until they are at the cap.               *)
PollsSlowDown ==
  [][poll' # poll => delay' >= delay /\ delay' <= PollCap /\ (delay' = delay => delay = PollCap)]_delayVars
=============================================================================

\* The configurations, the responses and the waits of the four SDKs.
CONSTANTS
  ByName <- MCByName
  Options <- MCOptions
  Environments <- MCEnvironments
  Responses <- MCResponses
  None = None
  Empty = Empty
  Rejected = Rejected
  Absent = Absent
  Default = "in"
  MaxInt = 7
  MaxWord = 15
  BackoffBase = 2
  BackoffCap = 100
  MaxRetries = 12
  FirstDelay = 40000
  PollCap = 600000
  MaxPolls = 45
  FactorBits = 6
  DurationBits = 9
  Parts = {"config", "responses", "delays"}
SPECIFICATION MCSpec
CHECK_DEADLOCK FALSE
INVARIANTS
  ResolvedInOrder
  SdksAgree
  FallsBackToARegion
  SdksReadTheContract
  TheCheckingSdksReadNothingElse
  DoneWhenItEnded
  SameErrors
PROPERTIES
  BackoffDoublesToTheCap
  PollsSlowDown

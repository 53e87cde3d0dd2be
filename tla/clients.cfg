\* Every operation of every SDK: a run or an unkeyed submit and a get_result of its
\* id, two submits with one key, a judge, a read, a submit with a bad key.
CONSTANTS
  r1 = r1
  s1 = s1
  s2 = s2
  s3 = s3
  s4 = s4
  j1 = j1
  g1 = g1
  h1 = h1
  u1 = u1
  Sdks = {"rust", "go", "python", "typescript"}
  Calls = {r1, g1, s1, s2, s3, s4, j1, h1}
  Scenarios <- MCScenarios
  Op <- MCOp
  GivenKey <- MCGivenKey
  Uuids = {u1}
  Bases = {a, b}
  MaxRetries = 1
  MaxPolls = 2
  None = None
SPECIFICATION MCFairSpec
CHECK_DEADLOCK FALSE
INVARIANTS
  TypeOK
  ExecutedAtMostOnce
  ReportedOnlyWhenExhausted
  RunReturnsItsOwn
  PollsFindTheRun
  GivenUpAfterTheBudget
PROPERTIES
  EveryCallReturns
  ImplementsExchange

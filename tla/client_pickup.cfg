\* A run that is given up, and a get_result of its id.
CONSTANTS
  r1 = r1
  s1 = s1
  s2 = s2
  s3 = s3
  s4 = s4
  j1 = j1
  g1 = g1
  h1 = h1
  u1 = u1
  Sdks = {"rust"}
  Calls = {r1, g1}
  Scenarios = {{r1, g1}}
  Op <- MCOp
  GivenKey <- MCGivenKey
  Uuids = {u1}
  Bases = {a, b}
  MaxRetries = 0
  MaxPolls = 0
  None = None
SPECIFICATION MCSpec
CHECK_DEADLOCK FALSE
INVARIANTS
  PickedUpLater

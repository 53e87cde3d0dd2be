\* A run or an unkeyed submit, a get_result of its id and a read, of one client or of a
\* pinned one; a submit with a bad key.
CONSTANTS
  r1 = r1
  s3 = s3
  s4 = s4
  g1 = g1
  h1 = h1
  p1 = p1
  k1 = k1
  k3 = k3
  t1 = t1
  a = a
  b = b
  x = x
  Scenarios <- MCScenarios
  Calls = {r1, s3, s4, g1, h1, p1}
  Op <- MCOp
  GivenKey <- MCGivenKey
  Uuids = {}
  Clients = {k1, k3}
  Tables = {t1}
  Bases = {a, b, x}
  ClientOf <- MCClientOf
  TableOf <- MCTableOf
  BasesOf <- MCBasesOf
  Pin <- MCPin
  Preferred <- MCPreferred
  First <- MCFirst
  MaxRetries = 1
  MaxPolls = 1
  TTL = 2
  Penalty = 1
  MaxTime = 2
  None = None
SPECIFICATION MCSpec
CHECK_DEADLOCK FALSE
INVARIANTS
  PenaltiesAreEarned
  PickedUpWhileThePickStands
  RunIsFoundWhateverIsPicked

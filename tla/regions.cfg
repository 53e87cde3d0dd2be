\* Two calls of two clients: three regions in Rust, two in Go and Python.
CONSTANTS
  Sdks = {"rust", "go", "python"}
  c1 = c1
  c2 = c2
  c3 = c3
  c4 = c4
  c5 = c5
  k1 = k1
  k2 = k2
  k3 = k3
  k4 = k4
  k5 = k5
  t1 = t1
  t2 = t2
  a = a
  b = b
  d = d
  x = x
  Made <- MCTwoClients
  Calls = {c1, c3, c4, c5}
  Clients = {k1, k2, k4, k5}
  Bases = {a, b, d}
  Tables = {t1, t2}
  ClientOf <- MCClientOf
  TableOf <- MCTableOf
  BasesOf <- MCBasesOf
  Pin <- MCPin
  Fallback <- MCFallback
  First <- MCFirst
  TTL = 2
  Penalty = 1
  MaxTime = 2
  None = None
SPECIFICATION MCSpec
INVARIANTS
  TypeOK
  LeftOutOnlyWhilePenalised
  OperationsTakeBlindPicksBack
PROPERTIES
  UsesSharedPick
  SkipsFailedRegions
  ChoosesHealthyWithoutProbing
  ImplementsFailover

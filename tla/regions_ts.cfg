\* A call of each of two clients on one table of three regions, or two calls of a client
\* on a table of two, or one and a pinned one, with the fairness of the event loop.
CONSTANTS
  c1 = c1
  c2 = c2
  c3 = c3
  c4 = c4
  c5 = c5
  k1 = k1
  k2 = k2
  k3 = k3
  k4 = k4
  t1 = t1
  t2 = t2
  a = a
  b = b
  d = d
  x = x
  Scenarios <- MCScenarios
  Calls = {c1, c2, c3, c4, c5}
  Clients = {k1, k2, k3, k4}
  Bases = {a, b, d, x}
  Tables = {t1, t2}
  ClientOf <- MCClientOf
  TableOf <- MCTableOf
  BasesOf <- MCBasesOf
  Pin <- MCPin
  Preferred <- MCPreferred
  First <- MCFirst
  TTL = 2
  Penalty = 1
  MaxTime = 2
  None = None
SPECIFICATION MCFairSpec
INVARIANTS
  TypeOK
  OwnSelectionUsesSharedPick
  NoAwaiterIsStranded
PROPERTIES
  OwnSelectionSkipsFailedRegions
  EveryCallIsPlaced

\* Two calls of a client that selects, and in Rust one of a pinned client, with the
\* fairness of the runtimes.
CONSTANTS
  Sdks = {"rust", "go", "python"}
  c1 = c1
  c2 = c2
  c3 = c3
  c4 = c4
  c5 = c5
  k1 = k1
  k2 = k2
  k3 = k3
  k4 = k4
  k5 = k5
  t1 = t1
  t2 = t2
  a = a
  b = b
  d = d
  x = x
  Made <- MCOneClient
  Calls = {c1, c2, c3}
  Clients = {k1, k3}
  Bases = {a, b, x}
  Tables = {t1}
  ClientOf <- MCClientOf
  TableOf <- MCTableOf
  BasesOf <- MCBasesOf
  Pin <- MCPin
  Fallback <- MCFallback
  First <- MCFirst
  TTL = 1
  Penalty = 0
  MaxTime = 1
  None = None
SPECIFICATION MCFairSpec
INVARIANTS
  PinnedNeverAbandoned
PROPERTIES
  EveryCallIsPlaced
  OlderPickOnlyFromAnotherClient

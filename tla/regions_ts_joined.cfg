\* Two calls of one client, the second of which may join the selection of the first.
CONSTANTS
  c1 = c1
  c2 = c2
  c3 = c3
  c4 = c4
  c5 = c5
  k1 = k1
  k2 = k2
  k3 = k3
  k4 = k4
  t1 = t1
  t2 = t2
  a = a
  b = b
  d = d
  x = x
  Scenarios = {{c4, c5}}
  Calls = {c4, c5}
  Clients = {k4}
  Bases = {a, b}
  Tables = {t2}
  ClientOf <- MCClientOf
  TableOf <- MCTableOf
  BasesOf <- MCBasesOf
  Pin <- MCPin
  Preferred <- MCPreferred
  First <- MCFirst
  TTL = 2
  Penalty = 1
  MaxTime = 3
  None = None
SPECIFICATION MCSpec
PROPERTIES
  SkipsFailedRegions

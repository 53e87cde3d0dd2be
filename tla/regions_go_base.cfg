\* One goroutine that uses one Go client, for operations and for its base.
CONSTANTS
  Sdks = {"go"}
  c1 = c1
  c2 = c2
  c3 = c3
  c4 = c4
  c5 = c5
  k1 = k1
  k2 = k2
  k3 = k3
  k4 = k4
  k5 = k5
  t1 = t1
  t2 = t2
  a = a
  b = b
  d = d
  x = x
  Made <- MCOneCall
  Calls = {c1}
  Clients = {k1}
  Bases = {a, b}
  Tables = {t1}
  ClientOf <- MCClientOf
  TableOf <- MCTableOf
  BasesOf <- MCBasesOf
  Pin <- MCPin
  Fallback <- MCFallback
  First <- MCFirst
  TTL = 1
  Penalty = 0
  MaxTime = 1
  None = None
SPECIFICATION MCSpec
PROPERTY SharesWhatWasProbed

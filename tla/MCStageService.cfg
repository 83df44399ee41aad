SPECIFICATION Spec
CONSTANTS
  k1 = k1
  k2 = k2
  q1 = q1
  q2 = q2
  Keys = {k1, k2}
  Queries = {q1, q2}
  QueryOf <- MCQueryOf
  Calls = {c1, c2}
  Conns = {d1}
  Inputs = {x0, x1}
  None = None
INVARIANTS RegisteredAreOwn
PROPERTIES ImplementsWorker ResultsOutliveFetches ResourcesReturn
CHECK_DEADLOCK FALSE

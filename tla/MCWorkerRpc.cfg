\* A render, a change of its document and a method the worker does not know.
CONSTANTS
  Calls = {r1, m1, u1}
  Render = {r1}
  Mutate = {m1}
  Unknown = {u1}
  r1 = r1
  m1 = m1
  u1 = u1
  DocOf <- MCDocOf
  HS = HS
  None = None
  Compatible = TRUE
SPECIFICATION FairSpec
INVARIANTS TypeOK SettledMeansClosed
PROPERTIES CancelledNeverResolves NoStaleRender InvokedInOrder EveryCallSettles
\* The application may make no further call: every call made, the worker idle.
CHECK_DEADLOCK FALSE

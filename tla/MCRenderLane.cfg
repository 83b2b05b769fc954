\* Three requests of one key, one of interaction, and one owner of pauses.
CONSTANTS
  r1 = r1
  r2 = r2
  r3 = r3
  r4 = r4
  k1 = k1
  Requests = {r1, r2, r3, r4}
  Cancellable = {r1, r2, r4}
  Keys = {k1}
  NoKey = NoKey
  KeyOf <- MCKeyOf
  Priority <- MCPriority
  Distance <- MCDistance
  Owners = {view}
  view = view
  None = None
SPECIFICATION FairSpec
INVARIANTS TypeOK NoLostWakeup OneJobPerKey WaitersServed
PROPERTIES RequestsSettle
CHECK_DEADLOCK FALSE

SPECIFICATION Spec
CONSTANTS
  m1 = m1
  m2 = m2
  a1 = a1
  Transactions <- MCTransactions
  Manual = {m1, m2}
  Applications = {}
  Touching = {}
  UndoLimit = 2
  MaxRevision = 3
  Hosts = {FALSE}
INVARIANT ClosedKeepsNewest
CHECK_DEADLOCK FALSE

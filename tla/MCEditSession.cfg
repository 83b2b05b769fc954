SPECIFICATION FairSpec
CONSTANTS
  m1 = m1
  m2 = m2
  a1 = a1
  Transactions <- MCTransactions
  Manual = {m1}
  Applications = {a1}
  Touching = {m1}
  UndoLimit = 1
  MaxRevision = 3
  Hosts = {TRUE, FALSE}
INVARIANTS TypeOK CleanMeansWritten AnswerOnItsText
PROPERTIES ShellComesBack Implements
CHECK_DEADLOCK FALSE

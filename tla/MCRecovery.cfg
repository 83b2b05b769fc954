\* Two documents, so that an operation on one can disturb the other's entry.
CONSTANTS
  Docs = {a, b}
  a = a
  b = b
  Absent = Absent
  MaxRevision = 1
  MaxQueue = 2
  MaxFaults = 1
  MaxCrashes = 1
SPECIFICATION FairSpec
INVARIANTS TypeOK ManifestNeverAhead
PROPERTIES DiscardIsFinal OwnEntryOnly DiscardRuns
CHECK_DEADLOCK FALSE

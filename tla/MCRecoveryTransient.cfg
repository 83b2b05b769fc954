\* One failed read of the manifest, and what the next persist makes of it.
CONSTANTS
  Docs = {a, b}
  a = a
  b = b
  Absent = Absent
  MaxRevision = 0
  MaxQueue = 1
  MaxFaults = 1
  MaxCrashes = 0
SPECIFICATION Spec
PROPERTIES TransientErrorsNeverPrune
CHECK_DEADLOCK FALSE

\* Two pages whose models do not fit together, no bitmaps.
CONSTANTS
  p1 = p1
  p2 = p2
  Pages = {p1, p2}
  Scales = {}
  ModelBytes <- MCModelBytes
  PixelBytes <- MCPixelBytes
  MaxPages = 2
  MaxBytes = 2
  Budget = 2
  MaxRevision = 2
  MaxEpoch = 1
  MaxOutstanding = 2
SPECIFICATION FairSpec
INVARIANTS TypeOK LoadedIsCurrent
CHECK_DEADLOCK FALSE

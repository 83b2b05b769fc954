\* One page and its bitmaps at two scales, which do not fit together; every load and render ends.
CONSTANTS
  p1 = p1
  p2 = p2
  Pages = {p1}
  Scales = {1, 2}
  ModelBytes <- MCModelBytes
  PixelBytes <- MCPixelBytes
  MaxPages = 2
  MaxBytes = 2
  Budget = 2
  MaxRevision = 1
  MaxEpoch = 1
  MaxOutstanding = 2
SPECIFICATION FairSpec
INVARIANTS BitmapIsCurrent ClosedHoldsNothing
PROPERTIES LoadsSettle
CHECK_DEADLOCK FALSE

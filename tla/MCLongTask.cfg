SPECIFICATION Spec
CONSTANTS
  N = 2
  Keys <- AllKeys
  Key <- TwoKeys
  Stored <- Second
  MaxMounts = 2
  Loops = {l1, l2}
  Ops = {o1}
SYMMETRY Calls
INVARIANTS StoppedAsksNothing NoGhostRunning
PROPERTIES AskedOnce
CHECK_DEADLOCK FALSE

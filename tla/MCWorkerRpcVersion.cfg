\* A worker of another protocol version.
CONSTANTS
  Calls = {r1, m1}
  Render = {r1}
  Mutate = {m1}
  Unknown = {}
  r1 = r1
  m1 = m1
  DocOf <- MCDocOf
  HS = HS
  None = None
  Compatible = FALSE
SPECIFICATION FairSpec
PROPERTIES HandshakeSettles
CHECK_DEADLOCK FALSE

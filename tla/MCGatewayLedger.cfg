\* An SSE request and an agent request of one account that together want more
\* than it has for nothing, and one slot: closing a connection frees it while
\* the handler still works, so both handlers can be at work.
CONSTANTS
  r1 = r1
  r2 = r2
  u1 = u1
  ip1 = ip1
  Requests = {r1, r2}
  Agent = {r2}
  Image = {r2}
  Users = {u1}
  UserOf <- MCUserOf
  Ips = {ip1}
  IpOf <- MCIpOf
  Free = 3
  InputBound <- MCInputBound
  OutputLimit = 1
  MinOutput <- MCMinOutput
  InFlight = 1
  ImageInFlight = 1
  PerIpInFlight = 1
  None = None
  MaxFaults = 1
  MaxRestarts = 1
SPECIFICATION FairSpec
INVARIANTS TypeOK LedgerBalances FreeWithinAllowance PartialPaysDelivered NoLeaseLeftBehind
PROPERTIES SlotsReturn
CHECK_DEADLOCK FALSE

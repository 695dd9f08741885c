SPECIFICATION Spec
CHECK_DEADLOCK FALSE
CONSTANTS
  Requests = {r1, r2}
  Clients = {c1}
  NoClient = NoClient
  UnknownClient = UnknownClient
  Absent = Absent
  Emails = {e1}
  Providers = {google, outlook}
  Blank = Blank
  Asked = {google, outlook}
  Grants <- OnlyFull
  None = None
  UniqueConstraint = TRUE
  MaxInFlight = 2
  MaxFaults = 0
INVARIANTS ClientSingleProvider

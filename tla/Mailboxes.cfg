SPECIFICATION Spec
CHECK_DEADLOCK FALSE
CONSTANTS
  Requests = {r1, r2, r3}
  Clients = {c1}
  NoClient = NoClient
  UnknownClient = UnknownClient
  Absent = Absent
  Emails = {e1}
  Providers = {google, outlook}
  Blank = Blank
  Asked = {google, outlook, Blank}
  Grants <- FullOrBare
  None = None
  UniqueConstraint = TRUE
  MaxInFlight = 2
  MaxFaults = 1
SYMMETRY ProviderSymmetry
INVARIANTS TypeOK MailboxClientIsBound TokensMatchMailbox ExpiryBelongsToToken FinalStateAnnounced SingleProviderUnlessRaced OneMailboxUnlessRaced
PROPERTIES RefreshTokenKept RefreshExtendsUnlessRaced

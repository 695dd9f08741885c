SPECIFICATION Spec
CHECK_DEADLOCK FALSE
CONSTANTS
  Domains = {d1}
  Emails = {e1}
  Providers = {google, outlook}
  Blank = Blank
  Slots = {1, 2, 3}
  ListLimit = 1
  MaxClients = 2
  MaxBoxes = 2
  MaxClicks = 3
  MaxFaults = 1
INVARIANTS TypeOK RepeatHasCause QuietPageIsCurrent OneRefreshPerRow RefusalsAreForeign
PROPERTIES NothingSticks

SPECIFICATION Spec
CONSTANTS
  Tabs = {t1}
  None = None
  NoAuth = NoAuth
  MaxLogins = 2
PROPERTIES ExpiredSessionIsCleared

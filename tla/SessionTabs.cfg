SPECIFICATION Spec
CONSTANTS
  Tabs = {t1, t2}
  None = None
  NoAuth = NoAuth
  MaxLogins = 3
INVARIANTS CopiesAgree UnauthenticatedHasCause
PROPERTIES StaysSignedIn

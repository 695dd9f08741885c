SPECIFICATION Spec
CONSTANTS
  m1 = m1
  Jobs = {j1}
  Mailboxes = {m1}
  MailboxOf <- OneMailbox
  Workers = {w1, w2}
  NoWorker = NoWorker
  MaxStalled = 1
  Attempts = 2
  Missing = Missing
  Never = Never
  MaxTime = 1
  MaxFaults = 6
  NewTokens <- SoonOrNever
INVARIANTS TypeOK CompletedIsLogged OkVerdictJustified RepeatedRowsHaveCause LossNeedsRepeatedFaults AnnouncementsAccounted
PROPERTIES ImplementsLedger

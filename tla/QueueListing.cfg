SPECIFICATION Spec
CONSTANTS
  m1 = m1
  Jobs = {j1}
  Mailboxes = {m1}
  MailboxOf <- OneMailbox
  Workers = {w1, w2}
  NoWorker = NoWorker
  MaxStalled = 1
  Attempts = 3
  Missing = Missing
  Never = Never
  MaxTime = 1
  MaxFaults = 0
  NewTokens <- SoonOrNever
INVARIANTS ListingIsTruthful

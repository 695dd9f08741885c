SPECIFICATION Spec
CONSTANTS
  d1 = d1
  d2 = d2
  Deliveries <- TwoDeliveries
  RepeatOf <- OneRepetition
  NoDelivery = NoDelivery
  Mailboxes = {m1}
  Nobody = Nobody
  Workers = {w1, w2}
  NoWorker = NoWorker
  MaxStalled = 1
  Missing = Missing
  Never = Never
  EnvExpiry = Never
  NewTokens <- LaterOrNever
  MaxTime = 1
  MaxFaults = 2
INVARIANTS AnswerMatchesLog RowsHaveCause
PROPERTIES EventuallyLogged

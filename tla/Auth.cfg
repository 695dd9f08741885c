SPECIFICATION Spec
CHECK_DEADLOCK FALSE
CONSTANTS
  e1 = e1
  e2 = e2
  good = good
  better = better
  bad = bad
  Instances = {i1, i2}
  Requests = {r1}
  Emails = {e1, e2}
  Strong = {good, better}
  Weak = {bad}
  Generated = Generated
  Absent = Absent
  Settings <- Deployments
  MaxFaults = 1
INVARIANTS TypeOK FlagMatchesPassword ResetEndsLockout
PROPERTIES InstancesComeUp

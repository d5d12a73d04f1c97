SPECIFICATION Spec
CONSTANTS
  Conts = {c1}
  Origin = {c1}
  Workers = {w1}
  Daemons = {w1}
  Submitters = {}
  Plugins = {}
  Reviewers = {}
  MaxReceipts = 6
  MaxFaults = 1
  CALLBACK_RETRY_CAP = 1
INVARIANT OwnerIsAsked
CHECK_DEADLOCK FALSE

SPECIFICATION Spec
CONSTANTS
  Conts = {c1}
  Origin = {c1}
  Workers = {w1, w2}
  Daemons = {w1}
  Submitters = {w1}
  Plugins = {plugin}
  Reviewers = {w2}
  MaxReceipts = 4
  MaxFaults = 1
  CALLBACK_RETRY_CAP = 1
INVARIANTS
  WorkFollowsReceipt
  AskedOnceHandled
  AnswerIsCarriedOut
  WaitFollowsItsCondition
PROPERTY AnsweredIsNotReopened
CHECK_DEADLOCK FALSE

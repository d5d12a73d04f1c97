SPECIFICATION Spec
CONSTANTS
  MaxEvents = 3
  MaxTime = 5
  Inputs <- MCInputs
  Graphs = {g1, g2}
  Finals = {f1}
  Reviews = {r1, r2}
  Allowlisted <- Allowed
  max_rounds = 3
  max_same_blocker = 2
  cooldown_seconds = 2
  max_tasks_per_graph = 4
  max_auto_creates_per_run = 2
INVARIANTS
  RoundsAreSpent
  RemediationsAreSpaced
  SameBlockerIsBounded
  CardsFollowReceipts
CHECK_DEADLOCK FALSE

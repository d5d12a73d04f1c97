SPECIFICATION Spec
CONSTANTS
  N = 2
  Calls = {c1}
  Daemons = {d1, d2}
  Reports <- MCReports
  max_chain_depth = 2
  max_promotions_per_roadmap = 2
  max_apply_tasks_per_graph = 2
  MaxStarts = 3
  MaxFaults = 1
SYMMETRY MCSymmetry
INVARIANTS
  LedgerTellsTheBoard
  GraphsAreChained
  OnlyCleanReportsArePromoted
  CursorWaits
CHECK_DEADLOCK FALSE

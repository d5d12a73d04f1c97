SPECIFICATION Spec
CONSTANTS
  N = 2
  Seeds <- MCSeeds
  MaxCopies = 1
  Target = "1499"
  Others = {}
  Operation <- MCOperation
  Endpoint <- MCEndpoint
  Status <- MCStatus
  InitialOrigins <- MCOrigins
  InitialReceipts <- MCReceipts
  InitialSubs <- MCSubs
  Notified = {"delivered"}
  Woken = {"accepted"}
  Acks = {"acked", "refused"}
  MaxRuns = 1
  MaxWrites = 1
INVARIANTS
  SuccessCoversCursor
  RowsKeepTheirInstance
  AppliedWasShown
PROPERTIES
  FactsSurvive
CHECK_DEADLOCK FALSE

SPECIFICATION FairSpec
CONSTANTS
  Workers = {w1}
  Operators = {w1}
  MaxSeq = 2
  Kind <- FixThenRefusal
  Routable <- Everything
  CALLBACK_RETRY_CAP = 2
  MaxCrashes = 1
INVARIANT HandledIsSettled
PROPERTIES
  BackoffFreezesInstance
  AckDeadletterIsFinal
  EveryEventIsDelivered
  CallbackConverges

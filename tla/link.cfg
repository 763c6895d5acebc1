CONSTANTS
  msg_id_end = 8
  AckWindowInit = 1
  WindowLimit = 3
  UnsignedEnd = 16
  MissingCountMax = 1
  HistoryMax = 1
  FirstId <- WrapFirstId
  SendPlans <- Plans4
  Lossy = FALSE
  SendMayFail = TRUE
SPECIFICATION Spec
INVARIANTS
  AcknowledgedWasReceived
  DeliveredExactlyOnceInOrder
  UnreceivedIsKept
  QueuedOrNumbered
  LinkInv
PROPERTY NeverGoesBack

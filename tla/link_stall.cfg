CONSTANTS
  msg_id_end = 8
  AckWindowInit = 1
  WindowLimit = 3
  UnsignedEnd = 4
  MissingCountMax = 3
  HistoryMax = 1
  FirstId <- WrapFirstId
  SendPlans <- Plans2
  Lossy = TRUE
  SendMayFail = FALSE
SPECIFICATION FairSpec
PROPERTY NumberedIsDelivered

CONSTANTS
  msg_id_end = 8
  AckWindowInit = 1
  WindowLimit = 3
  UnsignedEnd = 16
  MissingCountMax = 3
  HistoryMax = 1
  BootEnd = 2
  BootStarts = {1}
  SessionEnd = 8
  SessionStarts = {0}
  AcceptedMax = 4
  InitialIds <- LastInitialId
  MaxRequests = 3
  MaxSessions = 4
  Budgets <- Reconnecting
SPECIFICATION FairSpec
PROPERTY Reconnects
CHECK_DEADLOCK FALSE

CONSTANTS
  msg_id_end = 8
  AckWindowInit = 1
  WindowLimit = 3
  UnsignedEnd = 16
  MissingCountMax = 3
  HistoryMax = 1
  BootEnd = 2
  BootStarts = {1}
  SessionEnd = 8
  SessionStarts = {0}
  AcceptedMax = 1
  InitialIds <- LastInitialId
  MaxRequests = 2
  MaxSessions = 3
  Budgets <- EndsOrCrashes
SPECIFICATION Spec
INVARIANTS
  DeliveredFromItsSession
  SessionsAreSound
  AcknowledgedWasDelivered
  EventsTellItAll
PROPERTY NothingAfterTheEnd
CHECK_DEADLOCK FALSE

SPECIFICATION FairSpec
CONSTANTS
  Kinds = {"single", "switch", "one_of"}
  Devices = {1, 2}
  FirstUserId = 100
  MaxConnections = 3
  MaxControls = 3
CHECK_DEADLOCK FALSE
INVARIANTS TablesAreTrue SendReachesItsConnection NothingIsForgotten
PROPERTIES EventsAreInOrder OldPartnersAreTold

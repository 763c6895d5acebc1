SPECIFICATION FairSpec
CONSTANTS
  Providers = {"p"}
  Services = {"s", "t"}
  Connections = {1, 2}
  ProviderOf <- Again
  ServiceIds = {1, 2}
  Budgets <- Bounds
  MaxInFlight = 2
INVARIANTS ServicesAreKnown AnswersAreExact NewsAreTold
PROPERTIES QueryEnds ResponseIsReleased
CHECK_DEADLOCK FALSE

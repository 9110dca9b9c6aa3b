CONSTANTS
  ConfigBound = 2
  EventBound = 1
SPECIFICATION Spec
INVARIANTS
  TypeOK
  PortalOnlyInSettings
  ViewShowsPortal
  ConfigNotForgotten
  OnlineIsCurrent
PROPERTIES
  WorkerReturns
  ExpiryCloses
  ConfigReaches

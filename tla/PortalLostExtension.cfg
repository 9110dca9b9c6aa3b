CONSTANTS
  ConfigBound = 2
  EventBound = 2
SPECIFICATION Spec
INVARIANTS
  ExtensionHolds

SPECIFICATION Spec
CONSTANTS
  MaxSubscriptions = 5
  MaxEvents = 4
INVARIANTS
  TypeOK
  OneSubscription
PROPERTIES
  EventsInOrder
  SyncsKeepHappening
  Resubscribes
CHECK_DEADLOCK FALSE

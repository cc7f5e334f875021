SPECIFICATION Spec
CONSTANTS
  RouteTTL = 13
  SyncInterval = 3
  MaxSync = 3
  MaxMissed = 2
INVARIANTS
  WantedMappingsDoNotExpire
  StaleMappingsExpire

SPECIFICATION Spec
CONSTANTS
  Mappings = {m1, m2}
  Batches <- MCBatches
INVARIANT TypeOK
PROPERTIES
  ExpiredTokenIsHarmless
  UpsertsComeFirst
  RefinesAtomicEmit
  EmitReturns

SPECIFICATION Spec
CONSTANTS
  Emitters = {e1, e2, e3}
  BadAddress = {}
  BadConfig = {}
  BadTTL = {e3}
  AuthDisabled = FALSE
  Nobody = Nobody
  Orphan = Orphan
INVARIANT
  OnlyTheHolderIsActive
PROPERTIES
  LostEmittersStop
  OneEmitterTakesOver

SPECIFICATION HandlersSpec
CONSTANTS
  h1 = h1
  h2 = h2
  Handlers <- TwoHandlers
  Settings = {TRUE, FALSE}
  Prompt = TRUE
  Keys <- ThreeKeys
  maxRequestNum <- ThreeTotal
  duration <- TwoSeconds
  expirationDuration = 2
  MaxTime = 4
SYMMETRY Alike
INVARIANTS
  WindowRespected
  RefusalJustified
  
CHECK_DEADLOCK FALSE

CONSTANTS
  Ids = {eui, legacy}
  Derived = eui
  NoId = NoId
  Hosts = {h1}
  NoHost = NoHost
  Cap = 2
  Threshold = 2
  MaxBeats = 2
  MaxMoves = 0
  FaultSets = {{"reset"}}
SPECIFICATION Spec
PROPERTY ResetTakesEffect

CONSTANTS
  Ids = {eui, legacy}
  Derived = eui
  NoId = NoId
  Hosts = {h1, h2}
  NoHost = NoHost
  Cap = 2
  Threshold = 2
  MaxBeats = 4
  MaxMoves = 1
  FaultSets = {{"net", "reject"}, {"net", "write", "crash", "rename"}, {"net", "read", "reset"}}
SPECIFICATION FairSpec
INVARIANTS NothingSilentlyLost SilentGatewayLeft OneIdentity
PROPERTIES InOrder EventuallyRegistered

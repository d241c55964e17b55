SPECIFICATION Spec
CONSTANTS
  Versions = {1, 2}
  Digests = {"d1", "d2"}
  Offered <- MCAnyLedger
  SizeOf <- MCSizeOf
  ChunkSize = 2
  Blocks = {}
  Pushers = {w1, w2}
  Faults = {"write", "read", "crash"}
  NoLedger = NoLedger
  Blank = Blank
  NoVal = NoVal
INVARIANTS FlashServesWhole LifecycleMatchesServing
PROPERTIES ImplementsStore

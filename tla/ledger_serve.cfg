SPECIFICATION FairSpec
CONSTANTS
  Versions = {1, 2}
  Digests = {"d1", "d2"}
  Offered <- MCOnePerVersion
  SizeOf <- MCSizeOf
  ChunkSize = 2
  Blocks = {0, 1, 2}
  Pushers = {w1}
  Faults = {"write", "crash", "serve"}
  NoLedger = NoLedger
  Blank = Blank
  NoVal = NoVal
INVARIANTS ChunkFromWholeLedger
PROPERTIES SlotIsReleased

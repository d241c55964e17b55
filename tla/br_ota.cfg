CONSTANTS
  Workers = {w1, w2}
  NoWorker = NoWorker
  Versions = {1, 2, 3}
  FaultSets = {{"net", "routes", "crash"}, {"net", "flash", "routes", "crash"}}
SPECIFICATION FairSpec
INVARIANTS AnnouncedImageIntact AnnouncedRollbackPossible
PROPERTY RoutesReopen

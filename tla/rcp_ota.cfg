CONSTANTS
  Versions = {v1, v2}
  Bootable = {v1, v2}
  FaultSets = {{"net"}, {"net", "nvs"}, {"net", "flash", "rcp", "crash"}, {"net", "uart", "rcp"}}
  Dead = Dead
  NoVersion = NoVersion
  NoImage = NoImage
SPECIFICATION FairSpec
INVARIANTS CurrentImageWhole RunningHostValid UpMeansUpToDate
PROPERTY NewImageRuns

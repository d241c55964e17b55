CONSTANTS
  PollTime = 1
  NoIpTime = 2
  L1Max = 2
  L2Interval = 5
  BootMax = 2
  Window = 10
  MaxUptime = 12
  LockWait = 1
  Word = 100
SPECIFICATION FairSpec
INVARIANTS RestartIsLastResort NoHotLoop GraceAfterReset
PROPERTY DownIsActedOn

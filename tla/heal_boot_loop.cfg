CONSTANTS
  PollTime = 1
  NoIpTime = 2
  L1Max = 1
  L2Interval = 2
  BootMax = 1
  Window = 12
  MaxUptime = 13
  LockWait = 0
  Word = 100
SPECIFICATION HistorySpec
INVARIANT BootLoopCapped
CHECK_DEADLOCK FALSE

SPECIFICATION Spec
CONSTANTS
  MaxAttempts = 2
  Nets = {n1, n2, n3, n4, n5, n6, n7}
  NoNet = NoNet
  Euis = {e1}
  AnyEui = AnyEui
  Pskds = {p1, p2, bad}
  BadPskd = bad
  NoPskd = NoPskd
  PendingMax = 2
  TableMax = 1
  Identities = {i1, i2}
  NoIdentity = NoIdentity
INVARIANTS BackOnItsNetwork OwnNetworkIsAnchored LastAcceptedWins AnsweredIdentityIsWhole
PROPERTIES QueuedIsNotForgotten QueueIsSettled BringUpEnds

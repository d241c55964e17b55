SPECIFICATION Spec
CONSTANTS
  ExternalMax = 28
  Networks = {"n1"}
  Prefixes = {"x"}
  SessionMax = 3
  Routers = {"r1", "r2"}
  Self = "r1"
  NoSet = NoSet
  MinWait = 1
  Quiet = 2
  MaxTimeout = 4
  TickSpan = 10
  PingMax = 3
  ReplyMax = 2
  Submissions <- SubmissionsValue
INVARIANTS EveryRouteAnswers JoinedMeansThisJoin NoLateWrite UpIsSaved NameServerIsGone
PROPERTIES CollectionEnds

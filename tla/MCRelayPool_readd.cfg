SPECIFICATION Spec
CONSTANTS
  r1 = r1
  r2 = r2
  c1 = c1
  c2 = c2
  e1 = e1
  e2 = e2
  s1 = s1
  NoTask = NoTask
  NoArg = NoArg
  NoLimit = NoLimit
  Urls <- OneUrl
  Callers <- TwoCallers
  Events <- None
  SubIds <- OneSub
  GenBound = 2
  Tasks <- PoolTasks
  Msgs <- PoolMsgs
  OutCap = 1
  InCap = 1
  MaxRetries = NoLimit
  AttemptBound = 1
  TextBound = 2
SYMMETRY CallerSymmetry
INVARIANTS
  InboundConserved
  MapOwnsHandles
  ListedKeepsTrying
CHECK_DEADLOCK FALSE

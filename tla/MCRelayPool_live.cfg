SPECIFICATION FairSpec
CONSTANTS
  r1 = r1
  r2 = r2
  c1 = c1
  c2 = c2
  e1 = e1
  e2 = e2
  s1 = s1
  NoTask = NoTask
  NoArg = NoArg
  NoLimit = NoLimit
  Urls <- OneUrl
  Callers <- TwoCallers
  Events <- TwoEvents
  SubIds <- None
  GenBound = 1
  Tasks <- PoolTasks
  Msgs <- PoolMsgs
  OutCap = 1
  InCap = 1
  MaxRetries = 1
  AttemptBound = 2
  TextBound = 1
PROPERTIES
  CallsReturn
  RemovedStops
  StopsWhenAsked
  QueueMoves
CHECK_DEADLOCK FALSE

SPECIFICATION TaskSpec
CONSTANTS
  t1 = t1
  m1 = m1
  m2 = m2
  m3 = m3
  Tasks <- OneTask
  Msgs <- OneMsg
  OutCap = 2
  InCap = 1
  MaxRetries = NoLimit
  NoLimit = NoLimit
  AttemptBound = 3
  TextBound = 2
INVARIANT
  DroppingKeepsTask
CHECK_DEADLOCK FALSE

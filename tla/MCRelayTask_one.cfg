SPECIFICATION TaskSpec
CONSTANTS
  t1 = t1
  m1 = m1
  m2 = m2
  m3 = m3
  Tasks <- OneTask
  Msgs <- ThreeMsgs
  OutCap = 2
  InCap = 1
  MaxRetries = 1
  NoLimit = NoLimit
  AttemptBound = 3
  TextBound = 2
INVARIANTS
  TaskTypeOK
  OutboundConserved
  NeverAbandoned
PROPERTIES
  TerminatedIsFinal
  ImplementsFifo
CHECK_DEADLOCK FALSE

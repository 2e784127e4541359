SPECIFICATION Spec
CONSTANTS
  alice = alice
  bob = bob
  carol = carol
  o1 = o1
  o2 = o2
  NoOne = NoOne
  Agents <- TwoAgents
  Observers <- OneObserver
  EventBound = 3
  ClaimBound = 2
PROPERTY
  TerminalIsFinal
CHECK_DEADLOCK FALSE

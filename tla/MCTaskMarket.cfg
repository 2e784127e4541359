SPECIFICATION Spec
CONSTANTS
  alice = alice
  bob = bob
  carol = carol
  o1 = o1
  o2 = o2
  NoOne = NoOne
  Agents <- ThreeAgents
  Observers <- TwoObservers
  EventBound = 5
  ClaimBound = 3
SYMMETRY MarketSymmetry
INVARIANTS
  MarketTypeOK
  OutcomeJustified
  ObserversAgree
PROPERTIES
  ClosedUntilReset
CHECK_DEADLOCK FALSE

SPECIFICATION Spec
CONSTANTS
  inbox_kind = inbox_kind
  registry_kind = registry_kind
  r1 = r1
  r2 = r2
  NoKind = NoKind
  Kinds <- TwoKinds
  Relays <- TwoRelays
  IdBound = 3
  LossBound = 1
SYMMETRY SubscriptionSymmetry
INVARIANTS
  SubscriptionTypeOK
  MapsInverse
  LiveIsEarned
  NoOrphan
CHECK_DEADLOCK FALSE

SPECIFICATION Spec
CONSTANTS
  inbox_kind = inbox_kind
  registry_kind = registry_kind
  r1 = r1
  r2 = r2
  NoKind = NoKind
  Kinds <- OneKind
  Relays <- OneRelay
  IdBound = 1
  LossBound = 1
INVARIANT
  LiveIsStreaming
CHECK_DEADLOCK FALSE

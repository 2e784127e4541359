SPECIFICATION Spec
CONSTANTS
  Keys <- MCKeys
  Parses <- MCParses
  Reads <- MCReads
  Me = "me"
  Ephemeral = "eph"
  Worlds <- MCWorlds
  Outgoing <- MCOutgoing
  Verbs = {"reply"}
  Thresholds <- MCThresholds
  BatchBound = 2
  QueueBound = 2
  SendBound = 1
  RumorLens = {1, 32768, 32769}
  SealOverhead = 340
  ThreadIds = {"t1"}
  RecordBound = 3
  Cutoffs = {2}
  InstallBound = 2
  Subject = "me"
  MaxU64 = 7
  AssignedBound = 2
  Relays = {"r1"}
  Unit = 2
  Tenth = 3
  DefaultPolicy <- MCDefault
  Policies <- MCPolicies
  TimeBound = 5
  Bits <- MCBits
  Escapes <- MCEscapes
  NonceBound = 3
  MaxLedger = 7
INVARIANTS
  AgentTypeOK
  ThreadHistory
  DirectoryIsLatest
  LimiterKeepsRate
  InstalledIsSafe
  ReceivedIsAuthored
  ReputationIsFair
  SentIsAcceptable
PROPERTY
  PaymentsNeverHurt
CHECK_DEADLOCK FALSE

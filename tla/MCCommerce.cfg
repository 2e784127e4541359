SPECIFICATION Spec
CONSTANTS
  Amounts <- TwoAmounts
  NoAmount = NoAmount
  QuoteBound = 5
INVARIANTS
  CommerceTypeOK
  CopiesInStep
  NoFalseAlarm
  NobodyIsAhead
  PaymentMatches
CHECK_DEADLOCK FALSE

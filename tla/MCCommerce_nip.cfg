SPECIFICATION Spec
CONSTANTS
  Amounts <- TwoAmounts
  NoAmount = NoAmount
  QuoteBound = 5
INVARIANT
  CounterCanBeAccepted
CHECK_DEADLOCK FALSE

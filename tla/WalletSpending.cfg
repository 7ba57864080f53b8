SPECIFICATION MCSpec
CONSTANTS
  Iterations = 2
  InSize = 1
  OutSize = 1
  Kilo = 4
  Settings <- MCSettings
  None = None
INVARIANTS
  GoodPayment
  AllFundsTried
  SpentExact
  RecordsFollow
PROPERTIES
  PaymentEnds
CHECK_DEADLOCK FALSE

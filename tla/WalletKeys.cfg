SPECIFICATION MCSpec
CONSTANTS
  KeyPoolSize = 1
  RefillSizes = {0, 2}
  Failures = {"key", "topup"}
  MaxKey = 4
  MaxTime = 5
  Settings <- MCSettings
INVARIANTS
  PoolReadable
  GivenOutOnce
  OldKeysFlushed
PROPERTIES
  Relocked
  UnlockedAsAsked
CHECK_DEADLOCK FALSE

SPECIFICATION MCSpec
CONSTANTS
  Keys = {k1, k2, k3}
  Passphrases = {p, q}
  MaxAttempts = 2
  Failures = {"begin", "ckey", "commit", "key"}
  None = None
  Record = {"r1", "r2", "r3"}
  Handles = {g, h}
  Pages = {a, b}
  MaxWrites = 3
INVARIANTS
  RecordsKept
  KeysKept
  Unlockable
  TransactionsApart
  BackupExact
PROPERTIES
  OriginalKept

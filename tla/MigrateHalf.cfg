SPECIFICATION MigrateSpec
CONSTANTS
  Record = {"r1", "r2"}
INVARIANTS NeverWithoutWallet

SPECIFICATION Spec
CONSTANTS
  Block <- MCBlock
  Genesis = "G"
  None = "none"
  hashPrevBlock <- MCPrev
  Chain <- MCChain
  nHeight <- MCHeight
  nChainTrust <- MCTrust
  prevoutStake <- MCStake
  Tx <- MCTx
  vtx <- MCVtx
  vin <- MCVin
  vout <- MCVout
  Generated <- MCGenerated
  nCoinbaseMaturity = 1
  BadBlock = {}
  Unacceptable = {}
  PendingAtStart = "A3"
  CheckpointMsg = {}
  MaxCrashes = 1
  MaxIOErrors = 1
INVARIANTS
  HeaviestValidChainWins
  DiskExact
  MemoryFollowsDisk
CHECK_DEADLOCK FALSE

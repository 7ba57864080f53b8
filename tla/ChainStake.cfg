SPECIFICATION FairSpec
CONSTANTS
  Block <- MCBlock
  Genesis = "G"
  None = "none"
  hashPrevBlock <- MCPrev
  Chain <- MCChain
  nHeight <- MCHeight
  nChainTrust <- MCTrust
  prevoutStake <- MCStake
  Tx <- MCTx
  vtx <- MCVtx
  vin <- MCVin
  vout <- MCVout
  Generated <- MCTx
  nCoinbaseMaturity = 1
  BadBlock = {}
  Unacceptable = {}
  PendingAtStart = "none"
  CheckpointMsg = {"O2"}
  MaxCrashes = 0
  MaxIOErrors = 0
INVARIANTS
  StakeReleased
PROPERTIES
  ProcessingEnds

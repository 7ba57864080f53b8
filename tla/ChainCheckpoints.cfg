SPECIFICATION Spec
CONSTANTS
  Block <- MCBlock
  Genesis = "G"
  None = "none"
  hashPrevBlock <- MCPrev
  Chain <- MCChain
  nHeight <- MCHeight
  nChainTrust <- MCTrust
  prevoutStake <- MCStake
  Tx <- MCTx
  vtx <- MCVtx
  vin <- MCVin
  vout <- MCVout
  Generated <- MCGenerated
  nCoinbaseMaturity = 1
  BadBlock = {}
  Unacceptable = {}
  PendingAtStart = "none"
  CheckpointMsg = {"P","B2","A3"}
  MaxCrashes = 1
  MaxIOErrors = 0
INVARIANTS
  Inv
PROPERTIES
  CheckpointAdvances
  ImplementsLedger

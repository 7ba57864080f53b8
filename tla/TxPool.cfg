SPECIFICATION Spec
CONSTANTS
  a = a
  b = b
  c = c
  d = d
  x = x
  Tx = {a, b, c, d, x}
  Coinbase = Coinbase
  Ins <- MCIns
  MaxBlockTx = 2
  Settings <- MCSettings
INVARIANTS
  PoolExact
  BlockConnects
PROPERTIES
  OrphansFollow

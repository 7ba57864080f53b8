SPECIFICATION MCSpec
CONSTANTS
  Asks = 1
  Replies = 2
  HeaderSize = 2
  SocketBuffer = 3
  SendBufferSize = 3
  ReceiveFloodSize = 4
  Host = {"n1", "n2", "n3"}
  Life = 1
  MaxTime = 1
  MaxConnects = 3
  Stake = {5, 6, 7, 8, 9, 10, 13}
  Rounds = 4
  Ratio = 3
  nModifierInterval = 6
  nStakeMinAge = 4
INVARIANTS
  StreamIntact
  AlertsAgree
  KernelAgrees
PROPERTIES
  MessagesServed
CHECK_DEADLOCK FALSE

SPECIFICATION MCSpec
CONSTANTS
  Block <- MCBlock
  None <- MCNone
  Parent <- MCParent
  Main <- MCMain
  Own = {0, 1, 11}
  OwnBest = 11
  StartTip = 5
  BatchLimit = 2
  KnownLimit = 4
  DenseLimit = 2
  NearTip = 2
  Setting <- MCSetting
  Peer = {p, q, r}
  Silent = {p, q}
  Inv = {x}
  Retry = 2
PROPERTIES
  DownloadEnds
  OrphansResolve
  Obtained
CHECK_DEADLOCK FALSE

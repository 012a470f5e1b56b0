\* One descriptor each way, refilled while it is being scanned.
CONSTANTS
  RxLen = 1
  TxLen = 1
  Batch = 2
  Socket = 1
  Depth = 1
SPECIFICATION Spec
INVARIANTS
  TypeOK
  ShadowCoversIndex
  NoneForgotten
PROPERTIES
  FramesMove

SPECIFICATION FairSpec
CONSTANTS
  Reader = {r1, r2}
  Block = {b1, b2, b3, b4, b5, b6}
  Node = {n1, n2, n3}
  Queue = {"gRrcUplinkQueue", "gSgsnUplinkQueue"}
  gSgsnUplinkQueue = "gSgsnUplinkQueue"
  CopyOf <- OneQueue
  Modes = {"TM", "UM"}
  MaxSdus = 3
  NULL = NULL
INVARIANTS
  TypeOK
  VectorsOwnMemory
  OnlyDownSdusLeak
PROPERTIES
  ImplementsHandOver
  EverySduRead
CHECK_DEADLOCK FALSE

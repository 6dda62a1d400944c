SPECIFICATION SpecAm
CONSTANTS
  Reader = {r1}
  Block = {b1, b2, b3, b4, b5, b6}
  Node = {n1, n2, n3}
  Queue = {"gRrcUplinkQueue", "gSgsnUplinkQueue"}
  gSgsnUplinkQueue = "gSgsnUplinkQueue"
  CopyOf <- OneQueue
  Modes = {"AM"}
  MaxSdus = 1
  NULL = NULL
INVARIANT VectorsOwnMemory
CHECK_DEADLOCK FALSE

SPECIFICATION FairSpec
CONSTANTS
  Reader = {r1}
  Block = {b1, b2, b3, b4, b5, b6}
  Node = {n1, n2, n3}
  Queue = {"URlcRecv.cpp", "URlc.cpp", "gSgsnUplinkQueue"}
  gSgsnUplinkQueue = "gSgsnUplinkQueue"
  CopyOf <- StaticQueue
  Modes = {"UM"}
  MaxSdus = 1
  NULL = NULL
PROPERTY EverySduRead
CHECK_DEADLOCK FALSE

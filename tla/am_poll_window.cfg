SPECIFICATION FairSpec
CONSTANTS
  mSNS = 8
  mConfig <- WindowConfig
  Sdu <- LongSdus
  NoPdu = NoPdu
  NoSdu = NoSdu
  Entity = {a, b}
  Writer = {a}
  Tester = {}
  MaxSdus = 2
  MaxInFlight = 2
  MaxLosses = 1
  MaxTriggers = 0
PROPERTY EverythingDelivered
CHECK_DEADLOCK FALSE

SPECIFICATION FairSpec
CONSTANTS
  mSNS = 6
  mConfig <- LiveConfig
  Sdu <- Sdus4
  NoPdu = NoPdu
  NoSdu = NoSdu
  Entity = {a, b}
  Writer = {a}
  Tester = {}
  MaxSdus = 4
  MaxInFlight = 2
  MaxLosses = 2
  MaxTriggers = 0
PROPERTIES
  ImplementsService
  EverythingDelivered
  EverythingAcknowledged
CHECK_DEADLOCK FALSE

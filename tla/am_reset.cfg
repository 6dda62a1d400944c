SPECIFICATION FairSpec
CONSTANTS
  mSNS = 6
  mConfig <- ResetConfig
  Sdu <- Sdus2
  NoPdu = NoPdu
  NoSdu = NoSdu
  Entity = {a, b}
  Writer = {a}
  Tester = {a}
  MaxSdus = 2
  MaxInFlight = 2
  MaxLosses = 2
  MaxTriggers = 2
INVARIANTS
  NackPointerValid
  TransmitWindow
  WindowsNested
  DeliveredInOrder
PROPERTY ResetEnds
CHECK_DEADLOCK FALSE

SPECIFICATION Spec
CONSTANTS
  mSNS = 6
  mConfig <- RsnConfig
  Sdu <- Sdus2
  NoPdu = NoPdu
  NoSdu = NoSdu
  Entity = {a, b}
  Writer = {a}
  Tester = {a}
  MaxSdus = 0
  MaxInFlight = 2
  MaxLosses = 0
  MaxTriggers = 3
PROPERTY AckedResetEnds
CHECK_DEADLOCK FALSE
